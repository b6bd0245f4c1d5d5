\* Objects are also put in the bucket under names that are not theirs; what is queued is run.
SPECIFICATION FairSpec
CONSTANTS
    good = good
    better = better
    odd = odd
    blank = blank
    broken = broken
    Content = {good, blank, broken}
    Malformed = {broken}
    Empty = {blank}
    FailsCheckpoint = {}
    FailsTests = {}
    Run = {r1, r2}
    MaxTries = 2
    MaxTs = 1
    MaxObjects = 2
    Hash8 <- DistinctHashes
    Placeable <- StrangeObjects
    File <- Files
    Text <- Texts
    stripped <- Stripped
    folded <- Folded
INVARIANTS
    BronzeIsGenuine
    NothingPassedOver
PROPERTY
    RunsEnd
CHECK_DEADLOCK FALSE
