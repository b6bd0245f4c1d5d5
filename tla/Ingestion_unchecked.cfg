\* Two exports pending in one run, the older one rejected by the checkpoint.
SPECIFICATION Spec
CONSTANTS
    good = good
    better = better
    odd = odd
    blank = blank
    broken = broken
    Content = {good, odd}
    Malformed = {}
    Empty = {}
    FailsCheckpoint = {odd}
    FailsTests = {}
    Run = {r1, r2}
    MaxTries = 1
    MaxTs = 2
    MaxObjects = 2
    Hash8 <- DistinctHashes
    Placeable <- NothingPlaced
    File <- Files
    Text <- Texts
    stripped <- Stripped
    folded <- Folded
INVARIANT
    OnlyCheckedReachesSilver
CHECK_DEADLOCK FALSE
