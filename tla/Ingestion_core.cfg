\* The app alone fills the landing zone, every task may fail, two short hashes collide.
SPECIFICATION Spec
CONSTANTS
    good = good
    better = better
    odd = odd
    blank = blank
    broken = broken
    Content = {good, better, odd}
    Malformed = {}
    Empty = {}
    FailsCheckpoint = {odd}
    FailsTests = {odd}
    Run = {r1, r2}
    MaxTries = 2
    MaxTs = 2
    MaxObjects = 2
    Hash8 <- CollidingHashes
    Placeable <- NothingPlaced
    File <- Files
    Text <- Texts
    stripped <- Stripped
    folded <- Folded
SYMMETRY AnyRun
INVARIANTS
    TypeOK
    ExactlyOnce
    LayersInOrder
    NewestInSilverPassed
    BronzeHoldsTheExport
PROPERTIES
    FullHashDecides
    SuccessIsCurrent
    SuccessVouchesForHistory
    ImplementsDataset
CHECK_DEADLOCK FALSE
