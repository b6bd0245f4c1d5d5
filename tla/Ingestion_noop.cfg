\* Two runs, the first of which may fail after its ingest task.
SPECIFICATION Spec
CONSTANTS
    good = good
    better = better
    odd = odd
    blank = blank
    broken = broken
    Content = {good, better}
    Malformed = {}
    Empty = {}
    FailsCheckpoint = {}
    FailsTests = {}
    Run = {r1, r2}
    MaxTries = 3
    MaxTs = 2
    MaxObjects = 2
    Hash8 <- DistinctHashes
    Placeable <- NothingPlaced
    File <- Files
    Text <- Texts
    stripped <- Stripped
    folded <- Folded
PROPERTY
    NoopHadNothingToDo
CHECK_DEADLOCK FALSE
