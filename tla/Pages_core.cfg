\* One export; the owner reloads two pages and clicks while the DAG writes.
SPECIFICATION FairSpec
CONSTANTS
    Content = {march}
    Hash8 <- Hashes
INVARIANTS
    TypeOK
    NumbersAreReal
    NothingNewIsTrue
PROPERTIES
    NothingLatches
    PendingSettles
CHECK_DEADLOCK FALSE
