\* A connection leaves and comes back.
SPECIFICATION Spec
CONSTANTS
    Connection = {ann, bob}
    Attribute = {acme, globex}
    Absent = Absent
    MaxTs = 3
    MaxClock = 3
    MaxBatches = 3
SYMMETRY Interchangeable
INVARIANT
    RecentChangesAreMoves
CHECK_DEADLOCK FALSE
