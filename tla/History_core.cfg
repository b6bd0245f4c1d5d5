\* Exports in any order of snapshot_ts, two of them maybe in one second; every task may fail.
SPECIFICATION Spec
CONSTANTS
    Connection = {ann, bob}
    Attribute = {acme, globex}
    Absent = Absent
    MaxTs = 3
    MaxClock = 3
    MaxBatches = 3
SYMMETRY Interchangeable
INVARIANTS
    VersionsDoNotOverlap
    CurrentIsLatest
    FactsAgreeWithDimension
    StatsAddUp
PROPERTIES
    HistoryIsKept
    RebuildChangesNothing
CHECK_DEADLOCK FALSE
