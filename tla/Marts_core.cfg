\* Employers in two spellings; a run of the models may fail between any two.
SPECIFICATION MartsSpec
CONSTANTS
    Connection = {ann, bob}
    Attribute <- Companies
    Absent = Absent
    MaxTs = 2
    MaxClock = 2
    MaxBatches = 2
    Label <- Spellings
    Unknown = "(unknown)"
    company_label <- Labelled
    company_key <- Folded
    alphabetical <- InOrder
    Blank <- NoText
    RestrictedRows <- OneEach
SYMMETRY Interchangeable
INVARIANTS
    MartsTypeOK
    CompanyCountsAgree
    ChartAddsUp
    EmployersAgree
    DepartedAreAbsent
PROPERTY
    ImplementsHistory
CHECK_DEADLOCK FALSE
