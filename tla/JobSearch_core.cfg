\* Two people, three employers in four spellings, a year in half-years.
SPECIFICATION Spec
CONSTANTS
    Person = {ann, bob}
    Company <- Spellings
    NoCompany = NoCompany
    Unknown = "(unknown)"
    NoDate = NoDate
    company_key <- Keys
    alphabetical <- InOrder
    found_by <- Containing
    Weights <- DefaultWeights
    Warmth <- HalfYears
    RecentMoveDays = 0
    Title <- Titles
    MaxDay = 2
    MaxVersions = 2
SYMMETRY Interchangeable
INVARIANTS
    TypeOK
    PathsAgreeWithReach
    EmployersLeadToPeople
    FiltersKeepScores
PROPERTY
    ScoresOnlyFade
CHECK_DEADLOCK FALSE
