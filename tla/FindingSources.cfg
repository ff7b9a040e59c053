SPECIFICATION Spec
CONSTANTS
    Issues = {1, 2, 3, 4}
    FileOf <- MCFileOf
    Configured = TRUE
    PageSize = 2
    Declared <- Distinct
    Contents <- MCContents
    Checkout = {"a", "b"}
    MaxChanges = 2
    MaxFaults = 1
INVARIANTS
    TypeOK
    AbsenceJustified
    SourcesIndependent
CHECK_DEADLOCK FALSE
