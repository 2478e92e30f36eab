CONSTANTS
    h1 = h1
    h2 = h2
    v1 = v1
    v2 = v2
    Nobody = Nobody
    Handles <- TwoHandles
    Values <- OneValue
    Overlap = TRUE
    ReadAhead = FALSE
    TornWrites = TRUE
    EmptyTable = FALSE
    Interrupts = TRUE
    IOErrors = TRUE
    MaxPages = 4
    MaxBegins = 2
    MaxCrashes = 2
SPECIFICATION Spec
SYMMETRY HandleSymmetry
INVARIANTS
    RecoveryOnlyAfterCrash
    AlwaysRecoverable
PROPERTIES
    OnlyTheOwnerWrites
