CONSTANTS
    h1 = h1
    h2 = h2
    v1 = v1
    v2 = v2
    Nobody = Nobody
    Handles <- TwoHandles
    Values <- MCValues
    Overlap = TRUE
    ReadAhead = FALSE
    TornWrites = FALSE
    EmptyTable = TRUE
    Interrupts = FALSE
    IOErrors = FALSE
    MaxPages = 3
    MaxBegins = 2
    MaxCrashes = 1
SPECIFICATION Spec
SYMMETRY ValueSymmetry
INVARIANTS
    AlwaysRecoverable
