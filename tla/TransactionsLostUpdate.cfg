CONSTANTS
    h1 = h1
    h2 = h2
    v1 = v1
    v2 = v2
    Nobody = Nobody
    Handles <- TwoHandles
    Values <- MCValues
    Overlap = TRUE
    ReadAhead = FALSE
    TornWrites = FALSE
    EmptyTable = FALSE
    Interrupts = FALSE
    IOErrors = FALSE
    MaxPages = 4
    MaxBegins = 2
    MaxCrashes = 0
SPECIFICATION Spec
SYMMETRY ValueSymmetry
INVARIANTS
    BeginsFromCommitted
