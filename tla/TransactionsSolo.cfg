CONSTANTS
    h1 = h1
    h2 = h2
    v1 = v1
    v2 = v2
    Nobody = Nobody
    Handles <- OneHandle
    Values <- MCValues
    Overlap = FALSE
    ReadAhead = TRUE
    TornWrites = FALSE
    EmptyTable = TRUE
    Interrupts = FALSE
    IOErrors = FALSE
    MaxPages = 5
    MaxBegins = 2
    MaxCrashes = 2
SPECIFICATION Spec
SYMMETRY ValueSymmetry
INVARIANTS
    TypeOK
    RowsReadable
    SoloInv
    BeginsFromCommitted
PROPERTIES
    OnlyCompletedStatementsCount
    ImplementsAtomicStore
