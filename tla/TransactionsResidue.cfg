CONSTANTS
    h1 = h1
    h2 = h2
    v1 = v1
    v2 = v2
    Nobody = Nobody
    Handles <- OneHandle
    Values <- MCValues
    Overlap = FALSE
    ReadAhead = FALSE
    TornWrites = FALSE
    EmptyTable = FALSE
    Interrupts = FALSE
    IOErrors = FALSE
    MaxPages = 4
    MaxBegins = 1
    MaxCrashes = 1
SPECIFICATION Spec
SYMMETRY ValueSymmetry
PROPERTIES
    IndexChangesByCommitOnly
