CONSTANTS
    p1 = p1
    p2 = p2
    Keys <- MCKeys
    Pointers <- MCPointers
    Orders <- MCOrders
    Batches <- MCBatches
    LegacyPages <- MCLegacyPages
    MaxPages = 3
SPECIFICATION Spec
INVARIANTS
    TypeOK
    WellFormed
PROPERTIES
    ImplementsSortedIndex
