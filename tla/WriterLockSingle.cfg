CONSTANTS
    h1 = h1
    h2 = h2
    h3 = h3
    t1 = t1
    t2 = t2
    t3 = t3
    p1 = p1
    p2 = p2
    Nobody = Nobody
    Forever = Forever
    Clients <- MCClients
    Threads <- MCThreads
    Procs <- MCProcs
    ThreadOf <- SingleThreadOf
    ProcOf <- MCProcOf
    Timeout <- MCTimeout
    Interrupts = FALSE
SPECIFICATION FairSpec
INVARIANTS
    TypeOK
    RegistryNotLeaked
    SameProcessConflictIsImmediate
    NoSelfWait
PROPERTIES
    FiniteWaitsEnd
