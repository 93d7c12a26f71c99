SPECIFICATION Spec
CONSTANTS
    t1 = t1
    t2 = t2
    c1 = c1
    c2 = c2
    Threads <- TwoThreads
    Connections <- TwoConnections
    Shared <- Unordered
    MaxNodes = 5
CHECK_DEADLOCK FALSE
INVARIANTS
    OnePerConnection
    InsertedIsReachable
    WaitingIsServed
    TakesWhatItTested
PROPERTIES
    ImplementsTable
    IndicationEnds
