SPECIFICATION Spec
CONSTANTS
    p1 = p1
    p2 = p2
    Packets <- MCPackets
    PoolSize = 1
    Oids = {"query", "set"}
INVARIANTS
    CompletionAssert
