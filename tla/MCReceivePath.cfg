SPECIFICATION Spec
CONSTANTS
    p1 = p1
    p2 = p2
    Packets <- TwoPackets
    PoolSize = 1
    NotAccepted <- Many
INVARIANTS
    OwedHasHolder
    DescriptorsCorrect
PROPERTY
    PacketComesBack
