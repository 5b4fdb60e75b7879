SPECIFICATION Spec
CONSTANTS
    BufferSize = 6
    HeaderSize = 2
    Timeout = 1
    Lengths <- MCShortLengths
    FifoSize = 3
    MaxEvents = 1
    MaxPackets = 3
    MaxFaults = 1
    None = None
INVARIANT TypeOK
INVARIANT DeliveredWhole
PROPERTY GetsThrough
PROPERTY StalePacketEnds
CHECK_DEADLOCK FALSE
