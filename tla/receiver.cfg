SPECIFICATION Spec
CONSTANTS
    CfData = 2
    SnMod = 2
    RecvBufSize = 7
    BlockSize = 2
    Timeout = 1
    Sizes <- MCSizes
    Rooms <- MCRooms
    MaxFrames = 7
INVARIANT TypeOK
INVARIANT InBounds
INVARIANT Assembled
INVARIANT BlocksAcknowledged
CHECK_DEADLOCK FALSE
