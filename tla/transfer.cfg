SPECIFICATION Spec
CONSTANTS
    CfData = 2
    SnMod = 2
    FfDlMod = 10
    SendBufSize = 10
    RecvBufSize = 10
    MaxWft = 1
    BlockSize = 2
    Timeout = 1
    Sizes <- MCSizes
    MaxMessages = 3
    MaxLoss = 2
INVARIANT BlockHonoured
PROPERTY ImplementsTransfer
PROPERTY TransferEnds
PROPERTY LastIsDelivered
CHECK_DEADLOCK FALSE
