SPECIFICATION Spec
CONSTANTS
    CfData = 3
    SnMod = 3
    FfDlMod = 16
    SendBufSize = 12
    MaxWft = 1
    Timeout = 1
    StMins <- MCStMins
    MsgSizes <- MCSizes
    BlockSizes <- MCBlockSizes
    MaxMessages = 2
    MaxGrants = 3
    IdleCap = 2
INVARIANT TypeOK
INVARIANT BlockRespected
INVARIANT WireInOrder
PROPERTY StMinRespected
CHECK_DEADLOCK FALSE
