SPECIFICATION PaceSpec
CONSTANTS
    Wrap = 8
    MaxDelay = 3
    Slack = 1
    MaxTime = 14
    NoTurn = NoTurn
INVARIANT PaceTypeOK
INVARIANT Paced
PROPERTY NoLongWait
CHECK_DEADLOCK FALSE
