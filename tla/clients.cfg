SPECIFICATION Spec
CONSTANTS
    Timeout = 3
    MaxLinks = 2
    MaxEvents = 2
INVARIANT TypeOK
INVARIANT ReachableWhenIdle
PROPERTY EndsInSilence
PROPERTY VisibleAgain
CHECK_DEADLOCK FALSE
