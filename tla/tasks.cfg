SPECIFICATION TasksSpec
CONSTANTS
    QueueSize = 2
    MaxFrames = 2
    MaxMessages = 2
    MaxArrivals = 2
PROPERTY WorkIsDone
PROPERTY StopEnds
INVARIANT TypeOK
INVARIANT AwakeForWork
INVARIANT RoutedUnlessDisturbed
CHECK_DEADLOCK FALSE
