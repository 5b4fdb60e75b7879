SPECIFICATION Spec
CONSTANTS
    HeaderSize = 2
    PartSize = 2
    DefaultRoom = 4
    Rooms <- MCRooms
    Sizes <- MCSizes
    QueueSize = 2
    MaxMessages = 3
    MaxLinks = 2
    MaxCongestions = 1
    MaxFaults = 1
PROPERTY WholeInOrder
PROPERTY ReachesClient
PROPERTY StopEnds
CHECK_DEADLOCK FALSE
