SPECIFICATION Spec
CONSTANTS
    PersistCount = 2
    LinkCount = 2
    MaxMessage = 2
    QueueSize = 1
    Payloads = {a, b}
    Routes = {TRUE, FALSE}
    a = a
    b = b
    Offered <- MCOffered
    NoData = NoData
    None = None
    MaxPackets = 3
    MaxSessions = 1
    MaxFaults = 1
INVARIANT RoutedAsAsked
CHECK_DEADLOCK FALSE
