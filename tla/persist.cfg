SPECIFICATION Spec
CONSTANTS
    PersistCount = 2
    LinkCount = 2
    MaxMessage = 2
    QueueSize = 1
    Payloads = {a, b}
    Routes = {FALSE}
    a = a
    b = b
    Offered <- MCOffered
    NoData = NoData
    None = None
    MaxPackets = 3
    MaxSessions = 1
    MaxFaults = 1
INVARIANT TypeOK
INVARIANT TurnInList
INVARIANT SessionStartsClean
INVARIANT OneStraggler
PROPERTY EveryMessageIsSent
CHECK_DEADLOCK FALSE
