SPECIFICATION Spec
CONSTANTS
    HeaderSize = 2
    PartSize = 2
    CountMod = 4
    Room = 6
    FragmentRoom = 4
    BufSize = 10
    SettingSizes <- MCSettingSizes
    Asks <- MCAsks
    MaxPackets = 3
    MaxLinks = 2
    MaxFaults = 2
INVARIANT CompleteIsParsed
INVARIANT SettingsAsAsked
PROPERTY ParsedWhole
CHECK_DEADLOCK FALSE
