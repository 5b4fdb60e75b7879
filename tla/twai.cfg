SPECIFICATION TwaiSpec
CONSTANTS
    Links = {l1, l2}
    Nobody = Nobody
    MaxFrames = 4
    MaxBusOffs = 2
INVARIANT CallsFindTheirState
PROPERTY TasksGoOn
CHECK_DEADLOCK FALSE
