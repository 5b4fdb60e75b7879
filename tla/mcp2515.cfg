SPECIFICATION McpSpec
CONSTANTS
    Links = {l1, l2}
    None = None
    MaxArrivals = 3
    MaxSends = 1
INVARIANT FramesKept
PROPERTY TasksGoOn
CHECK_DEADLOCK FALSE
