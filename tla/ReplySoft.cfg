\* A soft limit of 3 for 1 second.
CONSTANTS
    Kinds = {"bulk"}
    Actions = {}
    Sentinel = FALSE
    BufSize = 2
    Chunk = 2
    GlueMax = 3
    ItemSize = 1
    Limits <- SoftLimit
    Align = 3
    MaxCommands = 3
    MaxTime = 4
SPECIFICATION Spec
INVARIANT SoftLimitContinuous
