\* Replies of all kinds, alone or in an aggregate, three commands.
CONSTANTS
    Kinds = {"status", "int", "bulk", "double", "infinity", "verbatim", "array", "map", "set", "push", "help"}
    Actions = {"HELLO", "ON", "OFF", "SKIP", "QUIT", "MODULE"}
    Sentinel = FALSE
    BufSize = 2
    Chunk = 2
    GlueMax = 3
    ItemSize = 1
    Limits <- MCLimits
    Align = 3
    MaxCommands = 3
    MaxTime = 2
SPECIFICATION Spec
INVARIANTS
    PeerSeesReplies
    ReplyBytesExact
    HardLimitCloses
