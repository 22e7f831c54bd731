\* Two threads meet malformed input at the same time.
CONSTANTS
    Client = {c1, c2}
    NULL = NULL
    MaxCommands = 2
    Commands <- OnlyReply
    BatchCommands = {"reply"}
    Malformed = {c1, c2}
SYMMETRY Symmetry
SPECIFICATION Spec
INVARIANTS
    UnlinkAssertsHold
