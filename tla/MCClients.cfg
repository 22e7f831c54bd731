\* Two connections with commands of every kind, one with malformed input.
CONSTANTS
    Client = {c1, c2}
    NULL = NULL
    MaxCommands = 2
    Commands <- AllKinds
    BatchCommands = {"reply", "quit", "block", "unblock"}
    Malformed = {c1}
SPECIFICATION FairSpec
INVARIANTS
    UnlinkAssertsHold
    QueuesNameFlagged
    NoReplyStranded
    ClosingHasReply
PROPERTIES
    ClosingIsFreed
    CommandsAreServed
