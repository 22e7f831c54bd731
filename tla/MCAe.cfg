\* Two descriptors on each backend: a handler deletes, re-registers or replaces
\* the event of the other entry before its turn comes, or polls again and
\* overwrites the fired array.
CONSTANTS
    MaxFd = 1
    Sizes = {1, 2}
    RProc = {p}
    WProc = {p, q}
    Wild = Wild
    Apis = {"epoll", "select", "kqueue", "evport"}
    WriteMasks = {{"AE_WRITABLE"}, {"AE_WRITABLE", "AE_BARRIER"}}
    MaxDepth = 2
    CommandsInHandlers = FALSE
SPECIFICATION Spec
ACTION_CONSTRAINT NestedBound
INVARIANTS
    MaxfdIsHighest
    KernelMatchesMask
    FiredInBounds
    EventStillValid
PROPERTY EntriesServed
