\* Streams of one or two requests, cut into reads at any byte.
CONSTANTS
    Streams <- MCStreams
    ReadLen = 6
    InlineMax = 5
    BigArg = 2
    MaxMultibulk = 3
    MaxBulk = 4
    MaxQuerybuf = 20
    MaxHolds = 1
SPECIFICATION Spec
INVARIANTS
    CommandsAsSent
    NothingLeftBehind
    ClosedWithCause
    OffsetIsApplied
    ParserAssertsHold
