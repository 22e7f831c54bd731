\* Two threads; four clients are the fewest that start them.
CONSTANTS
    Client = {c1, c2, c3, c4}
    Replica = {c3, c4}
    io_threads_num = 2
    io_threads_do_reads = TRUE
SPECIFICATION FairSpec
INVARIANTS
    MainWaitsWhileThreadsWork
    ClientHasOneThread
    NoReadLeftBehind
PROPERTIES
    StopTerminates
    AbstractSpec
