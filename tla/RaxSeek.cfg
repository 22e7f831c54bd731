\* The data an iterator shows.
CONSTANTS
    Keys <- MCKeys
    Probes <- MCProbes
    Data <- MCData
    RAX_NODE_MAX_SIZE = 3
    Overruns = FALSE
SPECIFICATION Spec
INVARIANT IteratorData
