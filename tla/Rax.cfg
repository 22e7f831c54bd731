\* Six keys with common prefixes, with and without data.
CONSTANTS
    Keys <- MCKeys
    Probes <- MCProbes
    Data <- MCData
    RAX_NODE_MAX_SIZE = 3
    Overruns = FALSE
SPECIFICATION Spec
INVARIANTS
    NodesFit
    CountsExact
PROPERTY AbstractSpec
