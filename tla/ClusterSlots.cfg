\* Three masters, one slot with two keys: an interrupted command, then another.
CONSTANTS
    NumMasters = 3
    NumSlots = 2
    Key <- MCKey
    Owners <- MCOwners
    Pipeline = 1
    Commands <- MCCommands
    MaxCommands = 2
    MaxFaults = 2
    MaxVersion = 2
    LiveFix = FALSE
SPECIFICATION Spec
CHECK_DEADLOCK FALSE
INVARIANTS
    NoUpdateLost
    KeysReachable
    MovesComplete
    FixHeals
    RebalanceFair
