\* Layouts of six nodes on up to three hosts, one with a node left over, one that is
\* refused, four and five masters without replicas, and two clusters that nodes join
\* and leave.  One is 2^6 instead of 2^23, so that few masters meet floats that are
\* rounded; Spacings reaches beyond NumSlots.
CONSTANTS
    NumSlots = 97
    One = 64
    Spacings = {1, 2, 4, 8, 16, 32, 64}
    Layouts <- MCLayouts
SPECIFICATION Spec
CHECK_DEADLOCK FALSE
INVARIANTS
    PlanSound
    CreateComplete
    MembersComplete
PROPERTIES
    CommandsEnd
