\* Is loot conserved?  Two dogs that may cross the same items in one tick, an
\* office, room for two items in a bag.
CONSTANTS
    Dogs = {d1, d2}
    Offices = {o1}
    MaxRuns = 2
    Capacity = 2
    MaxLoot = 3
    Null = Null
SYMMETRY Symmetry
SPECIFICATION Spec
\* a crashed process may be the last one
CHECK_DEADLOCK FALSE
INVARIANTS
    OnePlace
    FreshLoot
    BagFits
PROPERTIES
    NothingLost
