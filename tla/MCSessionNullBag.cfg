\* Can every bag be saved and restored, as state-serialization-tests.cpp says?
CONSTANTS
    Dogs = {d1, d2}
    Offices = {o1}
    MaxRuns = 2
    Capacity = 2
    MaxLoot = 2
    Null = Null
SYMMETRY Symmetry
SPECIFICATION Spec
\* a crashed process may be the last one
CHECK_DEADLOCK FALSE
INVARIANTS
    BagsSerializable
