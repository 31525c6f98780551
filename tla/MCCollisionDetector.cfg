CONSTANTS
    Dogs = {d1, d2}
    Items = {"loot", "office"}
    Position <- Place
    Radius <- Reach
    Steps = {1, 2}
    Size = 3
SYMMETRY Symmetry
SPECIFICATION Spec
INVARIANTS
    NothingMissed
    FirstComeFirst
