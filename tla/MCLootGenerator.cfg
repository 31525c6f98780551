CONSTANTS
    Period = 2
    Num = 3
    Den = 4
    MaxDelay = 1
    MaxLoots = 2
    MaxLooters = 3
    Enough = 7
SPECIFICATION GeneratorSpec
INVARIANTS
    NoDrought
PROPERTIES
    LootLimited
