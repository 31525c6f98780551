CONSTANTS
    LootTypes <- MCLootTypes
    Objs <- MCLootTypes
    FileOf <- MCFileOf
    Pug = "pug.fbx"
    None = "none"
    Keys = {"U", "R", "D"}
    MaxPosts = 3
SPECIFICATION FairSpec
\* a page whose files are broken stops
CHECK_DEADLOCK FALSE
INVARIANTS
    ModelsComplete
    MoveIsLastKey
PROPERTIES
    GameBegins
