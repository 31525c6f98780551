CONSTANTS
    Players = {me, p}
    Me = me
    Locals = {me, p}
    Items = {i1}
    StateSlots = {c1, c2}
    ListSlots = {c3}
    PlayersInterval = 1
SPECIFICATION FairSpec
\* a page that was left, or whose first request failed, stops
CHECK_DEADLOCK FALSE
INVARIANTS
    OwnedOnce
    MirrorsState
    LeaksHaveCause
    BagsShown
PROPERTIES
    SettlesDown
