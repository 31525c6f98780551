\* Quarter turns of two steps, so that turns can be interrupted, and two
\* answers that can overtake each other.
CONSTANTS
    Moves = {"U", "R", "D", "L"}
    Quarter = 2
    StateSlots = {c1, c2}
SPECIFICATION FairTurningSpec
INVARIANTS
    TurnIsShortest
PROPERTIES
    NeverTurnsAway
    ActorFollows
