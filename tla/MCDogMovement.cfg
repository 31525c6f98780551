SPECIFICATION Spec
CONSTANTS
    Roads <- MCRoads
    Border = 2
    DogSpeed = 3
    Deltas = {0, 1, 3}
    MaxInactive = 3
    Spawns <- MCSpawns
PROPERTIES
    StaysOnRoads
    SweepIsWay
    TicksAreStraight
    StopsOnlyAtEdges
\* A dog that is idle for too long is retired: the model stops there.
CHECK_DEADLOCK FALSE
