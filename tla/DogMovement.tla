---------------------------- MODULE DogMovement -----------------------------
(***************************************************************************)
(* One dog on a map's road network: Dog::SetDirection, and what            *)
(* GameSession::UpdateDogPosition makes of a tick, with Map's choice of    *)
(* the road to follow, the idle time that decides about retirement, and    *)
(* the way the collision detector is told the dog has gone.                *)
(*                                                                         *)
(* Coordinates are whole multiples of a unit small enough for the border   *)
(* of 0.4, the speed and the tick, so that double arithmetic is exact;     *)
(* lengths are compared by their squares.  Definitions named after a slip  *)
(* (ClampSwapped) are plausible bugs of the ones that follow them;         *)
(* PROJECT.json says which property notices each.                          *)
(***************************************************************************)
EXTENDS Integers, Sequences, FiniteSets

CONSTANTS
    Roads,       \* Map::roads_, a sequence of [x0, y0, x1, y1]
    Border,      \* BORDER_WIDTH
    DogSpeed,    \* dogSpeed of the map, per unit of time
    Deltas,      \* tick lengths
    MaxInactive, \* dogRetirementTime
    Spawns       \* where a dog may be put: GetRandomPosition, or the origin

ASSUME MovementAssumption ==
    /\ Roads \in Seq([x0 : Int, y0 : Int, x1 : Int, y1 : Int])
    /\ Border \in Nat
    /\ DogSpeed \in Nat \ {0}
    /\ Deltas \subseteq Nat
    /\ MaxInactive \in Nat \ {0}
    /\ Spawns \subseteq [x : Int, y : Int]

VARIABLES
    position,   \* Dog::position_
    speed,      \* Dog::speed_
    afkTime,    \* Dog::afk_time_, up to MaxInactive
    gatherer,   \* Dog::gatherer_: the way gone in the last tick
    ticked      \* history: a tick has moved the dog since it was constructed

vars == <<position, speed, afkTime, gatherer, ticked>>

Point == [x : Int, y : Int]
Origin == [x |-> 0, y |-> 0]
Standing == [x |-> 0, y |-> 0]

-----------------------------------------------------------------------------
(* The roads.                                                              *)

Lower(a, b) == IF a <= b THEN a ELSE b
Upper(a, b) == IF a <= b THEN b ELSE a

\* CalculateBoarders: the box a dog on the road may be in.
StartBorder(r) == [x |-> Lower(r.x0, r.x1) - Border, y |-> Lower(r.y0, r.y1) - Border]
EndBorder(r)   == [x |-> Upper(r.x0, r.x1) + Border, y |-> Upper(r.y0, r.y1) + Border]

IsCoordinatesOnRoad(r, p) ==
    /\ StartBorder(r).x <= p.x /\ p.x <= EndBorder(r).x
    /\ StartBorder(r).y <= p.y /\ p.y <= EndBorder(r).y

\* FindRoadByPosition returns the first road around p, or with an excepted
\* id the first other one; Containing is what it searches.
NoRoad == 0
Containing(p, excepted) ==
    {i \in DOMAIN Roads : i # excepted /\ IsCoordinatesOnRoad(Roads[i], p)}
FirstOf(S) == CHOOSE i \in S : \A j \in S : i <= j

ClampNothing(v, low, high) == v
ClampSwapped(v, low, high) == IF v <= low THEN high ELSE IF v >= high THEN low ELSE v
Clamp(v, low, high) == IF v <= low THEN low ELSE IF v >= high THEN high ELSE v
KeepOnCentre(s, v, low, high) == IF v <= low + Border \/ v >= high - Border THEN 0 ELSE s
Keep(s, v, low, high) == IF v <= low \/ v >= high THEN 0 ELSE s

\* CalculatePositionAndSpeedOnRoad: the dog stays in the box, and a
\* component of the speed that leads out of it, or onto its edge, is lost.
OnRoad(r, p, s) ==
    LET b == StartBorder(r)
        e == EndBorder(r)
    IN  [position |-> [x |-> Clamp(p.x, b.x, e.x), y |-> Clamp(p.y, b.y, e.y)],
         speed    |-> [x |-> Keep(s.x, p.x, b.x, e.x), y |-> Keep(s.y, p.y, b.y, e.y)]]

SquaredDistance(p, q) == (q.x - p.x) * (q.x - p.x) + (q.y - p.y) * (q.y - p.y)
SquaredSpeed(s) == SquaredDistance(Standing, s)

\* CalculateNewPosition
Target(dt) == [x |-> position.x + speed.x * dt, y |-> position.y + speed.y * dt]

\* UpdateDogPosition: follow the road the dog is on and, if the target lies
\* on another road too, that one; take the first when it leads further or
\* keeps more speed.  A road that is not found leaves the dog standing.
Moved(dt) ==
    LET stay    == [position |-> position, speed |-> Standing]
        here    == Containing(position, NoRoad)
        current == IF here = {} THEN stay ELSE OnRoad(Roads[FirstOf(here)], Target(dt), speed)
        there   == IF here = {} THEN {} ELSE Containing(Target(dt), FirstOf(here))
        other   == IF there = {} THEN stay ELSE OnRoad(Roads[FirstOf(there)], Target(dt), speed)
    IN  IF \/ SquaredDistance(current.position, position) > SquaredDistance(other.position, position)
           \/ SquaredSpeed(current.speed) > SquaredSpeed(other.speed)
        THEN current ELSE other

-----------------------------------------------------------------------------
(* The dog.                                                                *)

\* A new dog: whatever its position, its gatherer starts at the origin.
Init ==
    /\ position \in Spawns
    /\ speed = Standing
    /\ afkTime = 0
    /\ gatherer = [start |-> Origin, end |-> Origin]
    /\ ticked = FALSE

Directions ==
    {Standing,
     [x |-> -DogSpeed, y |-> 0], [x |-> DogSpeed, y |-> 0],
     [x |-> 0, y |-> -DogSpeed], [x |-> 0, y |-> DogSpeed]}

SetDirection(d) ==
    /\ speed' = d
    /\ afkTime' = 0
    /\ UNCHANGED <<position, gatherer, ticked>>

Capped(t) == IF t > MaxInactive THEN MaxInactive ELSE t

\* SetPosition: the new way starts where the last one ended.
SweepFromStart(p) == [start |-> gatherer.start, end |-> p]
Sweep(p) == [start |-> gatherer.end, end |-> p]

\* UpdateDogPosition ends in SetPosition and SetSpeed.
Tick(dt) ==
    /\ position' = Moved(dt).position
    /\ speed' = Moved(dt).speed
    /\ gatherer' = Sweep(position')
    /\ afkTime' = IF speed' = Standing THEN Capped(afkTime + dt) ELSE 0
    /\ ticked' = TRUE

\* Saved and restored: DogRepr keeps position and speed only.
Restore ==
    /\ afkTime' = 0
    /\ gatherer' = [start |-> Origin, end |-> Origin]
    /\ ticked' = FALSE
    /\ UNCHANGED <<position, speed>>

IsAfk == afkTime >= MaxInactive

\* A dog found idle is retired after the tick; nothing moves it any more.
Next ==
    /\ ~IsAfk
    /\ \/ \E d \in Directions : SetDirection(d)
       \/ \E dt \in Deltas : Tick(dt)
       \/ Restore

Spec == Init /\ [][Next]_vars

-----------------------------------------------------------------------------
(* Properties.                                                             *)

\* Every variable has the type of its C++ member.
TypeOK ==
    /\ position \in Point
    /\ speed \in Directions
    /\ afkTime \in 0 .. MaxInactive
    /\ gatherer \in [start : Point, end : Point]
    /\ ticked \in BOOLEAN

OnSomeRoad == Containing(position, NoRoad) # {}

\* A dog on the road network never leaves it, although a tick looks at two
\* roads only and may be long enough to pass several; a dog that was put
\* beside the roads (the origin need not be on one) never moves.
StaysOnRoads ==
    [][IF OnSomeRoad THEN OnSomeRoad' ELSE position' = position]_vars

\* Moving dogs collect no idle time: who is retired for idleness stands.
IdleIsStanding == afkTime > 0 => speed = Standing

\* From its second tick on a dog sweeps exactly the way it has gone: the
\* collision detector is shown no gap and no detour.  (In its first tick it
\* is shown the way from the origin.)
SweepIsWay == [][ticked /\ ticked' /\ gatherer' # gatherer
                    => gatherer' = [start |-> position, end |-> position']]_vars

Between(v, a, b) == Lower(a, b) <= v /\ v <= Upper(a, b)

\* A tick takes the dog straight towards its target, never aside, back or
\* too far, whichever of two crossing roads it follows; and it does take it
\* there when the target is on the road network.
StraightTick(dt) ==
    /\ Between(position'.x, position.x, Target(dt).x)
    /\ Between(position'.y, position.y, Target(dt).y)
    /\ OnSomeRoad /\ Containing(Target(dt), NoRoad) # {} => position' = Target(dt)
TicksAreStraight == [][\A dt \in Deltas : Tick(dt) => StraightTick(dt)]_vars

AtEdge(r, p) ==
    /\ IsCoordinatesOnRoad(r, p)
    /\ \/ p.x \in {StartBorder(r).x, EndBorder(r).x}
       \/ p.y \in {StartBorder(r).y, EndBorder(r).y}

\* A tick changes the speed of a dog on a road only by stopping it, and only
\* at an edge of a road: crossing over to another road never turns or
\* brakes it, so it collects no idle time there.
Braked == speed' = Standing /\ \E i \in DOMAIN Roads : AtEdge(Roads[i], position')
StopsOnlyAtEdges ==
    [][\A dt \in Deltas : Tick(dt) /\ OnSomeRoad /\ speed' # speed => Braked]_vars
=============================================================================
