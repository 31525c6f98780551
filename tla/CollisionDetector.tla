-------------------------- MODULE CollisionDetector --------------------------
(***************************************************************************)
(* collision_detector::FindGatherEvents, and the dogs whose ways it is     *)
(* given tick by tick.                                                     *)
(*                                                                         *)
(* Coordinates and widths are whole multiples of a unit; the quotients     *)
(* proj_ratio and sq_distance are kept as numerator and denominator, which *)
(* makes the comparisons of the code exact.  A tick moves a dog along one  *)
(* axis or not at all (DogMovement); its first way, which starts at the    *)
(* origin, is left out.  The items are those that stay where they are.     *)
(* Definitions named after a slip (IsCollectedInside) are plausible bugs   *)
(* of those which follow them.                                             *)
(***************************************************************************)
EXTENDS Integers, Sequences, FiniteSets

CONSTANTS
    Dogs,      \* the gatherers
    Items,     \* lost objects and offices
    Position,  \* of each item
    Radius,    \* item.GetWidth() + gatherer.width
    Steps,     \* how far a tick may lead: speed times its length
    Size       \* the roads fill a square with edges of this length

Coordinates == 0 .. Size
Point == [x : Coordinates, y : Coordinates]

ASSUME DetectorAssumption ==
    /\ IsFiniteSet(Dogs) /\ IsFiniteSet(Items)
    /\ Size \in Nat
    /\ Steps \subseteq Nat
    /\ Position \in [Items -> [x : Int, y : Int]]
    /\ Radius \in [Items -> Nat]

VARIABLES
    way,     \* Dog::gatherer_: where the last tick started and ended
    events,  \* result of FindGatherEvents in the last tick
    \* history, read by properties only
    stride,  \* how far a dog that was not stopped went in it
    leg,     \* where each dog's present straight way began
    met      \* the items of its events since then

vars == <<way, events, stride, leg, met>>

-----------------------------------------------------------------------------
(* The detector.                                                           *)

Dot(p, q) == p.x * q.x + p.y * q.y
Minus(p, q) == [x |-> p.x - q.x, y |-> p.y - q.y]

\* proj_ratio is uv / vv, sq_distance is uu - uv * uv / vv.
TryCollectPoint(a, b, c) ==
    LET u == Minus(c, a)
        v == Minus(b, a)
    IN  [uv |-> Dot(u, v), uu |-> Dot(u, u), vv |-> Dot(v, v)]

IsCollectedInside(r, radius) ==
    /\ 0 < r.uv /\ r.uv < r.vv
    /\ r.uu * r.vv - r.uv * r.uv <= radius * radius * r.vv
IsCollected(r, radius) ==
    /\ 0 <= r.uv /\ r.uv <= r.vv
    /\ r.uu * r.vv - r.uv * r.uv <= radius * radius * r.vv

Result(w, e) == TryCollectPoint(w[e[1]].start, w[e[1]].end, Position[e[2]])

\* Pairs of a dog that has moved and an item it collects.
Gathered(w) == {e \in Dogs \X Items :
    /\ w[e[1]].start # w[e[1]].end
    /\ IsCollected(Result(w, e), Radius[e[2]])}

\* The order of the events: by proj_ratio.
EarlierByDistance(r, s) ==
    (r.uu * r.vv - r.uv * r.uv) * s.vv < (s.uu * s.vv - s.uv * s.uv) * r.vv
Earlier(r, s) == r.uv * s.vv < s.uv * r.vv

\* std::sort leaves equal events in any order.
FindGatherEvents(w) ==
    LET S == Gathered(w)
    IN  {s \in [1 .. Cardinality(S) -> S] :
            /\ \A e \in S : \E i \in DOMAIN s : s[i] = e
            /\ \A i, j \in DOMAIN s : i < j => ~Earlier(Result(w, s[j]), Result(w, s[i]))}

-----------------------------------------------------------------------------
(* The dogs.                                                               *)

\* All dogs of a map have one speed: a tick adds the same length to every
\* position, in one of four directions, or nothing where the dog stands.
Moves(n) == {[x |-> n, y |-> 0], [x |-> -n, y |-> 0], [x |-> 0, y |-> n], [x |-> 0, y |-> -n],
             [x |-> 0, y |-> 0]}

\* A road ends at its edge, and so does the tick.
Clamp(v) == IF v < 0 THEN 0 ELSE IF v > Size THEN Size ELSE v
Arrived(p, v) == [x |-> Clamp(p.x + v.x), y |-> Clamp(p.y + v.y)]

\* q is on the straight way from a through p.
Onwards(a, p, q) ==
    \/ a = p \/ p = q
    \/ a.y = p.y /\ p.y = q.y /\ (a.x < p.x <=> p.x < q.x)
    \/ a.x = p.x /\ p.x = q.x /\ (a.y < p.y <=> p.y < q.y)

Init ==
    /\ way \in [Dogs -> {[start |-> p, end |-> p] : p \in Point}]
    /\ events = <<>> /\ stride = 0
    /\ leg = [d \in Dogs |-> way[d].end]
    /\ met = [d \in Dogs |-> {}]

\* UpdateTime: every dog's way of this tick starts where the last one ended.
Tick ==
    /\ stride' \in Steps
    /\ \E move \in [Dogs -> Moves(stride')] :
          way' = [d \in Dogs |-> [start |-> way[d].end, end |-> Arrived(way[d].end, move[d])]]
    /\ events' \in FindGatherEvents(way')
    /\ leg' = [d \in Dogs |->
          IF Onwards(leg[d], way[d].end, way'[d].end) THEN leg[d] ELSE way[d].end]
    /\ met' = [d \in Dogs |->
          (IF leg'[d] = leg[d] THEN met[d] ELSE {})
            \cup {i \in Items : \E k \in DOMAIN events' : events'[k] = <<d, i>>}]

Spec == Init /\ [][Tick]_vars

-----------------------------------------------------------------------------
(* Properties.                                                             *)

TypeOK ==
    /\ way \in [Dogs -> [start : Point, end : Point]]
    /\ events \in Seq(Dogs \X Items)
    /\ stride \in Nat
    /\ leg \in [Dogs -> Point]
    /\ met \in [Dogs -> SUBSET Items]

Within(v, a, b) == (a <= v /\ v <= b) \/ (b <= v /\ v <= a)

\* The item lies beside the straight way from a to b, or on it.
Beside(i, a, b) ==
    LET c == Position[i]
    IN  \/ /\ a.y = b.y /\ a.x # b.x
           /\ Within(c.x, a.x, b.x) /\ Within(c.y, a.y - Radius[i], a.y + Radius[i])
        \/ /\ a.x = b.x /\ a.y # b.y
           /\ Within(c.y, a.y, b.y) /\ Within(c.x, a.x - Radius[i], a.x + Radius[i])

\* However a straight way is cut into ticks, the dog meets exactly the items
\* beside the whole of it: none falls between two ticks, none is added.
NothingMissed == \A d \in Dogs : met[d] = {i \in Items : Beside(i, leg[d], way[d].end)}

\* How far along its way the dog of an event meets the item, and how far it goes.
Abs(n) == IF n < 0 THEN -n ELSE n
Apart(p, q) == IF p.y = q.y THEN Abs(q.x - p.x) ELSE Abs(q.y - p.y)
Reached(e) ==
    LET w == way[e[1]]
    IN  IF w.start.y = w.end.y THEN Abs(Position[e[2]].x - w.start.x)
                               ELSE Abs(Position[e[2]].y - w.start.y)
Length(e) == Apart(way[e[1]].start, way[e[1]].end)

\* The edge of a road stopped the dog in mid-tick.
CutShort(e) == Length(e) < stride

\* All dogs walk at the same time and at one speed, so what a dog has reached
\* tells when: events come in the order in which the items are really met,
\* although they are sorted by shares of ways.  Only a dog that an edge stopped
\* in this tick may be served after another one that came later: the share of
\* its way is not the share of the tick.
FirstComeFirst ==
    \A j, k \in DOMAIN events : j < k =>
        \/ Reached(events[j]) <= Reached(events[k])
        \/ CutShort(events[k]) /\ events[j][1] # events[k][1]
=============================================================================
