------------------------- MODULE DogMovementProofs --------------------------
(***************************************************************************)
(* A dog on any road network, at any speed, under ticks of any length:     *)
(* the properties of DogMovement proved for every value of its constants.  *)
(* What a tick does is settled once, in TickLemma; the theorems read their *)
(* parts off it.                                                           *)
(***************************************************************************)
EXTENDS DogMovement, WellFoundedInduction, TLAPS

Road == [x0 : Int, y0 : Int, x1 : Int, y1 : Int]

(* Arithmetic of lengths.                                                  *)

LEMMA SquareMonotone ==
    ASSUME NEW a \in Int, NEW b \in Int, NEW c \in Int, Between(b, a, c)
    PROVE  (b - a) * (b - a) <= (c - a) * (c - a)
  <1> DEFINE u == b - a
             v == c - a
  <1>1. u \in Int /\ v \in Int /\ ((0 <= u /\ u <= v) \/ (v <= u /\ u <= 0))
    BY DEF Between, Lower, Upper
  <1> HIDE DEF u, v
  <1>2. u * u <= v * v
    BY <1>1
  <1> QED
    BY <1>2 DEF u, v

\* Going further along the same way, the distance does not shrink.
LEMMA FurtherIsLonger ==
    ASSUME NEW p \in Point, NEW m \in Point, NEW t \in Point,
           Between(m.x, p.x, t.x), Between(m.y, p.y, t.y)
    PROVE  SquaredDistance(m, p) <= SquaredDistance(t, p)
  <1>1. p.x \in Int /\ p.y \in Int /\ m.x \in Int /\ m.y \in Int /\ t.x \in Int /\ t.y \in Int
    BY DEF Point
  <1>2. (m.x - p.x) * (m.x - p.x) <= (t.x - p.x) * (t.x - p.x)
    BY <1>1, SquareMonotone
  <1>3. (m.y - p.y) * (m.y - p.y) <= (t.y - p.y) * (t.y - p.y)
    BY <1>1, SquareMonotone
  <1>4. ASSUME NEW a \in Int, NEW b \in Int PROVE (a - b) * (a - b) = (b - a) * (b - a)
    BY <1>4
  <1>5. SquaredDistance(m, p) = (m.x - p.x) * (m.x - p.x) + (m.y - p.y) * (m.y - p.y)
    BY <1>1, <1>4 DEF SquaredDistance
  <1>6. SquaredDistance(t, p) = (t.x - p.x) * (t.x - p.x) + (t.y - p.y) * (t.y - p.y)
    BY <1>1, <1>4 DEF SquaredDistance
  <1> DEFINE mx == (m.x - p.x) * (m.x - p.x)
             my == (m.y - p.y) * (m.y - p.y)
             tx == (t.x - p.x) * (t.x - p.x)
             ty == (t.y - p.y) * (t.y - p.y)
  <1>7. mx \in Int /\ my \in Int /\ tx \in Int /\ ty \in Int
    BY <1>1
  <1>8. /\ SquaredDistance(m, p) = mx + my /\ SquaredDistance(t, p) = tx + ty
        /\ mx <= tx /\ my <= ty
    BY <1>2, <1>3, <1>5, <1>6
  <1> HIDE DEF mx, my, tx, ty
  <1> QED
    BY <1>7, <1>8

LEMMA SquareZero ==
    ASSUME NEW a \in Int
    PROVE  a * a >= 0 /\ (a * a = 0 => a = 0)
  OBVIOUS

\* A way of no length leads nowhere.
LEMMA DistanceZero ==
    ASSUME NEW p \in Point, NEW q \in Point
    PROVE  /\ SquaredDistance(p, q) \in Int /\ SquaredDistance(p, q) >= 0
           /\ SquaredDistance(p, p) = 0
           /\ SquaredDistance(p, q) <= 0 => p = q
  <1>1. p.x \in Int /\ p.y \in Int /\ q.x \in Int /\ q.y \in Int
    BY DEF Point
  <1> DEFINE u == q.x - p.x
             v == q.y - p.y
  <1>2. u \in Int /\ v \in Int
    BY <1>1
  <1>3. SquaredDistance(p, q) = u * u + v * v
    BY DEF SquaredDistance
  <1>4. SquaredDistance(p, p) = 0
    BY <1>1 DEF SquaredDistance
  <1>5. (u = 0 /\ v = 0) => p = q
    BY <1>1 DEF Point
  <1> HIDE DEF u, v
  <1>6. u * u \in Int /\ v * v \in Int /\ u * u >= 0 /\ v * v >= 0
    BY <1>2, SquareZero
  <1>7. u * u + v * v <= 0 => u = 0 /\ v = 0
    BY <1>2, <1>6, SquareZero
  <1> QED
    BY <1>3, <1>4, <1>5, <1>6, <1>7

-----------------------------------------------------------------------------
(* Roads.                                                                  *)

\* FindRoadByPosition finds a road when there is one to find.
LEMMA FirstOfProp ==
    ASSUME NEW S \in SUBSET Nat, S # {}
    PROVE  FirstOf(S) \in S
  <1>1. IsWellFoundedOn(OpToRel(<, Nat), Nat)
    BY NatLessThanWellFounded
  <1>2. \E n \in S : \A m \in S : <<m, n>> \notin OpToRel(<, Nat)
    BY <1>1, WFMin
  <1>3. PICK n \in S : \A m \in S : ~(m < n)
    BY <1>2 DEF OpToRel
  <1>4. \A m \in S : n <= m
    BY <1>3
  <1> QED
    BY <1>4 DEF FirstOf

LEMMA RoadBox ==
    ASSUME NEW r \in Road
    PROVE  /\ StartBorder(r) \in Point /\ EndBorder(r) \in Point
           /\ StartBorder(r).x <= EndBorder(r).x
           /\ StartBorder(r).y <= EndBorder(r).y
  <1>1. Border \in Nat /\ r.x0 \in Int /\ r.y0 \in Int /\ r.x1 \in Int /\ r.y1 \in Int
    BY MovementAssumption DEF Road
  <1>2. /\ Lower(r.x0, r.x1) \in Int /\ Upper(r.x0, r.x1) \in Int
        /\ Lower(r.x0, r.x1) <= Upper(r.x0, r.x1)
        /\ Lower(r.y0, r.y1) \in Int /\ Upper(r.y0, r.y1) \in Int
        /\ Lower(r.y0, r.y1) <= Upper(r.y0, r.y1)
    BY <1>1 DEF Lower, Upper
  <1>3. StartBorder(r) \in Point /\ EndBorder(r) \in Point
    BY <1>1, <1>2 DEF StartBorder, EndBorder, Point
  <1>4. StartBorder(r).x <= EndBorder(r).x
    BY <1>1, <1>2 DEF StartBorder, EndBorder
  <1>5. StartBorder(r).y <= EndBorder(r).y
    BY <1>1, <1>2 DEF StartBorder, EndBorder
  <1> QED
    BY <1>3, <1>4, <1>5

LEMMA RoadsAreRoads == \A i \in DOMAIN Roads : i \in Nat /\ i # NoRoad /\ Roads[i] \in Road
  <1>1. Roads \in Seq(Road)
    BY MovementAssumption DEF Road
  <1>2. DOMAIN Roads = 1 .. Len(Roads) /\ Len(Roads) \in Nat
    BY <1>1
  <1> QED
    BY <1>1, <1>2 DEF NoRoad

\* The position a road allows: in its box, and the wanted one when that is.
LEMMA OnRoadPosition ==
    ASSUME NEW r \in Road, NEW p \in Point, NEW s \in Directions
    PROVE  LET o == OnRoad(r, p, s)
           IN  /\ o.position \in Point
               /\ IsCoordinatesOnRoad(r, o.position)
               /\ IsCoordinatesOnRoad(r, p) => o.position = p
               /\ \A q \in Point : IsCoordinatesOnRoad(r, q) =>
                      /\ Between(o.position.x, q.x, p.x)
                      /\ Between(o.position.y, q.y, p.y)
  <1> DEFINE b == StartBorder(r)
             e == EndBorder(r)
             o == OnRoad(r, p, s)
  <1>1. /\ b.x \in Int /\ b.y \in Int /\ e.x \in Int /\ e.y \in Int
        /\ b.x <= e.x /\ b.y <= e.y /\ p.x \in Int /\ p.y \in Int
    BY RoadBox DEF Point
  <1>2. o.position = [x |-> Clamp(p.x, b.x, e.x), y |-> Clamp(p.y, b.y, e.y)]
    BY DEF OnRoad
  <1> HIDE DEF b, e, o
  <1>3. o.position.x = Clamp(p.x, b.x, e.x) /\ o.position.y = Clamp(p.y, b.y, e.y)
    BY <1>2
  <1>x. /\ o.position.x \in Int /\ b.x <= o.position.x /\ o.position.x <= e.x
        /\ b.x <= p.x /\ p.x <= e.x => o.position.x = p.x
        /\ \A c \in Int : b.x <= c /\ c <= e.x => Between(o.position.x, c, p.x)
    BY <1>1, <1>3 DEF Clamp, Between, Lower, Upper
  <1>y. /\ o.position.y \in Int /\ b.y <= o.position.y /\ o.position.y <= e.y
        /\ b.y <= p.y /\ p.y <= e.y => o.position.y = p.y
        /\ \A c \in Int : b.y <= c /\ c <= e.y => Between(o.position.y, c, p.y)
    BY <1>1, <1>3 DEF Clamp, Between, Lower, Upper
  <1>4. o.position \in Point /\ IsCoordinatesOnRoad(r, o.position)
    BY <1>x, <1>y, <1>2 DEF Point, IsCoordinatesOnRoad, b, e
  <1>5. IsCoordinatesOnRoad(r, p) => o.position = p
    <2> SUFFICES ASSUME IsCoordinatesOnRoad(r, p) PROVE o.position = p
      OBVIOUS
    <2>1. b.x <= p.x /\ p.x <= e.x /\ b.y <= p.y /\ p.y <= e.y
      BY DEF IsCoordinatesOnRoad, b, e
    <2>2. o.position.x = p.x /\ o.position.y = p.y
      BY <2>1, <1>x, <1>y
    <2> QED
      BY <2>2, <1>4 DEF Point
  <1>6. ASSUME NEW q \in Point, IsCoordinatesOnRoad(r, q)
        PROVE  Between(o.position.x, q.x, p.x) /\ Between(o.position.y, q.y, p.y)
    <2>1. q.x \in Int /\ q.y \in Int /\ b.x <= q.x /\ q.x <= e.x /\ b.y <= q.y /\ q.y <= e.y
      BY <1>6 DEF IsCoordinatesOnRoad, b, e, Point
    <2> QED
      BY <2>1, <1>x, <1>y
  <1> QED
    BY <1>4, <1>5, <1>6 DEF o

\* The speed a road allows: the wanted one or none, and none only at an edge.
LEMMA OnRoadSpeed ==
    ASSUME NEW r \in Road, NEW p \in Point, NEW s \in Directions
    PROVE  LET o == OnRoad(r, p, s)
           IN  /\ o.speed \in {s, Standing}
               /\ o.speed # s => AtEdge(r, o.position)
  <1> DEFINE b == StartBorder(r)
             e == EndBorder(r)
             o == OnRoad(r, p, s)
  <1>1. /\ b.x \in Int /\ b.y \in Int /\ e.x \in Int /\ e.y \in Int
        /\ b.x <= e.x /\ b.y <= e.y /\ p.x \in Int /\ p.y \in Int
    BY RoadBox DEF Point
  <1>2. /\ o.position.x = Clamp(p.x, b.x, e.x)
        /\ o.position.y = Clamp(p.y, b.y, e.y)
        /\ o.speed = [x |-> Keep(s.x, p.x, b.x, e.x), y |-> Keep(s.y, p.y, b.y, e.y)]
    BY DEF OnRoad
  <1>3. IsCoordinatesOnRoad(r, o.position)
    BY OnRoadPosition
  <1>4. s = [x |-> s.x, y |-> s.y] /\ (s.x = 0 \/ s.y = 0)
    BY DEF Directions, Standing
  <1> HIDE DEF b, e, o
  <1>5. Keep(s.x, p.x, b.x, e.x) \in {s.x, 0} /\ Keep(s.y, p.y, b.y, e.y) \in {s.y, 0}
    BY DEF Keep
  <1>6. o.speed \in {s, Standing}
    BY <1>2, <1>4, <1>5 DEF Standing
  <1>7. ASSUME o.speed # s PROVE AtEdge(r, o.position)
    <2>1. Keep(s.x, p.x, b.x, e.x) # s.x \/ Keep(s.y, p.y, b.y, e.y) # s.y
      BY <1>7, <1>2, <1>4
    <2>2. p.x <= b.x \/ p.x >= e.x \/ p.y <= b.y \/ p.y >= e.y
      BY <2>1 DEF Keep
    <2>3. o.position.x \in {b.x, e.x} \/ o.position.y \in {b.y, e.y}
      BY <2>2, <1>1, <1>2 DEF Clamp
    <2> QED
      BY <2>3, <1>3 DEF AtEdge, b, e
  <1> QED
    BY <1>6, <1>7 DEF o

\* Whoever heads along an axis out of the box is stopped.
LEMMA OutIsStopped ==
    ASSUME NEW r \in Road, NEW p \in Point, NEW q \in Point, NEW s \in Directions,
           IsCoordinatesOnRoad(r, q), ~IsCoordinatesOnRoad(r, p),
           s.x = 0 => p.x = q.x, s.y = 0 => p.y = q.y
    PROVE  OnRoad(r, p, s).speed = Standing
  <1> DEFINE b == StartBorder(r)
             e == EndBorder(r)
  <1>1. /\ b.x \in Int /\ b.y \in Int /\ e.x \in Int /\ e.y \in Int
        /\ p.x \in Int /\ p.y \in Int /\ q.x \in Int /\ q.y \in Int
    BY RoadBox DEF Point
  <1>2. b.x <= q.x /\ q.x <= e.x /\ b.y <= q.y /\ q.y <= e.y
    BY DEF IsCoordinatesOnRoad
  <1>3. ~(b.x <= p.x /\ p.x <= e.x) \/ ~(b.y <= p.y /\ p.y <= e.y)
    BY DEF IsCoordinatesOnRoad
  <1>4. s.x = 0 \/ s.y = 0
    BY DEF Directions, Standing
  <1>5. OnRoad(r, p, s).speed = [x |-> Keep(s.x, p.x, b.x, e.x), y |-> Keep(s.y, p.y, b.y, e.y)]
    BY DEF OnRoad
  <1> HIDE DEF b, e
  <1>6. Keep(s.x, p.x, b.x, e.x) = 0 /\ Keep(s.y, p.y, b.y, e.y) = 0
    BY <1>1, <1>2, <1>3, <1>4 DEF Keep
  <1> QED
    BY <1>5, <1>6 DEF Standing

-----------------------------------------------------------------------------
(* One tick.                                                               *)

Here == Containing(position, NoRoad)
There(dt) == Containing(Target(dt), FirstOf(Here))
Current(dt) == OnRoad(Roads[FirstOf(Here)], Target(dt), speed)
Other(dt) == OnRoad(Roads[FirstOf(There(dt))], Target(dt), speed)
Stay == [position |-> position, speed |-> Standing]

\* The second road is taken only when the first leads no further and keeps
\* no more speed.
NotBetter(m, other) ==
    /\ ~(SquaredDistance(m.position, position) > SquaredDistance(other.position, position))
    /\ ~(SquaredSpeed(m.speed) > SquaredSpeed(other.speed))

LEMMA TargetProp ==
    ASSUME TypeOK, NEW dt \in Deltas
    PROVE  /\ Target(dt) \in Point
           /\ speed.x = 0 => Target(dt).x = position.x
           /\ speed.y = 0 => Target(dt).y = position.y
  <1>1. dt \in Nat /\ DogSpeed \in Nat
    BY MovementAssumption
  <1>2. speed.x \in Int /\ speed.y \in Int /\ position.x \in Int /\ position.y \in Int
    BY <1>1 DEF TypeOK, Directions, Standing, Point
  <1>3. speed.x * dt \in Int /\ speed.y * dt \in Int
    BY <1>1, <1>2
  <1>4. (speed.x = 0 => speed.x * dt = 0) /\ (speed.y = 0 => speed.y * dt = 0)
    BY <1>1
  <1> QED
    BY <1>2, <1>3, <1>4 DEF Target, Point

LEMMA SquaresAreInts ==
    ASSUME NEW p \in Point, NEW q \in Point
    PROVE  SquaredDistance(p, q) \in Int
  BY DistanceZero

LEMMA SpeedsArePoints == Directions \subseteq Point
  BY MovementAssumption DEF Directions, Standing, Point

\* The three ways a tick can come out.
LEMMA TickCases ==
    ASSUME TypeOK, NEW dt \in Deltas
    PROVE  \/ Here = {} /\ Moved(dt) = Stay
           \/ /\ Here # {} /\ There(dt) = {}
              /\ \/ Moved(dt) = Current(dt)
                 \/ Moved(dt) = Stay /\ NotBetter(Current(dt), Stay)
           \/ /\ Here # {} /\ There(dt) # {}
              /\ \/ Moved(dt) = Current(dt) /\ ~NotBetter(Current(dt), Other(dt))
                 \/ Moved(dt) = Other(dt)
  <1>1. CASE Here = {}
    <2>1. Moved(dt) = Stay
      BY <1>1 DEF Moved, Here, Stay
    <2> QED
      BY <1>1, <2>1
  <1>2. CASE Here # {} /\ There(dt) = {}
    <2>1. Moved(dt) = IF NotBetter(Current(dt), Stay) THEN Stay ELSE Current(dt)
      BY <1>2
      DEF Moved, Here, There, Current, Stay, NotBetter
    <2> QED
      BY <1>2, <2>1
  <1>3. CASE Here # {} /\ There(dt) # {}
    <2>1. Moved(dt) = IF NotBetter(Current(dt), Other(dt)) THEN Other(dt) ELSE Current(dt)
      BY <1>3
      DEF Moved, Here, There, Current, Other, Stay, NotBetter
    <2> QED
      BY <1>3, <2>1
  <1> QED
    BY <1>1, <1>2, <1>3

\* The search results are roads of the map.
LEMMA FoundProp ==
    ASSUME NEW p \in Point, NEW excepted, Containing(p, excepted) # {}
    PROVE  LET i == FirstOf(Containing(p, excepted))
           IN  /\ i \in DOMAIN Roads /\ i # excepted
               /\ Roads[i] \in Road
               /\ IsCoordinatesOnRoad(Roads[i], p)
  <1>1. Containing(p, excepted) \in SUBSET Nat
    BY RoadsAreRoads DEF Containing
  <1>2. FirstOf(Containing(p, excepted)) \in Containing(p, excepted)
    BY <1>1, FirstOfProp
  <1> QED
    BY <1>2, RoadsAreRoads DEF Containing

\* Square facts in the form the comparison of two roads uses them.
LEMMA NotBetterThanStay ==
    ASSUME TypeOK, NEW q \in Point, NEW v \in {speed, Standing},
           NotBetter([position |-> q, speed |-> v], Stay)
    PROVE  q = position /\ v = Standing
  <1>1. position \in Point /\ v \in Point /\ Standing \in Point
    BY SpeedsArePoints DEF TypeOK, Standing, Point
  <1>2. /\ SquaredDistance(q, position) \in Int
        /\ SquaredDistance(position, position) = 0
        /\ SquaredSpeed(v) \in Int
        /\ SquaredSpeed(Standing) = 0
    BY <1>1, DistanceZero DEF SquaredSpeed
  <1>3. SquaredDistance(q, position) <= 0 /\ SquaredSpeed(v) <= 0
    BY <1>2 DEF NotBetter, Stay
  <1> QED
    BY <1>1, <1>3, DistanceZero DEF SquaredSpeed

\* What the property file says of a tick, of its result m.
TickOutcome(dt, m) ==
    /\ m.position \in Point
    /\ m.speed \in {speed, Standing}
    /\ Between(m.position.x, position.x, Target(dt).x)
    /\ Between(m.position.y, position.y, Target(dt).y)
    /\ Here # {} => Containing(m.position, NoRoad) # {}
    /\ Here = {} => m.position = position
    /\ Here # {} /\ Containing(Target(dt), NoRoad) # {} => m.position = Target(dt)
    /\ Here # {} /\ m.speed # speed =>
          m.speed = Standing /\ \E i \in DOMAIN Roads : AtEdge(Roads[i], m.position)

LEMMA BetweenEnds ==
    ASSUME NEW a \in Int, NEW b \in Int
    PROVE  Between(a, a, b) /\ Between(b, a, b)
  BY DEF Between, Lower, Upper

\* Following the road the dog is on.
LEMMA CurrentProp ==
    ASSUME TypeOK, NEW dt \in Deltas, Here # {}
    PROVE  LET c == Current(dt)
               i == FirstOf(Here)
           IN  /\ i \in DOMAIN Roads
               /\ c = [position |-> c.position, speed |-> c.speed]
               /\ c.position \in Point
               /\ c.speed \in {speed, Standing}
               /\ Between(c.position.x, position.x, Target(dt).x)
               /\ Between(c.position.y, position.y, Target(dt).y)
               /\ Containing(c.position, NoRoad) # {}
               /\ c.speed # speed => AtEdge(Roads[i], c.position)
               /\ IsCoordinatesOnRoad(Roads[i], Target(dt)) => c.position = Target(dt)
               /\ ~IsCoordinatesOnRoad(Roads[i], Target(dt)) => c.speed = Standing
  <1> DEFINE i == FirstOf(Here)
             c == Current(dt)
  <1>1. position \in Point /\ Target(dt) \in Point /\ speed \in Directions
    BY TargetProp DEF TypeOK
  <1>2. i \in DOMAIN Roads /\ Roads[i] \in Road /\ IsCoordinatesOnRoad(Roads[i], position)
    BY <1>1, FoundProp DEF Here
  <1>3. c = OnRoad(Roads[i], Target(dt), speed)
    BY DEF Current
  <1>4. c = [position |-> c.position, speed |-> c.speed]
    BY <1>3 DEF OnRoad
  <1> HIDE DEF i, c
  <1>5. /\ c.position \in Point
        /\ IsCoordinatesOnRoad(Roads[i], c.position)
        /\ IsCoordinatesOnRoad(Roads[i], Target(dt)) => c.position = Target(dt)
        /\ Between(c.position.x, position.x, Target(dt).x)
        /\ Between(c.position.y, position.y, Target(dt).y)
    BY <1>1, <1>2, <1>3, OnRoadPosition
  <1>6. c.speed \in {speed, Standing} /\ (c.speed # speed => AtEdge(Roads[i], c.position))
    BY <1>1, <1>2, <1>3, OnRoadSpeed
  <1>7. i # NoRoad /\ Containing(c.position, NoRoad) # {}
    <2>1. i # NoRoad
      BY <1>1, FoundProp DEF Here, i
    <2> QED
      BY <2>1, <1>2, <1>5 DEF Containing
  <1>8. ~IsCoordinatesOnRoad(Roads[i], Target(dt)) => c.speed = Standing
    BY <1>1, <1>2, <1>3, OutIsStopped, TargetProp
  <1> QED
    BY <1>2, <1>4, <1>5, <1>6, <1>7, <1>8 DEF i, c

\* Crossing over: the target is on the other road, so it is reached.
LEMMA OtherProp ==
    ASSUME TypeOK, NEW dt \in Deltas, There(dt) # {}
    PROVE  LET o == Other(dt)
               j == FirstOf(There(dt))
           IN  /\ j \in DOMAIN Roads
               /\ o.position = Target(dt)
               /\ o.speed \in {speed, Standing}
               /\ IsCoordinatesOnRoad(Roads[j], Target(dt))
               /\ o.speed # speed => AtEdge(Roads[j], o.position)
  <1> DEFINE j == FirstOf(There(dt))
             o == Other(dt)
  <1>1. Target(dt) \in Point /\ speed \in Directions
    BY TargetProp DEF TypeOK
  <1>2. j \in DOMAIN Roads /\ Roads[j] \in Road /\ IsCoordinatesOnRoad(Roads[j], Target(dt))
    BY <1>1, FoundProp DEF There
  <1>3. o = OnRoad(Roads[j], Target(dt), speed)
    BY DEF Other
  <1> HIDE DEF j, o
  <1>4. o.position = Target(dt)
    BY <1>1, <1>2, <1>3, OnRoadPosition
  <1>5. o.speed \in {speed, Standing} /\ (o.speed # speed => AtEdge(Roads[j], o.position))
    BY <1>1, <1>2, <1>3, OnRoadSpeed
  <1> QED
    BY <1>2, <1>4, <1>5 DEF j, o

\* When the target is on a road, it is on the one the dog follows or on the
\* one it can cross over to.
LEMMA TargetIsFound ==
    ASSUME NEW dt, Containing(Target(dt), NoRoad) # {}, There(dt) = {}
    PROVE  IsCoordinatesOnRoad(Roads[FirstOf(Here)], Target(dt))
  BY DEF Containing, There, NoRoad

LEMMA TickLemma ==
    ASSUME TypeOK, NEW dt \in Deltas
    PROVE  TickOutcome(dt, Moved(dt))
  <1> DEFINE c == Current(dt)
             o == Other(dt)
  <1>0. /\ position \in Point /\ Target(dt) \in Point
        /\ position.x \in Int /\ position.y \in Int
        /\ Target(dt).x \in Int /\ Target(dt).y \in Int
    BY TargetProp DEF TypeOK, Point
  <1>1. /\ Between(position.x, position.x, Target(dt).x)
        /\ Between(position.y, position.y, Target(dt).y)
        /\ Between(Target(dt).x, position.x, Target(dt).x)
        /\ Between(Target(dt).y, position.y, Target(dt).y)
    BY <1>0, BetweenEnds
  <1>2. CASE Here = {}
    <2>1. Moved(dt) = Stay
      BY <1>2, TickCases
    <2> QED
      BY <2>1, <1>0, <1>1, <1>2 DEF TickOutcome, Stay
  <1>3. CASE Here # {} /\ There(dt) = {}
    <2>1. Containing(Target(dt), NoRoad) # {} => c.position = Target(dt)
      BY <1>3, TargetIsFound, CurrentProp
    <2>2. CASE Moved(dt) = c
      BY <2>1, <2>2, <1>3, CurrentProp DEF TickOutcome
    <2>3. CASE Moved(dt) = Stay /\ NotBetter(c, Stay)
      <3>1. c = [position |-> c.position, speed |-> c.speed] /\ c.position \in Point
            /\ c.speed \in {speed, Standing}
        BY <1>3, CurrentProp
      <3>2. c.position = position /\ c.speed = Standing
        BY <2>3, <3>1, NotBetterThanStay
      <3>3. Moved(dt).position = c.position /\ Moved(dt).speed = c.speed
        BY <2>3, <3>2 DEF Stay
      <3> QED
        BY <2>1, <3>3, <1>3, CurrentProp DEF TickOutcome
    <2> QED
      BY <2>2, <2>3, <1>3, TickCases
  <1>4. CASE Here # {} /\ There(dt) # {}
    <2>1. /\ o.position = Target(dt)
          /\ o.speed \in {speed, Standing}
          /\ o.speed # speed => \E j \in DOMAIN Roads : AtEdge(Roads[j], o.position)
      BY <1>4, OtherProp
    <2>2. Containing(Target(dt), NoRoad) # {}
      <3>1. FirstOf(There(dt)) \in DOMAIN Roads
            /\ IsCoordinatesOnRoad(Roads[FirstOf(There(dt))], Target(dt))
        BY <1>4, OtherProp
      <3> QED
        BY <3>1, RoadsAreRoads DEF Containing
    <2>3. CASE Moved(dt) = o
      BY <2>1, <2>2, <2>3, <1>0, <1>1, <1>4 DEF TickOutcome
    <2>4. CASE Moved(dt) = c /\ ~NotBetter(c, o)
      <3>1. c.position = Target(dt)
        <4>1. SUFFICES ASSUME ~IsCoordinatesOnRoad(Roads[FirstOf(Here)], Target(dt))
                       PROVE  FALSE
          BY <1>4, CurrentProp
        <4>2. c.speed = Standing /\ c.position \in Point
          BY <4>1, <1>4, CurrentProp
        <4>3. SquaredSpeed(c.speed) = 0 /\ SquaredSpeed(o.speed) \in Int /\ SquaredSpeed(o.speed) >= 0
          <5>1. Standing \in Point /\ o.speed \in Point
            BY <2>1, SpeedsArePoints DEF TypeOK, Standing, Point
          <5> QED
            BY <4>2, <5>1, DistanceZero DEF SquaredSpeed
        <4>4. SquaredDistance(c.position, position) <= SquaredDistance(o.position, position)
          <5>1. /\ Between(c.position.x, position.x, Target(dt).x)
                /\ Between(c.position.y, position.y, Target(dt).y)
            BY <1>4, CurrentProp
          <5>2. c.position.x \in Int /\ c.position.y \in Int
            BY <4>2 DEF Point
          <5> QED
            BY <5>1, <5>2, <1>0, <2>1, FurtherIsLonger, <4>2
        <4>5. SquaredDistance(c.position, position) \in Int
              /\ SquaredDistance(o.position, position) \in Int
          BY <4>2, <1>0, <2>1, SquaresAreInts
        <4> QED
          BY <2>4, <4>3, <4>4, <4>5 DEF NotBetter
      <3> QED
        BY <3>1, <2>4, <1>4, CurrentProp DEF TickOutcome
    <2> QED
      BY <2>3, <2>4, <1>4, TickCases
  <1> QED
    BY <1>2, <1>3, <1>4

-----------------------------------------------------------------------------
(* The theorems.                                                           *)

LEMMA OriginIsPoint == Origin \in Point
  BY DEF Origin, Point

LEMMA InitType == Init => TypeOK
  <1> SUFFICES ASSUME Init PROVE TypeOK
    OBVIOUS
  <1>1. position \in Point
    BY MovementAssumption DEF Init, Point
  <1>2. speed \in Directions /\ ticked \in BOOLEAN
    BY DEF Init, Directions
  <1>3. afkTime \in 0 .. MaxInactive
    BY MovementAssumption DEF Init
  <1>4. gatherer \in [start : Point, end : Point]
    BY OriginIsPoint DEF Init
  <1> QED
    BY <1>1, <1>2, <1>3, <1>4 DEF TypeOK

LEMMA CappedType ==
    ASSUME NEW t \in Nat
    PROVE  Capped(t) \in 0 .. MaxInactive
  BY MovementAssumption DEF Capped

\* Every action keeps the type invariant.
LEMMA NextType == TypeOK /\ [Next]_vars => TypeOK'
  <1> SUFFICES ASSUME TypeOK, [Next]_vars PROVE TypeOK'
    OBVIOUS
  <1>0. 0 \in 0 .. MaxInactive
    BY MovementAssumption
  <1>1. ASSUME NEW d \in Directions, SetDirection(d) PROVE TypeOK'
    BY <1>0, <1>1 DEF SetDirection, TypeOK, Directions
  <1>2. ASSUME NEW dt \in Deltas, Tick(dt) PROVE TypeOK'
    <2>1. position' \in Point /\ speed' \in {speed, Standing}
      BY <1>2, TickLemma DEF TickOutcome, Tick
    <2>2. speed' \in Directions'
      BY <2>1 DEF TypeOK, Directions
    <2>3. gatherer' \in [start : Point, end : Point] /\ ticked' \in BOOLEAN
      BY <1>2, <2>1 DEF Tick, Sweep, TypeOK
    <2>4. afkTime' \in 0 .. MaxInactive
      <3>1. afkTime + dt \in Nat
        BY MovementAssumption DEF TypeOK
      <3> QED
        BY <1>0, <1>2, <3>1, CappedType DEF Tick
    <2> QED
      BY <2>1, <2>2, <2>3, <2>4 DEF TypeOK
  <1>3. CASE Restore
    <2>1. gatherer' \in [start : Point, end : Point]
      BY <1>3, OriginIsPoint DEF Restore
    <2> QED
      BY <1>0, <1>3, <2>1 DEF Restore, TypeOK, Directions
  <1>4. CASE UNCHANGED vars
    BY <1>4 DEF vars, TypeOK, Directions
  <1> QED
    BY <1>1, <1>2, <1>3, <1>4 DEF Next

\* The state of a dog keeps its type: every variable stays in the values
\* TypeOK lists, on any road network.
THEOREM TypeCorrect == Spec => []TypeOK
  BY InitType, NextType, PTL DEF Spec

\* A dog is retired only standing: no idle time while it moves.
THEOREM RetiredStand == Spec => []IdleIsStanding
  <1>1. Init => IdleIsStanding
    BY DEF Init, IdleIsStanding
  <1>2. TypeOK /\ IdleIsStanding /\ [Next]_vars => IdleIsStanding'
    BY DEF IdleIsStanding, Next, SetDirection, Tick, Restore, vars, Standing
  <1> QED
    BY <1>1, <1>2, TypeCorrect, PTL DEF Spec

\* However long a tick is, and wherever roads cross, a dog on the road
\* network stays on it, and one beside it stays where it is.
THEOREM NeverOffRoad == Spec => StaysOnRoads
  <1>1. TypeOK /\ [Next]_vars
            => [IF OnSomeRoad THEN OnSomeRoad' ELSE position' = position]_vars
    <2> SUFFICES ASSUME TypeOK, Next
                 PROVE  IF OnSomeRoad THEN OnSomeRoad' ELSE position' = position
      OBVIOUS
    <2>1. ASSUME NEW dt \in Deltas, Tick(dt)
          PROVE  IF OnSomeRoad THEN OnSomeRoad' ELSE position' = position
      BY <2>1, TickLemma DEF TickOutcome, Tick, Here, OnSomeRoad, Containing
    <2>2. CASE UNCHANGED position
      BY <2>2 DEF OnSomeRoad, Containing
    <2> QED
      BY <2>1, <2>2 DEF Next, SetDirection, Restore
  <1> QED
    BY <1>1, TypeCorrect, PTL DEF Spec, StaysOnRoads

\* Every tick is straight, and reaches its target when a road does.
THEOREM StraightTicks == Spec => TicksAreStraight
  <1>1. TypeOK /\ [Next]_vars
            => [\A dt \in Deltas : Tick(dt) => StraightTick(dt)]_vars
    <2> SUFFICES ASSUME TypeOK, NEW dt \in Deltas, Tick(dt) PROVE StraightTick(dt)
      OBVIOUS
    <2> QED
      BY TickLemma DEF TickOutcome, Tick, StraightTick, Here, OnSomeRoad
  <1> QED
    BY <1>1, TypeCorrect, PTL DEF Spec, TicksAreStraight

\* Only the edge of a road stops a dog.
THEOREM EdgesStop == Spec => StopsOnlyAtEdges
  <1>1. TypeOK /\ [Next]_vars
            => [\A dt \in Deltas : Tick(dt) /\ OnSomeRoad /\ speed' # speed => Braked]_vars
    <2> SUFFICES ASSUME TypeOK, NEW dt \in Deltas, Tick(dt), OnSomeRoad, speed' # speed
                 PROVE  Braked
      OBVIOUS
    <2> QED
      BY TickLemma DEF TickOutcome, Tick, Braked, Here, OnSomeRoad
  <1> QED
    BY <1>1, TypeCorrect, PTL DEF Spec, StopsOnlyAtEdges

\* The collision detector is shown the way a dog has gone: the end of the
\* swept way is where the dog is, once it has been ticked.
SweepEnds == ticked => gatherer.end = position

THEOREM SweepsAreWays == Spec => SweepIsWay
  <1>1. Init => SweepEnds
    BY DEF Init, SweepEnds
  <1>2. SweepEnds /\ [Next]_vars => SweepEnds'
    <2> SUFFICES ASSUME SweepEnds, [Next]_vars PROVE SweepEnds'
      OBVIOUS
    <2>1. ASSUME NEW dt \in Deltas, Tick(dt) PROVE SweepEnds'
      BY <2>1 DEF SweepEnds, Tick, Sweep
    <2>2. ASSUME NEW d \in Directions, SetDirection(d) PROVE SweepEnds'
      BY <2>2 DEF SweepEnds, SetDirection
    <2>3. CASE Restore
      BY <2>3 DEF SweepEnds, Restore
    <2>4. CASE UNCHANGED vars
      BY <2>4 DEF SweepEnds, vars
    <2> QED
      BY <2>1, <2>2, <2>3, <2>4 DEF Next
  <1>3. SweepEnds /\ [Next]_vars
            => [ticked /\ ticked' /\ gatherer' # gatherer
                    => gatherer' = [start |-> position, end |-> position']]_vars
    <2>1. ASSUME SweepEnds, ticked, NEW dt \in Deltas, Tick(dt)
          PROVE  gatherer' = [start |-> position, end |-> position']
      BY <2>1 DEF SweepEnds, Tick, Sweep
    <2>2. ASSUME NEW d \in Directions, SetDirection(d) PROVE gatherer' = gatherer
      BY <2>2 DEF SetDirection
    <2>3. ASSUME Restore PROVE ~ticked'
      BY <2>3 DEF Restore
    <2> QED
      BY <2>1, <2>2, <2>3 DEF Next
  <1> QED
    BY <1>1, <1>2, <1>3, PTL DEF Spec, SweepIsWay
=============================================================================
