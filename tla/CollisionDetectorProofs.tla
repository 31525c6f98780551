----------------------- MODULE CollisionDetectorProofs -----------------------
(***************************************************************************)
(* Proofs about CollisionDetector: for any items, widths, dogs and ticks,  *)
(* cutting straight ways into ticks loses and adds nothing, and events     *)
(* come in the order in which the items are met, but for dogs that an edge *)
(* stopped in mid-tick.                                                    *)
(*                                                                         *)
(* Proofs about LootGenerator, in the second half: for every probability,  *)
(* period, delay and number of dogs, droughts end, and loot is limited.    *)
(***************************************************************************)
EXTENDS CollisionDetector, LootGenerator, FiniteSetTheorems, WellFoundedInduction, TLAPS

-----------------------------------------------------------------------------
(* Facts about products.                                                   *)

LEMMA ProductInt == \A m, n \in Int : m * n \in Int
  OBVIOUS

LEMMA CommuteTimes == \A m, n \in Int : m * n = n * m
  OBVIOUS

LEMMA PositiveProduct == \A m, n \in Int : m > 0 /\ n > 0 => m * n > 0
  OBVIOUS

\* A positive factor can be cancelled from an inequality.
LEMMA CancelLeq ==
  ASSUME NEW m \in Int, NEW n \in Int, NEW f \in Int, f > 0
  PROVE  m * f <= n * f <=> m <= n
  <1>1. (n - m) * f = n * f - m * f
    OBVIOUS
  <1>2. CASE m <= n
    <2>1. n - m >= 0 => (n - m) * f >= 0
      OBVIOUS
    <2> QED  BY <1>1, <1>2, <2>1
  <1>3. CASE m > n
    <2>1. (m - n) * f > 0
      BY <1>3, PositiveProduct
    <2>2. (m - n) * f = m * f - n * f
      OBVIOUS
    <2> QED  BY <1>3, <2>1, <2>2
  <1> QED  BY <1>2, <1>3

\* The projection lies on the way when its distances to both ends do.
LEMMA Projection ==
  ASSUME NEW p \in Int, NEW w \in Int, w # 0
  PROVE  0 <= p * w /\ p * w <= w * w <=> Within(p, 0, w)
  <1>1. CASE w > 0
    <2>1. 0 * w <= p * w <=> 0 <= p
      BY <1>1, CancelLeq
    <2>2. p * w <= w * w <=> p <= w
      BY <1>1, CancelLeq
    <2>3. 0 * w = 0
      OBVIOUS
    <2> QED  BY <1>1, <2>1, <2>2, <2>3 DEF Within
  <1>2. CASE w < 0
    <2> DEFINE f == -w
    <2>1. f \in Int /\ f > 0
      BY <1>2
    <2>2. p * w = (-p) * f /\ w * w = f * f
      OBVIOUS
    <2>3. 0 * f <= (-p) * f <=> 0 <= -p
      BY <2>1, CancelLeq
    <2>4. (-p) * f <= f * f <=> -p <= f
      BY <2>1, CancelLeq
    <2>5. 0 * f = 0
      OBVIOUS
    <2> QED  BY <1>2, <2>1, <2>2, <2>3, <2>4, <2>5 DEF Within
  <1> QED  BY <1>1, <1>2

\* Squares of numbers that are not negative are ordered like the numbers.
LEMMA SquareLeq ==
  ASSUME NEW m \in Nat, NEW n \in Nat
  PROVE  m * m <= n * n <=> m <= n
  <1>1. CASE m <= n
    <2>1. m * m <= n * m /\ n * m <= n * n
      BY <1>1
    <2> QED  BY <1>1, <2>1, ProductInt
  <1>2. CASE m > n
    <2>1. m * m >= (n + 1) * m /\ (n + 1) * m >= (n + 1) * (n + 1)
      BY <1>2
    <2>2. (n + 1) * (n + 1) = n * n + 2 * n + 1
      OBVIOUS
    <2> QED  BY <1>2, <2>1, <2>2, ProductInt
  <1> QED  BY <1>1, <1>2

\* The distance of the item from the line, with the length of the way w.
LEMMA Distance ==
  ASSUME NEW p \in Int, NEW q \in Int, NEW w \in Int, w # 0, NEW r \in Nat
  PROVE  (p * p + q * q) * (w * w) - (p * w) * (p * w) <= r * r * (w * w)
           <=> -r <= q /\ q <= r
  <1>1. w * w > 0
    BY PositiveProduct, w > 0 \/ -w > 0, (-w) * (-w) = w * w
  <1>2. (p * p + q * q) * (w * w) - (p * w) * (p * w) = (q * q) * (w * w)
    OBVIOUS
  <1>3. (q * q) * (w * w) <= (r * r) * (w * w) <=> q * q <= r * r
    BY <1>1, CancelLeq, ProductInt
  <1>4. q * q = Abs(q) * Abs(q) /\ Abs(q) \in Nat
    BY DEF Abs
  <1>5. q * q <= r * r <=> Abs(q) <= r
    BY <1>4, SquareLeq
  <1> QED  BY <1>2, <1>3, <1>5 DEF Abs

-----------------------------------------------------------------------------
(* The detector on straight ways.                                          *)

Plane == [x : Int, y : Int]

\* On a way along an axis, IsCollected means lying beside it.
LEMMA CollectedBeside ==
  ASSUME NEW a \in Point, NEW b \in Point, NEW i \in Items, a # b, a.x = b.x \/ a.y = b.y
  PROVE  IsCollected(TryCollectPoint(a, b, Position[i]), Radius[i]) <=> Beside(i, a, b)
  <1> DEFINE c == Position[i]
             r == Radius[i]
             p == c.x - a.x
             q == c.y - a.y
             v == b.x - a.x
             w == b.y - a.y
             t == TryCollectPoint(a, b, c)
  <1>1. /\ a.x \in Int /\ a.y \in Int /\ b.x \in Int /\ b.y \in Int
        /\ c.x \in Int /\ c.y \in Int /\ r \in Nat
    BY DetectorAssumption DEF Point, Coordinates
  <1>2. p \in Int /\ q \in Int /\ v \in Int /\ w \in Int
    BY <1>1
  <1>3. t = [uv |-> p * v + q * w, uu |-> p * p + q * q, vv |-> v * v + w * w]
    BY DEF TryCollectPoint, Dot, Minus
  <1>4. a.x # b.x \/ a.y # b.y
    BY <1>1 DEF Point
  <1>5. /\ c.x = p + a.x /\ c.y = q + a.y /\ b.x = v + a.x /\ b.y = w + a.y
    BY <1>1
  <1> HIDE DEF p, q, v, w, r
  <1>6. CASE a.y = b.y
    <2>1. w = 0 /\ v # 0
      BY <1>1, <1>2, <1>4, <1>5, <1>6
    <2>2. t.uv = p * v /\ t.uu = p * p + q * q /\ t.vv = v * v
      BY <1>2, <1>3, <2>1
    <2>3. 0 <= p * v /\ p * v <= v * v <=> Within(p, 0, v)
      BY <1>2, <2>1, Projection
    <2>4. (p * p + q * q) * (v * v) - (p * v) * (p * v) <= r * r * (v * v)
            <=> -r <= q /\ q <= r
      BY <1>1, <1>2, <2>1, Distance
    <2>5. IsCollected(t, r) <=> Within(p, 0, v) /\ -r <= q /\ q <= r
      BY <2>2, <2>3, <2>4 DEF IsCollected
    <2>6. Within(p, 0, v) <=> Within(c.x, a.x, b.x)
      BY <1>1, <1>2, <1>5 DEF Within
    <2>7. (-r <= q /\ q <= r) <=> Within(c.y, a.y - r, a.y + r)
      BY <1>1, <1>2, <1>5 DEF Within
    <2> QED  BY <1>1, <1>4, <1>6, <2>5, <2>6, <2>7 DEF Beside, r
  <1>7. CASE a.x = b.x
    <2>1. v = 0 /\ w # 0
      BY <1>1, <1>2, <1>4, <1>5, <1>7
    <2>2. t.uv = q * w /\ t.uu = q * q + p * p /\ t.vv = w * w
      BY <1>2, <1>3, <2>1
    <2>3. 0 <= q * w /\ q * w <= w * w <=> Within(q, 0, w)
      BY <1>2, <2>1, Projection
    <2>4. (q * q + p * p) * (w * w) - (q * w) * (q * w) <= r * r * (w * w)
            <=> -r <= p /\ p <= r
      BY <1>1, <1>2, <2>1, Distance
    <2>5. IsCollected(t, r) <=> Within(q, 0, w) /\ -r <= p /\ p <= r
      BY <2>2, <2>3, <2>4 DEF IsCollected
    <2>6. Within(q, 0, w) <=> Within(c.y, a.y, b.y)
      BY <1>1, <1>2, <1>5 DEF Within
    <2>7. (-r <= p /\ p <= r) <=> Within(c.x, a.x - r, a.x + r)
      BY <1>1, <1>2, <1>5 DEF Within
    <2> QED  BY <1>1, <1>4, <1>7, <2>5, <2>6, <2>7 DEF Beside, r
  <1> QED  BY <1>6, <1>7

\* A straight way lies beside what its two parts lie beside.
LEMMA BesideParts ==
  ASSUME NEW a \in Point, NEW b \in Point, NEW c \in Point, NEW i \in Items,
         a.x = b.x \/ a.y = b.y, b.x = c.x \/ b.y = c.y, Onwards(a, b, c)
  PROVE  Beside(i, a, c) <=> Beside(i, a, b) \/ Beside(i, b, c)
  <1>1. /\ a.x \in Int /\ a.y \in Int /\ b.x \in Int /\ b.y \in Int /\ c.x \in Int /\ c.y \in Int
        /\ Position[i].x \in Int /\ Position[i].y \in Int /\ Radius[i] \in Nat
    BY DetectorAssumption DEF Point, Coordinates
  <1>2. CASE a = b
    BY <1>1, <1>2 DEF Beside
  <1>3. CASE b = c
    BY <1>1, <1>3 DEF Beside
  <1>4. CASE a # b /\ b # c /\ a.y = b.y /\ b.y = c.y /\ (a.x < b.x <=> b.x < c.x)
    <2>1. a.x # b.x /\ b.x # c.x
      BY <1>4 DEF Point
    <2>2. Within(Position[i].x, a.x, c.x)
            <=> Within(Position[i].x, a.x, b.x) \/ Within(Position[i].x, b.x, c.x)
      BY <1>1, <1>4, <2>1 DEF Within
    <2>3. a.x # c.x
      BY <1>1, <1>4, <2>1
    <2> QED  BY <1>4, <2>1, <2>2, <2>3 DEF Beside
  <1>5. CASE a # b /\ b # c /\ a.x = b.x /\ b.x = c.x /\ (a.y < b.y <=> b.y < c.y)
    <2>1. a.y # b.y /\ b.y # c.y
      BY <1>5 DEF Point
    <2>2. Within(Position[i].y, a.y, c.y)
            <=> Within(Position[i].y, a.y, b.y) \/ Within(Position[i].y, b.y, c.y)
      BY <1>1, <1>5, <2>1 DEF Within
    <2>3. a.y # c.y
      BY <1>1, <1>5, <2>1
    <2> QED  BY <1>5, <2>1, <2>2, <2>3 DEF Beside
  <1> QED  BY <1>2, <1>3, <1>4, <1>5 DEF Onwards

-----------------------------------------------------------------------------
(* The results of FindGatherEvents.                                        *)

LEMMA EventsAreGathered ==
  ASSUME NEW w, NEW s \in FindGatherEvents(w)
  PROVE  /\ s \in Seq(Dogs \X Items)
         /\ \A e \in Dogs \X Items : (\E k \in DOMAIN s : s[k] = e) <=> e \in Gathered(w)
         /\ \A k \in DOMAIN s : s[k] \in Gathered(w)
         /\ \A j, k \in DOMAIN s : j < k => ~Earlier(Result(w, s[k]), Result(w, s[j]))
  <1> DEFINE S == Gathered(w)
  <1>1. IsFiniteSet(S) /\ S \subseteq Dogs \X Items
    <2>1. IsFiniteSet(Dogs \X Items)
      BY DetectorAssumption, FS_Product
    <2> QED  BY <2>1, FS_Subset DEF Gathered
  <1>2. Cardinality(S) \in Nat
    BY <1>1, FS_CardinalityType
  <1>3. /\ s \in [1 .. Cardinality(S) -> S]
        /\ \A e \in S : \E i \in DOMAIN s : s[i] = e
        /\ \A i, j \in DOMAIN s : i < j => ~Earlier(Result(w, s[j]), Result(w, s[i]))
    BY DEF FindGatherEvents
  <1> HIDE DEF S
  <1>4. s \in Seq(S)
    BY <1>2, <1>3
  <1>5. s \in Seq(Dogs \X Items)
    BY <1>1, <1>2, <1>3
  <1>6. \A k \in DOMAIN s : s[k] \in S
    BY <1>3
  <1> QED  BY <1>3, <1>5, <1>6 DEF S
-----------------------------------------------------------------------------
(* The invariant.                                                          *)

Aligned(a, b) == a.x = b.x \/ a.y = b.y

\* Ways of a tick, and the straight ways they add up to, follow an axis.
Straight == \A d \in Dogs : Aligned(leg[d], way[d].end) /\ Aligned(way[d].start, way[d].end)

\* The events are still those of the last ways.
EventsOfWays ==
    /\ \A k \in DOMAIN events : events[k] \in Gathered(way)
    /\ \A j, k \in DOMAIN events :
          j < k => ~Earlier(Result(way, events[k]), Result(way, events[j]))

\* No dog goes further in a tick than one that nothing stops.
WithinStride == \A d \in Dogs : Apart(way[d].start, way[d].end) <= stride

IInv == TypeOK /\ Straight /\ WithinStride /\ EventsOfWays /\ NothingMissed

LEMMA InitIInv == Init => IInv
  <1> SUFFICES ASSUME Init PROVE IInv
    OBVIOUS
  <1>1. \A d \in Dogs : way[d].start = way[d].end /\ way[d].end \in Point
    BY DEF Init
  <1>2. way \in [Dogs -> [start : Point, end : Point]]
    BY DEF Init
  <1>3. TypeOK
    BY <1>1, <1>2 DEF Init, TypeOK
  <1>4. Straight
    BY <1>1 DEF Init, Straight, Aligned
  <1>5. EventsOfWays
    BY DEF Init, EventsOfWays
  <1>6. NothingMissed
    BY <1>1 DEF Init, NothingMissed, Beside
  <1>7. WithinStride
    <2> SUFFICES ASSUME NEW d \in Dogs PROVE Apart(way[d].end, way[d].end) <= 0
      BY <1>1 DEF Init, WithinStride
    <2>1. way[d].end.x \in Int /\ way[d].end.y \in Int
      BY <1>1, DetectorAssumption DEF Point, Coordinates
    <2> QED  BY <2>1 DEF Apart, Abs
  <1> QED  BY <1>3, <1>4, <1>5, <1>6, <1>7 DEF IInv

\* A step of n along an axis, cut off at the edge.
LEMMA StepWithin ==
  ASSUME NEW p \in Point, NEW n \in Nat, NEW m \in Moves(n)
  PROVE  /\ Arrived(p, m) \in Point /\ Aligned(p, Arrived(p, m))
         /\ Apart(p, Arrived(p, m)) <= n
  <1>1. p.x \in 0 .. Size /\ p.y \in 0 .. Size /\ Size \in Nat
    BY DetectorAssumption DEF Point, Coordinates
  <1>2. \A v \in 0 .. Size : Clamp(v + 0) = v /\ \A u \in {n, -n, 0} :
           Clamp(v + u) \in v - n .. v + n /\ Clamp(v + u) \in 0 .. Size
    BY <1>1 DEF Clamp
  <1>3. \A v \in 0 .. Size, u \in Int : u \in v - n .. v + n => Abs(u - v) <= n
    BY <1>1 DEF Abs
  <1> DEFINE a == Arrived(p, m)
  <1>4. a.x = Clamp(p.x + m.x) /\ a.y = Clamp(p.y + m.y)
        /\ a = [x |-> Clamp(p.x + m.x), y |-> Clamp(p.y + m.y)]
    BY DEF Arrived
  <1> HIDE DEF a
  <1>5. CASE m.y = 0 /\ m.x \in {n, -n, 0}
    <2>1. a.y = p.y
      BY <1>1, <1>2, <1>4, <1>5
    <2>2. a.x \in p.x - n .. p.x + n /\ a.x \in 0 .. Size
      BY <1>1, <1>2, <1>4, <1>5
    <2>3. Abs(a.x - p.x) <= n
      BY <1>1, <1>3, <2>2
    <2> QED  BY <1>1, <1>4, <2>1, <2>2, <2>3 DEF Aligned, Apart, Point, Coordinates, a
  <1>6. CASE m.x = 0 /\ m.y \in {n, -n, 0}
    <2>1. a.x = p.x
      BY <1>1, <1>2, <1>4, <1>6
    <2>2. a.y \in p.y - n .. p.y + n /\ a.y \in 0 .. Size
      BY <1>1, <1>2, <1>4, <1>6
    <2>3. Abs(a.y - p.y) <= n /\ Abs(a.x - p.x) <= n
      BY <1>1, <1>3, <2>1, <2>2
    <2> QED  BY <1>1, <1>4, <2>1, <2>2, <2>3 DEF Aligned, Apart, Point, Coordinates, a
  <1> QED  BY <1>5, <1>6 DEF Moves

\* The ways of a tick continue the ways of the one before.
LEMMA TickWays ==
  ASSUME TypeOK, Tick
  PROVE  /\ stride' \in Nat
         /\ way' \in [Dogs -> [start : Point, end : Point]]
         /\ \A d \in Dogs : /\ way'[d].start = way[d].end
                           /\ Aligned(way'[d].start, way'[d].end)
                           /\ Apart(way'[d].start, way'[d].end) <= stride'
  <1>1. PICK n \in Steps : stride' = n
    BY DEF Tick
  <1>2. PICK move \in [Dogs -> Moves(n)] :
           way' = [d \in Dogs |-> [start |-> way[d].end, end |-> Arrived(way[d].end, move[d])]]
    BY <1>1 DEF Tick
  <1>3. n \in Nat /\ \A d \in Dogs : way[d].end \in Point
    BY DetectorAssumption DEF TypeOK
  <1>4. ASSUME NEW d \in Dogs
        PROVE  /\ Arrived(way[d].end, move[d]) \in Point
               /\ Aligned(way[d].end, Arrived(way[d].end, move[d]))
               /\ Apart(way[d].end, Arrived(way[d].end, move[d])) <= n
    BY <1>3, StepWithin
  <1> QED  BY <1>1, <1>2, <1>3, <1>4

LEMMA TickIInv == IInv /\ Tick => IInv'
  <1> SUFFICES ASSUME IInv, Tick PROVE IInv'
    OBVIOUS
  <1> USE DEF IInv
  <1>1. /\ stride' \in Nat
        /\ way' \in [Dogs -> [start : Point, end : Point]]
        /\ \A d \in Dogs : /\ way'[d].start = way[d].end
                          /\ Aligned(way'[d].start, way'[d].end)
                          /\ Apart(way'[d].start, way'[d].end) <= stride'
    BY TickWays
  <1>2. /\ events' \in Seq(Dogs \X Items)
        /\ \A e \in Dogs \X Items : (\E k \in DOMAIN events' : events'[k] = e) <=> e \in Gathered(way')
        /\ \A k \in DOMAIN events' : events'[k] \in Gathered(way')
        /\ \A j, k \in DOMAIN events' :
              j < k => ~Earlier(Result(way', events'[k]), Result(way', events'[j]))
    BY EventsAreGathered DEF Tick
  <1>3. /\ leg' = [d \in Dogs |->
              IF Onwards(leg[d], way[d].end, way'[d].end) THEN leg[d] ELSE way[d].end]
        /\ met' = [d \in Dogs |->
              (IF leg'[d] = leg[d] THEN met[d] ELSE {})
                \cup {i \in Items : \E k \in DOMAIN events' : events'[k] = <<d, i>>}]
    BY DEF Tick
  <1>4. \A d \in Dogs : leg[d] \in Point /\ way[d].end \in Point /\ way'[d].end \in Point
    BY <1>1 DEF TypeOK
  <1>5. TypeOK'
    <2>1. \A d \in Dogs : leg'[d] \in Point
      BY <1>3, <1>4
    <2>2. \A d \in Dogs : met'[d] \in SUBSET Items
      BY <1>3 DEF TypeOK
    <2> QED  BY <1>1, <1>2, <1>3, <2>1, <2>2 DEF TypeOK
  <1>6. EventsOfWays'
    <2>1. Gathered(way') = Gathered(way)' /\ \A e : Result(way', e) = Result(way, e)'
      BY DEF Gathered, Result
    <2> QED  BY <1>2, <2>1 DEF EventsOfWays
  <1>7. ASSUME NEW d \in Dogs
        PROVE  /\ Aligned(leg'[d], way'[d].end)
               /\ met'[d] = {i \in Items : Beside(i, leg'[d], way'[d].end)}
    <2> DEFINE a == leg[d]
               b == way[d].end
               c == way'[d].end
    <2>1. a \in Point /\ b \in Point /\ c \in Point
      BY <1>4
    <2>2. Aligned(a, b) /\ Aligned(b, c) /\ way'[d].start = b
      BY <1>1 DEF Straight
    <2>3. {i \in Items : \E k \in DOMAIN events' : events'[k] = <<d, i>>}
            = {i \in Items : Beside(i, b, c)}
      <3>1. ASSUME NEW i \in Items
            PROVE  <<d, i>> \in Gathered(way') <=> Beside(i, b, c)
        <4>1. <<d, i>> \in Gathered(way')
                <=> b # c /\ IsCollected(TryCollectPoint(b, c, Position[i]), Radius[i])
          BY <2>2 DEF Gathered, Result
        <4>2. CASE b = c
          BY <4>1, <4>2 DEF Beside
        <4>3. CASE b # c
          BY <4>1, <4>3, <2>1, <2>2, CollectedBeside DEF Aligned
        <4> QED  BY <4>2, <4>3
      <3> QED  BY <1>2, <3>1
    <2>4. met[d] = {i \in Items : Beside(i, a, b)}
      BY DEF NothingMissed
    <2>5. CASE Onwards(a, b, c)
      <3>1. leg'[d] = a
        BY <1>3, <2>5
      <3>2. met'[d] = met[d] \cup {i \in Items : Beside(i, b, c)}
        BY <1>3, <2>3, <3>1
      <3>3. /\ Aligned(a, c)
            /\ \A i \in Items : Beside(i, a, c) <=> Beside(i, a, b) \/ Beside(i, b, c)
        <4>1. Aligned(a, c)
          BY <2>2, <2>5 DEF Aligned, Onwards
        <4> QED  BY <2>1, <2>2, <2>5, <4>1, BesideParts DEF Aligned
      <3> QED  BY <2>4, <3>1, <3>2, <3>3
    <2>6. CASE ~Onwards(a, b, c)
      <3>1. leg'[d] = b /\ a # b
        BY <1>3, <2>6 DEF Onwards
      <3>2. met'[d] = {i \in Items : Beside(i, b, c)}
        BY <1>3, <2>3, <3>1
      <3> QED  BY <2>2, <3>1, <3>2
    <2> QED  BY <2>5, <2>6
  <1>8. Straight' /\ NothingMissed'
    BY <1>1, <1>7 DEF Straight, NothingMissed
  <1>9. WithinStride'
    BY <1>1 DEF WithinStride
  <1> QED  BY <1>5, <1>6, <1>8, <1>9

THEOREM Invariance == Spec => []IInv
  <1>1. IInv /\ [Tick]_vars => IInv'
    <2> SUFFICES ASSUME IInv, UNCHANGED vars PROVE IInv'
      BY TickIInv
    <2> QED
      BY DEF IInv, vars, TypeOK, Straight, Aligned, WithinStride, EventsOfWays, NothingMissed,
             Gathered, Result, Beside
  <1> QED  BY <1>1, InitIInv, PTL DEF Spec
\* Ways, events and what the dogs have met keep their types.
THEOREM TypeCorrect == Spec => []TypeOK
  <1>1. IInv => TypeOK
    BY DEF IInv
  <1> QED  BY <1>1, Invariance, PTL

\* Cutting straight ways into ticks loses no item and adds none, for any
\* items, widths and ticks.
THEOREM MeetsWhatIsBeside == Spec => []NothingMissed
  <1>1. IInv => NothingMissed
    BY DEF IInv
  <1> QED  BY <1>1, Invariance, PTL

-----------------------------------------------------------------------------
(* The order of events.                                                    *)

\* The quotient proj_ratio of a collected item, without its sign.
LEMMA Ratio ==
  ASSUME NEW p \in Int, NEW w \in Int, w # 0, 0 <= p * w
  PROVE  Abs(p) \in Nat /\ Abs(w) \in Nat /\ Abs(w) > 0
         /\ p * w = Abs(p) * Abs(w) /\ w * w = Abs(w) * Abs(w)
  <1>1. Abs(p) \in Nat /\ Abs(w) \in Nat /\ Abs(w) > 0
    BY DEF Abs
  <1>2. w * w = Abs(w) * Abs(w)
    BY DEF Abs
  <1>3. CASE w > 0
    <2>1. p >= 0
      <3>1. p < 0 => (-p) * w > 0
        BY <1>3, PositiveProduct
      <3>2. (-p) * w = -(p * w)
        OBVIOUS
      <3> QED  BY <3>1, <3>2
    <2> QED  BY <1>1, <1>2, <1>3, <2>1 DEF Abs
  <1>4. CASE w < 0
    <2>1. p <= 0
      <3>1. p > 0 => p * (-w) > 0
        BY <1>4, PositiveProduct
      <3>2. p * (-w) = -(p * w)
        OBVIOUS
      <3> QED  BY <3>1, <3>2
    <2>2. p * w = (-p) * (-w)
      OBVIOUS
    <2>3. Abs(p) = -p /\ Abs(w) = -w
      BY <1>4, <2>1 DEF Abs
    <2> QED  BY <1>1, <1>2, <2>2, <2>3
  <1> QED  BY <1>3, <1>4

\* What Earlier compares, in terms of the way gone.
LEMMA CollectedRatio ==
  ASSUME TypeOK, Straight, NEW e \in Gathered(way)
  PROVE  /\ Reached(e) \in Nat /\ Length(e) \in Nat /\ Length(e) > 0
         /\ Result(way, e).uv = Reached(e) * Length(e)
         /\ Result(way, e).vv = Length(e) * Length(e)
  <1> DEFINE w == way[e[1]]
             c == Position[e[2]]
             t == Result(way, e)
  <1>1. e \in Dogs \X Items /\ w.start # w.end /\ 0 <= t.uv
    BY DEF Gathered, IsCollected
  <1>2. /\ w.start \in Point /\ w.end \in Point
        /\ w.start.x \in Int /\ w.start.y \in Int /\ w.end.x \in Int /\ w.end.y \in Int
        /\ c.x \in Int /\ c.y \in Int
    BY <1>1, DetectorAssumption DEF TypeOK, Point, Coordinates
  <1>3. Aligned(w.start, w.end)
    BY <1>1 DEF Straight
  <1> DEFINE p == c.x - w.start.x
             q == c.y - w.start.y
             v == w.end.x - w.start.x
             u == w.end.y - w.start.y
  <1>4. t.uv = p * v + q * u /\ t.vv = v * v + u * u
    BY DEF Result, TryCollectPoint, Dot, Minus
  <1>5. p \in Int /\ q \in Int /\ v \in Int /\ u \in Int
    BY <1>2
  <1>6. CASE w.start.y = w.end.y
    <2>1. Reached(e) = Abs(p) /\ Length(e) = Abs(v)
      BY <1>6 DEF Reached, Length, Apart
    <2>2. u = 0 /\ v # 0
      BY <1>1, <1>2, <1>6 DEF Point
    <2> HIDE DEF p, q, v, u, w, t
    <2>3. t.uv = p * v /\ t.vv = v * v
      BY <1>4, <1>5, <2>2
    <2> QED  BY <1>1, <1>5, <2>1, <2>2, <2>3, Ratio DEF t
  <1>7. CASE w.start.y # w.end.y
    <2>1. Reached(e) = Abs(q) /\ Length(e) = Abs(u)
      BY <1>7 DEF Reached, Length, Apart
    <2>2. v = 0 /\ u # 0
      BY <1>2, <1>3, <1>7 DEF Aligned
    <2> HIDE DEF p, q, v, u, w, t
    <2>3. t.uv = q * u /\ t.vv = u * u
      BY <1>4, <1>5, <2>2
    <2> QED  BY <1>1, <1>5, <2>1, <2>2, <2>3, Ratio DEF t
  <1> QED  BY <1>6, <1>7

LEMMA RatioOrder ==
  ASSUME NEW m \in Nat, NEW n \in Nat, NEW k \in Nat, NEW l \in Nat, k > 0, l > 0,
         ~((n * l) * (k * k) < (m * k) * (l * l))
  PROVE  m * l <= n * k
  <1> DEFINE f == k * l
  <1>1. f \in Int /\ f > 0 /\ m * l \in Int /\ n * k \in Int
    BY PositiveProduct, ProductInt
  <1>2. (m * k) * (l * l) = (m * l) * f
    OBVIOUS
  <1>3. (n * l) * (k * k) = (n * k) * f
    OBVIOUS
  <1>4. (m * l) * f <= (n * k) * f
    BY <1>2, <1>3
  <1> HIDE DEF f
  <1> QED  BY <1>1, <1>4, CancelLeq

\* Of two shares of ways, the smaller one is met first where the other way was
\* not cut short, or is as long.
LEMMA EarlierShare ==
  ASSUME NEW m \in Nat, NEW n \in Nat, NEW k \in Nat, NEW l \in Nat, l > 0,
         m * l <= n * k, k <= l
  PROVE  m <= n
  <1>1. n * k <= n * l
    <2>1. n * l = n * k + n * (l - k) /\ l - k \in Nat
      OBVIOUS
    <2>2. \A a, b \in Nat : a * b \in Nat
      OBVIOUS
    <2> QED  BY <2>1, <2>2
  <1>2. m * l <= n * l
    BY <1>1, ProductInt
  <1> QED  BY <1>2, CancelLeq

\* The events of a tick come in the order in which the items are met, for any
\* items, dogs, roads and ticks, unless an edge stopped the dog in mid-tick.
THEOREM ServedInOrder == Spec => []FirstComeFirst
  <1>1. IInv => FirstComeFirst
    <2> SUFFICES ASSUME IInv, NEW j \in DOMAIN events, NEW k \in DOMAIN events, j < k,
                        ~(CutShort(events[k]) /\ events[j][1] # events[k][1])
                 PROVE  Reached(events[j]) <= Reached(events[k])
      BY DEF FirstComeFirst
    <2> DEFINE e == events[j]
               f == events[k]
    <2>1. e \in Gathered(way) /\ f \in Gathered(way)
          /\ ~Earlier(Result(way, f), Result(way, e))
      BY DEF IInv, EventsOfWays
    <2>2. /\ Reached(e) \in Nat /\ Length(e) \in Nat /\ Length(e) > 0
          /\ Result(way, e).uv = Reached(e) * Length(e)
          /\ Result(way, e).vv = Length(e) * Length(e)
      BY <2>1, CollectedRatio DEF IInv
    <2>3. /\ Reached(f) \in Nat /\ Length(f) \in Nat /\ Length(f) > 0
          /\ Result(way, f).uv = Reached(f) * Length(f)
          /\ Result(way, f).vv = Length(f) * Length(f)
      BY <2>1, CollectedRatio DEF IInv
    <2>4. stride \in Nat /\ Length(e) <= stride
      <3>1. e[1] \in Dogs
        BY <2>1 DEF Gathered
      <3> QED  BY <3>1 DEF IInv, TypeOK, WithinStride, Length
    <2>5. Length(e) <= Length(f)
      <3>1. CASE e[1] = f[1]
        BY <2>2, <3>1 DEF Length
      <3>2. CASE ~CutShort(f)
        BY <2>2, <2>3, <2>4, <3>2 DEF CutShort
      <3> QED  BY <3>1, <3>2
    <2> HIDE DEF e, f
    <2>6. ~((Reached(f) * Length(f)) * (Length(e) * Length(e))
              < (Reached(e) * Length(e)) * (Length(f) * Length(f)))
      BY <2>1, <2>2, <2>3 DEF Earlier
    <2>7. Reached(e) * Length(f) <= Reached(f) * Length(e)
      BY <2>2, <2>3, <2>6, RatioOrder
    <2>8. Reached(e) <= Reached(f)
      BY <2>2, <2>3, <2>5, <2>7, EarlierShare
    <2> QED  BY <2>8 DEF e, f
  <1> QED  BY <1>1, Invariance, PTL

-----------------------------------------------------------------------------
(* The loot generator.  Its powers are a recursive function of the time,   *)
(* which is shown to be one, and what follows from that for the rounded    *)
(* number of items.                                                        *)

LEMMA LeastNumber ==
    ASSUME NEW T, T \subseteq Nat, T # {}
    PROVE  \E n \in T : \A k \in T : n <= k
  <1>1. IsWellFoundedOn(OpToRel(<, Nat), Nat)
    BY NatLessThanWellFounded
  <1>2. PICK n \in T : \A k \in T : <<k, n>> \notin OpToRel(<, Nat)
    BY <1>1, WFMin
  <1>3. \A k \in T : ~(k < n)
    BY <1>2 DEF OpToRel
  <1> QED
    BY <1>3

\* The first n powers.
Powers(base, n) ==
    {p \in [0 .. n -> Nat] : p[0] = 1 /\ \A i \in 1 .. n : p[i] = base * p[i - 1]}

LEMMA PowersExist ==
    ASSUME NEW base \in Nat, NEW n \in Nat
    PROVE  Powers(base, n) # {}
  <1> DEFINE T == {m \in Nat : Powers(base, m) = {}}
  <1> SUFFICES ASSUME T # {} PROVE FALSE
    OBVIOUS
  <1>1. PICK m \in T : \A k \in T : m <= k
    BY LeastNumber
  <1>2. m \in Nat /\ Powers(base, m) = {}
    BY <1>1
  <1>3. CASE m = 0
    <2>1. [i \in 0 .. 0 |-> 1] \in Powers(base, 0)
      BY DEF Powers
    <2> QED
      BY <1>2, <1>3, <2>1
  <1>4. CASE m # 0
    <2>1. m - 1 \in Nat /\ m - 1 \notin T
      BY <1>1, <1>2, <1>4
    <2>2. PICK p : p \in Powers(base, m - 1)
      BY <2>1
    <2>3. /\ p \in [0 .. m - 1 -> Nat] /\ p[0] = 1
          /\ \A i \in 1 .. m - 1 : p[i] = base * p[i - 1]
      BY <2>2 DEF Powers
    <2> DEFINE q == [i \in 0 .. m |-> IF i = m THEN base * p[m - 1] ELSE p[i]]
    <2>4. base * p[m - 1] \in Nat
      BY <1>2, <1>4, <2>3
    <2>5. q \in [0 .. m -> Nat] /\ q[0] = 1
      BY <1>2, <1>4, <2>3, <2>4
    <2>6. ASSUME NEW i \in 1 .. m PROVE q[i] = base * q[i - 1]
      BY <1>2, <1>4, <2>3
    <2>7. q \in Powers(base, m)
      BY <2>5, <2>6 DEF Powers
    <2> QED
      BY <1>2, <2>7
  <1> QED
    BY <1>3, <1>4

LEMMA PowersAgree ==
    ASSUME NEW base \in Nat, NEW n \in Nat, NEW m \in Nat, NEW i \in Nat, i <= n, i <= m,
           NEW p \in Powers(base, n), NEW q \in Powers(base, m)
    PROVE  p[i] = q[i]
  <1> DEFINE T == {k \in Nat : k <= n /\ k <= m /\ p[k] # q[k]}
  <1> SUFFICES ASSUME T # {} PROVE FALSE
    OBVIOUS
  <1>1. PICK k \in T : \A j \in T : k <= j
    BY LeastNumber
  <1>2. k \in Nat /\ k <= n /\ k <= m /\ p[k] # q[k]
    BY <1>1
  <1>3. k # 0
    BY <1>2 DEF Powers
  <1>4. k - 1 \in Nat /\ k - 1 \notin T
    BY <1>1, <1>2, <1>3
  <1>5. p[k - 1] = q[k - 1]
    BY <1>2, <1>4
  <1>6. k \in 1 .. n /\ k \in 1 .. m
    BY <1>2, <1>3
  <1>7. p[k] = base * p[k - 1] /\ q[k] = base * q[k - 1]
    BY <1>6 DEF Powers
  <1> QED
    BY <1>2, <1>5, <1>7

\* What the recursive definition of Power says is so.
LEMMA PowerUnfolds ==
    ASSUME NEW base \in Nat
    PROVE  /\ Power(base)[0] = 1
           /\ \A t \in Nat : Power(base)[t] \in Nat /\ Power(base)[t + 1] = base * Power(base)[t]
  <1> DEFINE Rule(p) == p = [t \in Nat |-> IF t = 0 THEN 1 ELSE base * p[t - 1]]
             first(n) == CHOOSE p \in Powers(base, n) : TRUE
             power == [t \in Nat |-> first(t)[t]]
  <1>1. \A n \in Nat : first(n) \in Powers(base, n)
    BY PowersExist
  <1> HIDE DEF first
  <1>2. power[0] = 1
    BY <1>1 DEF Powers
  <1>3. ASSUME NEW t \in Nat PROVE power[t] \in Nat /\ power[t + 1] = base * power[t]
    <2>1. first(t)[t] \in Nat
      BY <1>1 DEF Powers
    <2>2. first(t + 1)[t + 1] = base * first(t + 1)[t]
      <3>1. t + 1 \in 1 .. t + 1 /\ (t + 1) - 1 = t /\ first(t + 1) \in Powers(base, t + 1)
        BY <1>1
      <3>2. \A i \in 1 .. t + 1 : first(t + 1)[i] = base * first(t + 1)[i - 1]
        BY <3>1 DEF Powers
      <3> QED
        BY <3>1, <3>2
    <2>3. first(t + 1)[t] = first(t)[t]
      BY <1>1, PowersAgree
    <2> QED
      BY <2>1, <2>2, <2>3
  <1>4. Rule(power)
    <2>1. ASSUME NEW t \in Nat, t # 0 PROVE power[t] = base * power[t - 1]
      <3>1. t - 1 \in Nat /\ (t - 1) + 1 = t
        BY <2>1
      <3> HIDE DEF power
      <3> QED
        BY <1>3, <3>1
    <2>2. \A t \in Nat : power[t] = IF t = 0 THEN 1 ELSE base * power[t - 1]
      BY <1>2, <2>1
    <2>3. power = [t \in Nat |-> power[t]]
      OBVIOUS
    <2> HIDE DEF power
    <2> QED
      BY <2>2, <2>3
  <1>5. Power(base) = CHOOSE p : Rule(p)
    BY DEF Power
  <1> HIDE DEF Rule, power
  <1>6. Rule(Power(base))
    BY <1>4, <1>5
  <1>7. Power(base) = [t \in Nat |-> IF t = 0 THEN 1 ELSE base * Power(base)[t - 1]]
    BY <1>6 DEF Rule
  <1>8. power = Power(base)
    <2> DEFINE T == {t \in Nat : power[t] # Power(base)[t]}
    <2>1. ASSUME T # {} PROVE FALSE
      <3>1. PICK t \in T : \A k \in T : t <= k
        BY <2>1, LeastNumber
      <3>2. t # 0
        BY <1>2, <1>7, <3>1
      <3>3. t - 1 \in Nat /\ t - 1 \notin T /\ t \in Nat /\ (t - 1) + 1 = t
        BY <3>1, <3>2
      <3>4. power[t] = base * power[t - 1]
        BY <1>3, <3>3
      <3>5. Power(base)[t] = base * Power(base)[t - 1]
        BY <1>7, <3>2, <3>3
      <3> QED
        BY <3>1, <3>3, <3>4, <3>5
    <2>2. \A t \in Nat : power[t] = Power(base)[t]
      BY <2>1
    <2>3. power = [t \in Nat |-> power[t]]
      BY DEF power
    <2>4. Power(base) = [t \in Nat |-> Power(base)[t]]
      BY <1>7
    <2> QED
      BY <2>2, <2>3, <2>4
  <1> QED
    BY <1>2, <1>3, <1>8


LEMMA TimesGrows ==
    ASSUME NEW a \in Nat, NEW b \in Nat, NEW c \in Nat, NEW d \in Nat, a <= b, c <= d
    PROVE  a * c \in Nat /\ b * d \in Nat /\ a * c <= b * d
  <1>1. b = a + (b - a) /\ d = c + (d - c) /\ b - a \in Nat /\ d - c \in Nat
    OBVIOUS
  <1>2. ASSUME NEW x \in Nat, NEW y \in Nat
        PROVE  (a + x) * (c + y) >= a * c /\ a * c \in Nat /\ (a + x) * (c + y) \in Nat
    <2>1. (a + x) * (c + y) = a * c + a * y + x * c + x * y
      OBVIOUS
    <2>2. a * c \in Nat /\ a * y \in Nat /\ x * c \in Nat /\ x * y \in Nat
      OBVIOUS
    <2> QED
      BY <2>1, <2>2
  <1> QED
    BY <1>1, <1>2

\* What is kept of the probability that nothing comes: never more than all of
\* it, and a part that was reached stays reached.
Kept(t) == Power(Num)[t]
All(t) == Power(Den)[t]

LEMMA KeptOfAll ==
    ASSUME NEW t \in Nat
    PROVE  /\ Kept(t) \in Nat /\ All(t) \in Nat \ {0} /\ Kept(t) <= All(t)
           /\ Kept(t + 1) = Num * Kept(t) /\ All(t + 1) = Den * All(t)
           /\ Kept(0) = All(0)
  <1>1. /\ Num \in Nat /\ Den \in Nat \ {0} /\ Num <= Den
    BY GeneratorAssumption
  <1>2. ASSUME NEW n \in Nat
        PROVE  /\ Kept(n) \in Nat /\ All(n) \in Nat
               /\ Kept(n + 1) = Num * Kept(n) /\ All(n + 1) = Den * All(n)
    BY <1>1, PowerUnfolds DEF Kept, All
  <1>3. Kept(0) = 1 /\ All(0) = 1
    BY <1>1, PowerUnfolds DEF Kept, All
  <1> DEFINE T == {n \in Nat : ~(All(n) # 0 /\ Kept(n) <= All(n))}
  <1>4. ASSUME T # {} PROVE FALSE
    <2>1. PICK n \in T : \A k \in T : n <= k
      BY <1>4, LeastNumber
    <2>2. n # 0
      BY <1>3, <2>1
    <2>3. n - 1 \in Nat /\ n - 1 \notin T /\ n = (n - 1) + 1
      BY <2>1, <2>2
    <2>4. /\ Kept(n - 1) \in Nat /\ All(n - 1) \in Nat \ {0} /\ Kept(n - 1) <= All(n - 1)
          /\ Kept(n) = Num * Kept(n - 1) /\ All(n) = Den * All(n - 1)
      BY <1>2, <2>3
    <2>5. Num * Kept(n - 1) <= Den * All(n - 1)
      BY <1>1, <2>4, TimesGrows
    <2>6. 1 * 1 <= Den * All(n - 1)
      <3>1. 1 <= Den /\ 1 <= All(n - 1) /\ Den \in Nat /\ All(n - 1) \in Nat
        BY <1>1, <2>4
      <3> QED
        BY <3>1, TimesGrows
    <2> QED
      BY <2>1, <2>4, <2>5, <2>6
  <1> QED
    BY <1>2, <1>3, <1>4

LEMMA PartStaysReached ==
    ASSUME NEW k \in Nat, NEW t \in Nat, k * Kept(t) <= All(t), NEW u \in Nat, t <= u
    PROVE  k * Kept(u) <= All(u)
  <1> DEFINE T == {n \in Nat : n >= t /\ ~(k * Kept(n) <= All(n))}
  <1> SUFFICES ASSUME T # {} PROVE FALSE
    OBVIOUS
  <1>1. PICK n \in T : \A m \in T : n <= m
    BY LeastNumber
  <1>2. n # t /\ n \in Nat /\ n >= t
    BY <1>1
  <1>3. n - 1 \in Nat /\ n - 1 >= t /\ n - 1 \notin T /\ n = (n - 1) + 1
    BY <1>1, <1>2
  <1>4. k * Kept(n - 1) <= All(n - 1)
    BY <1>3
  <1>5. /\ Kept(n - 1) \in Nat /\ All(n - 1) \in Nat
        /\ Kept(n) = Num * Kept(n - 1) /\ All(n) = Den * All(n - 1)
    BY <1>3, KeptOfAll
  <1>6. Num \in Nat /\ Den \in Nat /\ Num <= Den /\ k * Kept(n - 1) \in Nat
    BY <1>5, GeneratorAssumption
  <1>7. Num * (k * Kept(n - 1)) <= Den * All(n - 1)
    BY <1>4, <1>5, <1>6, TimesGrows
  <1>8. Num * (k * Kept(n - 1)) = k * (Num * Kept(n - 1))
    BY <1>5, <1>6
  <1> QED
    BY <1>1, <1>5, <1>7, <1>8

LEMMA Quotient ==
    ASSUME NEW a \in Nat, NEW b \in Nat \ {0}
    PROVE  /\ a \div b \in Nat
           /\ \A q \in Nat : a \div b >= q <=> a >= q * b
  <1>1. a \div b \in Nat /\ (a \div b) * b <= a /\ a < (a \div b + 1) * b
    OBVIOUS
  <1> DEFINE r == a \div b
  <1> HIDE DEF r
  <1>2. r \in Nat /\ r * b <= a /\ a < (r + 1) * b
    BY <1>1 DEF r
  <1>3. ASSUME NEW q \in Nat, r >= q PROVE a >= q * b
    <2>1. q * b <= r * b
      BY <1>2, <1>3, TimesGrows
    <2> QED
      BY <1>2, <2>1
  <1>4. ASSUME NEW q \in Nat, ~(r >= q) PROVE ~(a >= q * b)
    <2>1. (r + 1) * b <= q * b
      <3>1. r + 1 \in Nat /\ r + 1 <= q
        BY <1>2, <1>4
      <3> QED
        BY <3>1, TimesGrows
    <2>2. (r + 1) * b \in Int /\ q * b \in Int
      BY <1>2
    <2> QED
      BY <1>2, <2>1, <2>2
  <1> QED
    BY <1>2, <1>3, <1>4 DEF r

\* At least q items come, of a shortage, when so much of all is not kept.
LEMMA GeneratedAtLeast ==
    ASSUME NEW s \in Nat, NEW t \in Nat, NEW q \in Nat
    PROVE  /\ Generated(s, t) \in Nat
           /\ Generated(s, t) >= q <=>
                 2 * (s * (All(t) - Kept(t))) + All(t) >= 2 * (q * All(t))
  <1> DEFINE a == All(t)
             gone == s * (All(t) - Kept(t))
  <1>1. a \in Nat \ {0} /\ All(t) - Kept(t) \in Nat
    BY KeptOfAll
  <1>2. gone \in Nat
    BY <1>1
  <1>3. Generated(s, t) = (2 * gone + a) \div (2 * a)
    <2>1. (2 * s) * (All(t) - Kept(t)) = 2 * gone
      BY <1>1
    <2> QED
      BY <2>1 DEF Generated, Kept, All
  <1> HIDE DEF a, gone
  <1>4. 2 * gone + a \in Nat /\ 2 * a \in Nat \ {0}
    BY <1>1, <1>2
  <1>5. q * (2 * a) = 2 * (q * a)
    BY <1>1
  <1>6. Generated(s, t) \in Nat /\ (Generated(s, t) >= q <=> 2 * gone + a >= 2 * (q * a))
    BY <1>3, <1>4, <1>5, Quotient
  <1> QED
    BY <1>6 DEF a, gone


LEMMA NeverTooMany ==
    ASSUME NEW s \in Nat, NEW t \in Nat
    PROVE  Generated(s, t) \in 0 .. s
  <1> DEFINE a == All(t)
             k == Kept(t)
  <1>1. a \in Nat \ {0} /\ k \in Nat /\ k <= a /\ a - k \in Nat
    BY KeptOfAll
  <1>2. s * (a - k) <= s * a /\ s * (a - k) \in Nat /\ s * a \in Nat
    BY <1>1, TimesGrows
  <1>3. (s + 1) * a = s * a + a
    BY <1>1
  <1> HIDE DEF a, k
  <1>4. ~(2 * (s * (a - k)) + a >= 2 * ((s + 1) * a))
    BY <1>1, <1>2, <1>3
  <1>5. Generated(s, t) \in Nat /\ ~(Generated(s, t) >= s + 1)
    BY <1>4, GeneratedAtLeast DEF a, k
  <1> QED
    BY <1>5

LEMMA OneComes ==
    ASSUME NEW t \in Nat
    PROVE  /\ Generated(1, t) > 0 <=> 2 * Kept(t) <= All(t)
           /\ Generated(0, t) = 0
           /\ \A s \in Nat \ {0} : Generated(1, t) > 0 => Generated(s, t) > 0
  <1> DEFINE a == All(t)
             k == Kept(t)
  <1>1. a \in Nat \ {0} /\ k \in Nat /\ k <= a /\ a - k \in Nat
    BY KeptOfAll
  <1>2. \A s \in Nat : Generated(s, t) \in Nat /\ (Generated(s, t) >= 1 <=> 2 * (s * (a - k)) + a >= 2 * (1 * a))
    BY GeneratedAtLeast
  <1> HIDE DEF a, k
  <1>3. Generated(1, t) > 0 <=> 2 * k <= a
    BY <1>1, <1>2
  <1>4. Generated(0, t) = 0
    BY NeverTooMany
  <1>5. ASSUME NEW s \in Nat \ {0}, Generated(1, t) > 0 PROVE Generated(s, t) > 0
    <2>1. 1 * (a - k) <= s * (a - k) /\ s * (a - k) \in Nat
      BY <1>1, TimesGrows
    <2> QED
      BY <1>1, <1>2, <1>3, <1>5, <2>1
  <1> QED
    BY <1>3, <1>4, <1>5 DEF a, k

LEMMA AllCome ==
    ASSUME NEW s \in 0 .. MaxLooters, NEW t \in Nat, t >= Enough
    PROVE  Generated(s, t) = s
  <1>1. /\ MaxLooters \in Nat \ {0} /\ Enough \in Nat /\ s \in Nat /\ s <= MaxLooters
        /\ Generated(MaxLooters, Enough) = MaxLooters
    BY GeneratorAssumption
  <1>2. (2 * MaxLooters) * Kept(Enough) <= All(Enough)
    <2> DEFINE a == All(Enough)
               k == Kept(Enough)
    <2>1. a \in Nat \ {0} /\ k \in Nat /\ k <= a
      BY <1>1, KeptOfAll
    <2>2. 2 * (MaxLooters * (a - k)) + a >= 2 * (MaxLooters * a)
      BY <1>1, GeneratedAtLeast
    <2> HIDE DEF a, k
    <2>3. MaxLooters * (a - k) = MaxLooters * a - MaxLooters * k /\ MaxLooters * k \in Nat /\ MaxLooters * a \in Nat
      BY <1>1, <2>1
    <2>4. (2 * MaxLooters) * k = 2 * (MaxLooters * k)
      BY <1>1, <2>1
    <2> QED
      BY <1>1, <2>1, <2>2, <2>3, <2>4 DEF a, k
  <1>3. (2 * MaxLooters) * Kept(t) <= All(t)
    <2>1. 2 * MaxLooters \in Nat
      BY <1>1
    <2> QED
      BY <1>1, <1>2, <2>1, PartStaysReached
  <1> DEFINE a == All(t)
             k == Kept(t)
  <1>4. a \in Nat \ {0} /\ k \in Nat /\ k <= a
    BY KeptOfAll
  <1>5. (2 * MaxLooters) * k <= a
    BY <1>3
  <1>6. Generated(s, t) >= s <=> 2 * (s * (a - k)) + a >= 2 * (s * a)
    BY <1>1, GeneratedAtLeast
  <1> HIDE DEF a, k
  <1>7. s * k <= MaxLooters * k /\ s * k \in Nat /\ MaxLooters * k \in Nat
    BY <1>1, <1>4, TimesGrows
  <1>8. s * (a - k) = s * a - s * k /\ s * a \in Nat /\ (2 * MaxLooters) * k = 2 * (MaxLooters * k)
    BY <1>1, <1>4
  <1>9. Generated(s, t) >= s
    BY <1>4, <1>5, <1>6, <1>7, <1>8
  <1>10. Generated(s, t) \in 0 .. s
    BY <1>1, NeverTooMany
  <1> QED
    BY <1>1, <1>9, <1>10

\* The generator needs no clock beyond Enough: the number of items is the same
\* for all times after it, whatever the probability and however many dogs.
THEOREM EnoughIsEnough ==
    ASSUME NEW s \in 0 .. MaxLooters, NEW t \in Nat
    PROVE  Generated(s, AtMost(Enough, t)) = Generated(s, t)
  <1>1. Enough \in Nat
    BY GeneratorAssumption
  <1>2. CASE t > Enough
    BY <1>1, <1>2, AllCome DEF AtMost
  <1>3. CASE ~(t > Enough)
    BY <1>3 DEF AtMost
  <1> QED
    BY <1>2, <1>3

LEMMA FirstTimeIsFirst ==
    /\ FirstTime \in 1 .. Enough
    /\ \A t \in Nat : Generated(1, t) > 0 <=> t >= FirstTime
  <1>1. Enough \in Nat /\ 1 \in 0 .. MaxLooters
    BY GeneratorAssumption
  <1> DEFINE T == {t \in Nat : Generated(1, t) > 0}
  <1>2. Enough \in T
    BY <1>1, AllCome
  <1>3. PICK t \in T : \A u \in T : t <= u
    BY <1>2, LeastNumber
  <1>4. t \in 0 .. Enough /\ Generated(1, t) > 0
    BY <1>1, <1>2, <1>3
  <1>5. \A u \in 0 .. t - 1 : Generated(1, u) = 0
    <2> SUFFICES ASSUME NEW u \in 0 .. t - 1 PROVE Generated(1, u) = 0
      OBVIOUS
    <2>1. u \in Nat /\ u \notin T
      BY <1>3
    <2>2. Generated(1, u) \in Nat
      BY <2>1, NeverTooMany
    <2> QED
      BY <2>1, <2>2
  <1>6. /\ FirstTime \in 0 .. Enough /\ Generated(1, FirstTime) > 0
        /\ \A u \in 0 .. FirstTime - 1 : Generated(1, u) = 0
    BY <1>4, <1>5 DEF FirstTime
  <1>7. FirstTime # 0
    <2>1. Kept(0) = All(0) /\ All(0) \in Nat \ {0}
      BY KeptOfAll
    <2>2. ~(2 * Kept(0) <= All(0))
      BY <2>1
    <2> QED
      BY <1>6, <2>2, OneComes
  <1>8. ASSUME NEW u \in Nat, u >= FirstTime PROVE Generated(1, u) > 0
    <2>1. 2 * Kept(FirstTime) <= All(FirstTime) /\ FirstTime \in Nat
      BY <1>6, OneComes
    <2>2. 2 * Kept(u) <= All(u)
      BY <1>8, <2>1, PartStaysReached
    <2> QED
      BY <2>2, OneComes
  <1>9. ASSUME NEW u \in Nat, ~(u >= FirstTime) PROVE ~(Generated(1, u) > 0)
    <2>1. u \in 0 .. FirstTime - 1
      BY <1>6, <1>9
    <2> QED
      BY <1>6, <2>1
  <1> QED
    BY <1>1, <1>6, <1>7, <1>8, <1>9


\* The time credited to the generator is too short for a single item, or the
\* item would have come; and while one is missing on a map with loot, no time is
\* lost between it and the ticker.
GeneratorInv ==
    /\ GeneratorTypeOK
    /\ timeWithoutLoot < FirstTime
    /\ loot >= looters => missing = 0
    /\ MaxLoots > 0 => missing <= timeWithoutLoot + sinceTick

LEMMA GeneratorConstants ==
    /\ Period \in Nat \ {0} /\ MaxDelay \in Nat /\ MaxLoots \in Nat
    /\ MaxLooters \in Nat \ {0} /\ Enough \in Nat
    /\ FirstTime \in 1 .. Enough
    /\ Drought = FirstTime + Period + MaxDelay /\ Drought \in Nat
  BY GeneratorAssumption, FirstTimeIsFirst DEF Drought

LEMMA InitGenerator == GeneratorInit => GeneratorInv
  BY GeneratorConstants DEF GeneratorInit, GeneratorInv, GeneratorTypeOK

\* A call of the generator for a ticker's or a new dog's time.
LEMMA GenerateLootProp ==
    ASSUME GeneratorInv, NEW delta \in Nat, NEW n \in looters .. MaxLooters, GenerateLoot(delta, n)
    PROVE  /\ loot' \in 0 .. MaxLooters /\ timeWithoutLoot' \in 0 .. Enough
           /\ timeWithoutLoot' < FirstTime
           /\ loot' >= loot /\ (loot' > loot => loot' <= n)
           /\ MaxLoots > 0 /\ loot' = loot /\ loot < n => timeWithoutLoot' = timeWithoutLoot + delta
           /\ loot' > loot \/ timeWithoutLoot' >= timeWithoutLoot
  <1>1. /\ loot \in 0 .. MaxLooters /\ looters \in 0 .. MaxLooters /\ n \in 0 .. MaxLooters
        /\ timeWithoutLoot \in 0 .. Enough /\ timeWithoutLoot < FirstTime
    BY GeneratorConstants DEF GeneratorInv, GeneratorTypeOK
  <1>2. CASE MaxLoots = 0 \/ loot >= n
    BY <1>1, <1>2, GeneratorConstants DEF GenerateLoot
  <1>3. CASE ~(MaxLoots = 0 \/ loot >= n)
    <2> DEFINE credit == Credit(delta)
               count == Generated(n - loot, credit)
    <2>1. n - loot \in Nat \ {0} /\ n - loot \in 0 .. MaxLooters
      BY <1>1, <1>3, GeneratorConstants
    <2>2. credit \in 0 .. Enough /\ credit \in Nat
      BY <1>1, GeneratorConstants DEF Credit, AtMost
    <2>3. /\ loot' = loot + count
          /\ timeWithoutLoot' = IF count > 0 THEN 0 ELSE credit
      BY <1>3 DEF GenerateLoot, Generate, Shortage
    <2> HIDE DEF credit, count
    <2>4. count \in 0 .. n - loot
      BY <2>1, <2>2, NeverTooMany DEF count
    <2>5. CASE count > 0
      BY <1>1, <2>3, <2>4, <2>5, GeneratorConstants
    <2>6. CASE ~(count > 0)
      <3>1. ~(Generated(1, credit) > 0)
        BY <2>1, <2>2, <2>6, OneComes DEF count
      <3>2. credit < FirstTime
        BY <2>2, <3>1, FirstTimeIsFirst
      <3>3. credit # Enough
        BY <2>2, <3>2, GeneratorConstants
      <3>4. credit = timeWithoutLoot + delta
        BY <1>1, <3>3 DEF credit, Credit, AtMost
      <3>5. count = 0 /\ loot' = loot /\ timeWithoutLoot' = credit
        BY <1>1, <2>3, <2>4, <2>6
      <3> QED
        BY <1>1, <2>2, <3>2, <3>4, <3>5
    <2> QED
      BY <2>5, <2>6
  <1> QED
    BY <1>2, <1>3

\* The clock of what is missing cannot overtake those of the generator and the
\* ticker, which together never come to Drought.
LEMMA MissingInTime ==
    ASSUME NEW l \in 0 .. MaxLooters, NEW d \in 0 .. MaxLooters,
           NEW t \in 0 .. Enough, t < FirstTime, NEW s \in 0 .. Period + MaxDelay,
           loot' = l, looters' = d, timeWithoutLoot' = t, sinceTick' = s,
           NEW passed \in Nat, Missing(passed), missing \in Nat, loot \in Nat,
           MaxLoots > 0 /\ l <= loot /\ l < d => missing + passed <= t + s
    PROVE  GeneratorInv'
  <1>1. t + s \in Nat /\ t + s < Drought /\ l \in Nat /\ d \in Nat
    BY GeneratorConstants
  <1>2. CASE l >= d \/ l > loot
    <2>1. missing' = 0
      BY <1>2 DEF Missing
    <2> QED
      BY <1>1, <2>1, GeneratorConstants DEF GeneratorInv, GeneratorTypeOK
  <1>3. CASE ~(l >= d \/ l > loot)
    <2>1. missing' = AtMost(Drought, missing + passed)
      BY <1>3 DEF Missing
    <2>2. missing' \in 0 .. Drought
      BY <1>1, <2>1, GeneratorConstants DEF AtMost
    <2>3. MaxLoots > 0 => missing + passed <= t + s
      BY <1>1, <1>3
    <2>4. MaxLoots > 0 => missing' <= t + s
      BY <1>1, <2>1, <2>3, GeneratorConstants DEF AtMost
    <2> QED
      BY <1>1, <1>3, <2>2, <2>4, GeneratorConstants DEF GeneratorInv, GeneratorTypeOK
  <1> QED
    BY <1>2, <1>3

LEMMA NextGenerator == GeneratorInv /\ [GeneratorNext]_generatorVars => GeneratorInv'
  <1> SUFFICES ASSUME GeneratorInv, [GeneratorNext]_generatorVars
               PROVE  GeneratorInv'
    OBVIOUS
  <1> USE GeneratorConstants
  <1>1. /\ loot \in 0 .. MaxLooters /\ looters \in 0 .. MaxLooters
        /\ timeWithoutLoot \in 0 .. Enough /\ timeWithoutLoot < FirstTime
        /\ sinceTick \in 0 .. Period + MaxDelay /\ missing \in Nat
        /\ loot \in Nat /\ looters \in Nat /\ timeWithoutLoot \in Nat /\ sinceTick \in Nat
        /\ loot >= looters => missing = 0
        /\ MaxLoots > 0 => missing <= timeWithoutLoot + sinceTick
    BY DEF GeneratorInv, GeneratorTypeOK
  <1>2. CASE Pass
    <2>1. /\ sinceTick' = sinceTick + 1 /\ sinceTick + 1 \in 0 .. Period + MaxDelay
          /\ loot' = loot /\ looters' = looters /\ timeWithoutLoot' = timeWithoutLoot
          /\ Missing(1)
      BY <1>1, <1>2 DEF Pass
    <2>2. MaxLoots > 0 => missing + 1 <= timeWithoutLoot + (sinceTick + 1)
      BY <1>1
    <2> QED
      BY <1>1, <2>1, <2>2, MissingInTime
  <1>3. CASE GenerateLootInSessions
    <2>1. /\ GenerateLoot(sinceTick, looters) /\ sinceTick' = 0 /\ 0 \in 0 .. Period + MaxDelay
          /\ looters' = looters /\ Missing(0) /\ looters \in looters .. MaxLooters
      BY <1>1, <1>3 DEF GenerateLootInSessions
    <2>2. PICK l \in 0 .. MaxLooters, t \in 0 .. Enough :
               /\ loot' = l /\ timeWithoutLoot' = t /\ t < FirstTime
               /\ MaxLoots > 0 /\ l = loot /\ loot < looters => t = timeWithoutLoot + sinceTick
               /\ l >= loot
      BY <1>1, <2>1, GenerateLootProp
    <2>3. MaxLoots > 0 /\ l <= loot /\ l < looters => missing + 0 <= t + 0
      BY <1>1, <2>2
    <2> QED
      BY <1>1, <2>1, <2>2, <2>3, MissingInTime
  <1>4. CASE AddDog
    <2>1. /\ GenerateLoot(Period, looters + 1) /\ sinceTick' = sinceTick
          /\ looters' = looters + 1 /\ Missing(0)
          /\ looters + 1 \in looters .. MaxLooters /\ looters + 1 \in 0 .. MaxLooters
      BY <1>1, <1>4 DEF AddDog
    <2>2. PICK l \in 0 .. MaxLooters, t \in 0 .. Enough :
               /\ loot' = l /\ timeWithoutLoot' = t /\ t < FirstTime
               /\ l >= loot /\ (l > loot \/ t >= timeWithoutLoot)
      BY <1>1, <2>1, GenerateLootProp
    <2>3. MaxLoots > 0 /\ l <= loot /\ l < looters + 1 => missing + 0 <= t + sinceTick
      BY <1>1, <2>2
    <2> QED
      BY <1>1, <2>1, <2>2, <2>3, MissingInTime
  <1>5. CASE RemoveDog
    <2>1. /\ looters' = looters - 1 /\ looters - 1 \in 0 .. MaxLooters
          /\ loot' = loot /\ timeWithoutLoot' = timeWithoutLoot /\ sinceTick' = sinceTick
          /\ Missing(0)
      BY <1>1, <1>5 DEF RemoveDog
    <2>2. MaxLoots > 0 => missing + 0 <= timeWithoutLoot + sinceTick
      BY <1>1
    <2> QED
      BY <1>1, <2>1, <2>2, MissingInTime
  <1>6. CASE CollectLoot
    <2>1. /\ loot' = loot - 1 /\ loot - 1 \in 0 .. MaxLooters /\ looters' = looters
          /\ timeWithoutLoot' = timeWithoutLoot /\ sinceTick' = sinceTick /\ Missing(0)
      BY <1>1, <1>6 DEF CollectLoot
    <2>2. MaxLoots > 0 => missing + 0 <= timeWithoutLoot + sinceTick
      BY <1>1
    <2> QED
      BY <1>1, <2>1, <2>2, MissingInTime
  <1>7. CASE UNCHANGED generatorVars
    BY <1>7 DEF generatorVars, GeneratorInv, GeneratorTypeOK
  <1> QED
    BY <1>2, <1>3, <1>4, <1>5, <1>6, <1>7 DEF GeneratorNext

\* Type correctness of the generator and its callers.
THEOREM GeneratorTypeCorrect == GeneratorSpec => []GeneratorTypeOK
  <1>1. GeneratorInv => GeneratorTypeOK
    BY DEF GeneratorInv
  <1> QED
    BY <1>1, InitGenerator, NextGenerator, PTL DEF GeneratorSpec

\* While an item is missing on a map with loot one comes in time, for every probability, period,
\* delay of the ticker and number of dogs.
THEOREM DroughtsEnd == GeneratorSpec => []NoDrought
  <1>1. GeneratorInv => NoDrought
    <2> SUFFICES ASSUME GeneratorInv, MaxLoots > 0 PROVE missing < Drought
      BY DEF NoDrought
    <2>1. /\ missing \in Nat /\ timeWithoutLoot \in Nat /\ sinceTick \in Nat
          /\ timeWithoutLoot < FirstTime /\ sinceTick <= Period + MaxDelay
          /\ missing <= timeWithoutLoot + sinceTick
      BY GeneratorConstants DEF GeneratorInv, GeneratorTypeOK
    <2> QED
      BY <2>1, GeneratorConstants
  <1> QED
    BY <1>1, InitGenerator, NextGenerator, PTL DEF GeneratorSpec

\* Items that come are never more than the dogs they come for, a dog that just
\* joined included.
THEOREM LootIsLimited == GeneratorSpec => LootLimited
  <1>1. GeneratorInv /\ [GeneratorNext]_generatorVars
           => [loot' > loot => loot' <= looters']_generatorVars
    <2> SUFFICES ASSUME GeneratorInv, GeneratorNext, loot' > loot
                 PROVE  loot' <= looters'
      BY GeneratorConstants DEF generatorVars
    <2>1. loot \in Nat /\ looters \in 0 .. MaxLooters /\ sinceTick \in Nat
      BY GeneratorConstants DEF GeneratorInv, GeneratorTypeOK
    <2>2. CASE GenerateLootInSessions
      <3>1. /\ GenerateLoot(sinceTick, looters) /\ looters' = looters
            /\ looters \in looters .. MaxLooters
        BY <2>1, <2>2, GeneratorConstants DEF GenerateLootInSessions
      <3> QED
        BY <2>1, <3>1, GenerateLootProp
    <2>3. CASE AddDog
      <3>1. /\ GenerateLoot(Period, looters + 1) /\ looters' = looters + 1
            /\ looters + 1 \in looters .. MaxLooters /\ Period \in Nat
        BY <2>1, <2>3, GeneratorConstants DEF AddDog
      <3> QED
        BY <2>1, <3>1, GenerateLootProp
    <2>4. ~Pass /\ ~RemoveDog /\ ~CollectLoot
      BY <2>1 DEF Pass, RemoveDog, CollectLoot
    <2> QED
      BY <2>2, <2>3, <2>4 DEF GeneratorNext
  <1> QED
    BY <1>1, InitGenerator, NextGenerator, PTL DEF GeneratorSpec, LootLimited
=============================================================================
