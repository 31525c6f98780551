-------------------------- MODULE GameClientProofs ---------------------------
(***************************************************************************)
(* The page of any player among any players, items and requests under way: *)
(* no object of the scene is shared or doubled, what is shown is what the  *)
(* last answer said, frames never fail, and what leaks has a cause.        *)
(***************************************************************************)
EXTENDS GameClient, TLAPS

USE ClientAssumption

-----------------------------------------------------------------------------
(* The inductive invariant: first what the scene needs.                    *)

\* An item is in one place of the game.
Exclusive(g) ==
    \A p \in Players :
        /\ g.bag[p] \cap g.lost = {}
        /\ \A q \in Players \ {p} : g.bag[p] \cap g.bag[q] = {}

Sane(g) == g \in Game /\ Exclusive(g) /\ \A p \in Players \ g.in : g.bag[p] = {}

InPlay(g) == g.lost \cup UNION {g.bag[p] : p \in Players}

GamesSane ==
    /\ Sane(game) /\ Sane(desired) /\ Sane(current)
    /\ \A c \in StateSlots : Sane(stateNet[c].body)
    /\ unborn \cap InPlay(game) = {}

\* The scene has been made from the last answer; before the start it is empty.
Mirror ==
    /\ ItemsOf(lostObjects) = current.lost
    /\ lostObjects \subseteq scene
    /\ \A p \in current.in : ItemsOf(carried[p]) = current.bag[p]
    /\ started => desired = current
    /\ ~started => current = EmptyGame

Shown == ~disorder => \A p \in current.in : carried[p] \subseteq scene

\* Objects that are in use were made before the next copy.
Used == lostObjects \cup fading \cup UNION {carried[p] : p \in Players}
Numbered == \A o \in Used : o[2] < copies[o[1]]

SceneInv == TypeOK /\ GamesSane /\ OwnedOnce /\ Mirror /\ Shown /\ Numbered

-----------------------------------------------------------------------------
LEMMA EmptyGameSane == Sane(EmptyGame)
  BY DEF Sane, Exclusive, EmptyGame, Game

LEMMA CopiesAreNew ==
    ASSUME copies \in [Items -> Nat], NEW is, is \subseteq Items
    PROVE  /\ Copies(is) \subseteq Object /\ ItemsOf(Copies(is)) = is
           /\ \A o \in Copies(is) : ItemOf(o) \in is /\ o = <<ItemOf(o), copies[ItemOf(o)]>>
           /\ \A i \in is : <<i, copies[i]>> \in Copies(is)
  <1>1. \A i \in is : copies[i] \in Nat
    OBVIOUS
  <1>2. Copies(is) \subseteq Object
    BY <1>1 DEF Copies, Object
  <1>3. \A o \in Copies(is) : ItemOf(o) \in is /\ o = <<ItemOf(o), copies[ItemOf(o)]>>
    BY DEF Copies, ItemOf
  <1>4. \A i \in is : <<i, copies[i]>> \in Copies(is) /\ ItemOf(<<i, copies[i]>>) = i
    BY DEF Copies, ItemOf
  <1>5. ItemsOf(Copies(is)) = is
    BY <1>3, <1>4 DEF ItemsOf
  <1> QED
    BY <1>2, <1>3, <1>4, <1>5

LEMMA ItemsOfUnion ==
    ASSUME NEW A, NEW B
    PROVE  ItemsOf(A \cup B) = ItemsOf(A) \cup ItemsOf(B)
  BY DEF ItemsOf

LEMMA SendType ==
    ASSUME NEW S, NEW calls \in [S -> Call]
    PROVE  /\ Send(calls) \in [S -> Call]
           /\ \A c \in S : Send(calls)[c] = calls[c] \/ Send(calls)[c] = Asked
  <1>1. Asked \in Call
    BY EmptyGameSane DEF Asked, Call, Sane
  <1> QED
    BY <1>1 DEF Send

LEMMA InitScene == Init => SceneInv
  <1> SUFFICES ASSUME Init PROVE SceneInv
    OBVIOUS
  <1>1. EmptyGame \in Game /\ EmptyGame.in = {} /\ EmptyGame.lost = {} /\ EmptyGame.no = 0
        /\ \A p \in Players : EmptyGame.bag[p] = {}
    BY EmptyGameSane DEF Sane, EmptyGame
  <1>2. /\ game \in Game /\ game.lost = {} /\ \A p \in Players : game.bag[p] = {}
    BY <1>1 DEF Init, EmptyGame, Game
  <1>3. Free \in Call /\ Free.body = EmptyGame /\ Asked.body = EmptyGame
    BY <1>1 DEF Free, Asked, Call
  <1>4. /\ stateNet \in [StateSlots -> Call] /\ listNet \in [ListSlots -> Call]
        /\ \A c \in StateSlots : stateNet[c].body = EmptyGame
    <2>1. [c \in StateSlots |-> Free] \in [StateSlots -> Call] /\ [c \in ListSlots |-> Free] \in [ListSlots -> Call]
      BY <1>3
    <2> QED
      BY <1>3, <2>1, SendType DEF Init
  <1>5. TypeOK
    <2>1. /\ absent \subseteq Players /\ unborn \subseteq Items /\ page = "open"
          /\ stateLoaded = FALSE /\ playersLoaded = FALSE /\ disorder = FALSE
          /\ listed = {} /\ lostObjects = {} /\ fading = {} /\ scene = {}
          /\ desired = EmptyGame /\ current = EmptyGame
          /\ ticks \in 0 .. PlayersInterval - 1
      BY DEF Init
    <2>2. carried \in [Players -> SUBSET Object] /\ copies \in [Items -> Nat]
      BY DEF Init
    <2> QED
      BY <1>1, <1>2, <1>4, <2>1, <2>2 DEF TypeOK
  <1>6. GamesSane
    <2>1. Sane(game)
      BY <1>2 DEF Sane, Exclusive
    <2>2. InPlay(game) = {}
      BY <1>2 DEF InPlay
    <2> QED
      BY <1>4, <2>1, <2>2, EmptyGameSane DEF GamesSane, Init
  <1>7. OwnedOnce
    BY DEF Init, OwnedOnce, Keyed
  <1>8. Mirror
    BY <1>1 DEF Init, Mirror, ItemsOf, started
  <1>9. Shown
    BY <1>1 DEF Init, Shown
  <1>10. Numbered
    BY DEF Init, Numbered, Used
  <1> QED
    BY <1>5, <1>6, <1>7, <1>8, <1>9, <1>10 DEF SceneInv

-----------------------------------------------------------------------------
(* _applyDesiredState.                                                     *)

LEMMA WhereDropped ==
    ASSUME NEW g, NEW o
    PROVE  o \in Dropped(g) <=>
              \/ \E p \in g.in : o \in Before(p) /\ o \notin Kept(g, p)
              \/ o \in Abandoned(g) /\ \A p \in g.in : o \notin Taken(g, p)
  <1> DEFINE fromBags == UNION {Before(p) \ Kept(g, p) : p \in g.in}
             taken == UNION {Taken(g, p) : p \in g.in}
  <1>1. o \in fromBags <=> \E p \in g.in : o \in Before(p) /\ o \notin Kept(g, p)
    OBVIOUS
  <1>2. o \in taken <=> \E p \in g.in : o \in Taken(g, p)
    OBVIOUS
  <1>3. Dropped(g) = fromBags \cup (Abandoned(g) \ taken)
    BY DEF Dropped
  <1> HIDE DEF fromBags, taken
  <1> QED
    BY <1>1, <1>2, <1>3

\* The pieces it moves objects between.
LEMMA Pieces ==
    ASSUME SceneInv, NEW g, Sane(g)
    PROVE  /\ Abandoned(g) \subseteq lostObjects
           /\ \A p \in Players : Before(p) \subseteq carried[p]
           /\ \A p \in g.in : /\ Kept(g, p) \subseteq Before(p)
                              /\ Taken(g, p) \subseteq Abandoned(g)
                              /\ Missing(g, p) \subseteq Items
           /\ Uncovered(g) \subseteq Items
           /\ Dropped(g) \subseteq Used
           /\ Created(g) \subseteq Items
           /\ g.in \subseteq Players
  <1>1. g.in \subseteq Players /\ g.lost \subseteq Items /\ \A p \in Players : g.bag[p] \subseteq Items
    BY DEF Sane, Game
  <1>2. Abandoned(g) \subseteq lostObjects /\ \A p \in Players : Before(p) \subseteq carried[p]
    BY DEF Abandoned, Before
  <1>3. \A p \in g.in : /\ Kept(g, p) \subseteq Before(p)
                        /\ Taken(g, p) \subseteq Abandoned(g)
                        /\ Missing(g, p) \subseteq Items
    BY <1>1 DEF Kept, Taken, Missing
  <1>4. Uncovered(g) \subseteq Items
    BY <1>1 DEF Uncovered
  <1>5. Dropped(g) \subseteq Used
    <2> SUFFICES ASSUME NEW o \in Dropped(g) PROVE o \in Used
      OBVIOUS
    <2>1. o \in Abandoned(g) \/ \E p \in g.in : o \in Before(p)
      BY WhereDropped
    <2> QED
      BY <1>1, <1>2, <2>1 DEF Used
  <1>6. Created(g) \subseteq Items
    BY <1>3, <1>4 DEF Created
  <1> QED
    BY <1>1, <1>2, <1>3, <1>4, <1>5, <1>6

\* No two objects of one item are dropped at a time.
LEMMA DroppedKeyed ==
    ASSUME SceneInv, NEW g, Sane(g)
    PROVE  Keyed(Dropped(g))
  <1>i. OwnedOnce /\ Mirror /\ Exclusive(current) /\ current.in \subseteq Players
    BY DEF SceneInv, GamesSane, Sane, Game
  <1>p. g.in \subseteq Players
    BY Pieces
  <1> SUFFICES ASSUME NEW o \in Dropped(g), NEW q \in Dropped(g), ItemOf(o) = ItemOf(q)
               PROVE  o = q
    BY DEF Keyed
  <1>1. \A r \in Dropped(g) : r \in lostObjects \/ \E p \in current.in : r \in carried[p]
    <2>1. \A r \in Dropped(g) : r \in Abandoned(g) \/ \E p \in g.in : r \in Before(p)
      BY WhereDropped
    <2>2. \A p \in g.in : \A r \in Before(p) : p \in current.in /\ r \in carried[p]
      BY DEF Before
    <2> QED
      BY <2>1, <2>2 DEF Abandoned
  <1>2. \A p \in current.in : \A r \in carried[p] : ItemOf(r) \in current.bag[p]
    BY <1>i DEF Mirror, ItemsOf
  <1>3. \A r \in lostObjects : ItemOf(r) \in current.lost
    BY <1>i DEF Mirror, ItemsOf
  <1>4. \A p \in current.in : current.bag[p] \cap current.lost = {}
    BY <1>i DEF Exclusive
  <1>5. \A p, r \in current.in : p # r => current.bag[p] \cap current.bag[r] = {}
    BY <1>i DEF Exclusive
  <1>6. CASE o \in lostObjects /\ q \in lostObjects
    BY <1>6, <1>i DEF OwnedOnce, Keyed
  <1>7. CASE o \notin lostObjects \/ q \notin lostObjects
    <2>1. PICK p \in current.in : o \in carried[p] /\ q \in carried[p]
      BY <1>1, <1>2, <1>3, <1>4, <1>5, <1>7
    <2> QED
      BY <1>i, <2>1 DEF OwnedOnce, Keyed
  <1> QED
    BY <1>6, <1>7

LEMMA ApplyMirrors ==
    ASSUME SceneInv, NEW g, Sane(g), NEW ls, ApplyState(g, ls)
    PROVE  /\ ItemsOf(lostObjects') = g.lost
           /\ lostObjects' \subseteq scene'
           /\ \A p \in g.in : ItemsOf(carried'[p]) = g.bag[p]
  <1>i. copies \in [Items -> Nat] /\ lostObjects \subseteq scene
    BY DEF SceneInv, TypeOK, Mirror
  <1>p. /\ Uncovered(g) \subseteq Items /\ g.in \subseteq Players
        /\ \A p \in g.in : Missing(g, p) \subseteq Items
    BY Pieces
  <1>1. /\ lostObjects' = (lostObjects \ Abandoned(g)) \cup Copies(Uncovered(g))
        /\ scene' = scene \cup Copies(Created(g))
        /\ \A p \in g.in : carried'[p] = Kept(g, p) \cup Taken(g, p) \cup Copies(Missing(g, p))
    BY <1>p DEF ApplyState
  <1>3. ItemsOf(lostObjects') = g.lost
    <2>1. ItemsOf(lostObjects \ Abandoned(g)) = ItemsOf(lostObjects) \cap g.lost
      BY DEF ItemsOf, Abandoned
    <2>2. ItemsOf(Copies(Uncovered(g))) = g.lost \ ItemsOf(lostObjects)
      BY <1>i, <1>p, CopiesAreNew DEF Uncovered
    <2>3. ItemsOf(lostObjects') = ItemsOf(lostObjects \ Abandoned(g)) \cup ItemsOf(Copies(Uncovered(g)))
      BY <1>1, ItemsOfUnion, Zenon
    <2> QED
      BY <2>1, <2>2, <2>3
  <1>4. lostObjects' \subseteq scene'
    BY <1>i, <1>1 DEF Copies, Created
  <1>5. ASSUME NEW p \in g.in PROVE ItemsOf(carried'[p]) = g.bag[p]
    <2>1. ItemsOf(Kept(g, p)) = g.bag[p] \cap ItemsOf(Before(p))
      BY DEF ItemsOf, Kept
    <2>2. ItemsOf(Taken(g, p)) = (g.bag[p] \ ItemsOf(Before(p))) \cap ItemsOf(Abandoned(g))
      BY DEF ItemsOf, Taken
    <2>3. ItemsOf(Copies(Missing(g, p))) = (g.bag[p] \ ItemsOf(Before(p))) \ ItemsOf(Abandoned(g))
      BY <1>i, <1>p, CopiesAreNew, ItemsOfUnion DEF Missing
    <2>4. ItemsOf(carried'[p]) = (ItemsOf(Kept(g, p)) \cup ItemsOf(Taken(g, p))) \cup ItemsOf(Copies(Missing(g, p)))
      <3>1. ItemsOf(Kept(g, p) \cup Taken(g, p)) = ItemsOf(Kept(g, p)) \cup ItemsOf(Taken(g, p))
        BY ItemsOfUnion, Zenon
      <3>2. ItemsOf((Kept(g, p) \cup Taken(g, p)) \cup Copies(Missing(g, p))) =
               ItemsOf(Kept(g, p) \cup Taken(g, p)) \cup ItemsOf(Copies(Missing(g, p)))
        BY ItemsOfUnion, Zenon
      <3> QED
        BY <1>1, <3>1, <3>2
    <2> QED
      BY <2>1, <2>2, <2>3, <2>4
  <1> QED
    BY <1>3, <1>4, <1>5

\* Where an object is after an answer has been applied: where it was, handed
\* on, or new.
LEMMA Moves ==
    ASSUME SceneInv, NEW g, Sane(g), NEW ls, ApplyState(g, ls)
    PROVE  /\ \A o \in lostObjects' :
                 \/ o \in lostObjects /\ o \notin Abandoned(g)
                 \/ o \in Copies(Uncovered(g))
           /\ \A p \in g.in : \A o \in carried'[p] :
                 \/ o \in Before(p) /\ ItemOf(o) \in g.bag[p]
                 \/ o \in Taken(g, p)
                 \/ o \in Copies(Missing(g, p))
           /\ \A p \in Players \ g.in : carried'[p] = {} \/ carried'[p] = carried[p]
           /\ \A o \in fading' :
                 \/ o \in fading /\ ItemOf(o) \notin ItemsOf(Dropped(g))
                 \/ o \in Dropped(g)
  <1>1. g.in \subseteq Players
    BY Pieces
  <1> QED
    BY <1>1 DEF ApplyState, Kept

\* New objects are in no place yet.
LEMMA NewAreNew ==
    ASSUME SceneInv, NEW is, is \subseteq Items
    PROVE  Copies(is) \cap Used = {}
  <1>1. copies \in [Items -> Nat] /\ \A o \in Used : o[2] < copies[o[1]]
    BY DEF SceneInv, TypeOK, Numbered
  <1>2. \A o \in Copies(is) : o[1] \in is /\ o[2] = copies[o[1]]
    BY DEF Copies
  <1>3. \A o \in Copies(is) : copies[o[1]] \in Nat
    BY <1>1, <1>2
  <1> QED
    BY <1>1, <1>2, <1>3

LEMMA ApplyOwned ==
    ASSUME SceneInv, NEW g, Sane(g), NEW ls, ApplyState(g, ls)
    PROVE  OwnedOnce'
  <1>i. OwnedOnce /\ Mirror /\ copies \in [Items -> Nat]
    BY DEF SceneInv, TypeOK
  <1>p. /\ Uncovered(g) \subseteq Items /\ g.in \subseteq Players
        /\ Abandoned(g) \subseteq lostObjects
        /\ \A p \in Players : Before(p) \subseteq carried[p]
        /\ \A p \in g.in : Missing(g, p) \subseteq Items /\ Taken(g, p) \subseteq Abandoned(g)
        /\ Dropped(g) \subseteq Used
    BY Pieces
  <1>u. /\ lostObjects \subseteq Used /\ fading \subseteq Used
        /\ \A p \in Players : carried[p] \subseteq Used
    BY DEF Used
  <1>o. /\ Keyed(lostObjects) /\ Keyed(fading) /\ lostObjects \cap fading = {}
        /\ \A p \in Players : Keyed(carried[p]) /\ carried[p] \cap lostObjects = {} /\ carried[p] \cap fading = {}
        /\ \A p, q \in Players : p # q => carried[p] \cap carried[q] = {}
    BY <1>i DEF OwnedOnce
  <1>g. /\ \A p \in Players : g.bag[p] \cap g.lost = {}
        /\ \A p, q \in Players : p # q => g.bag[p] \cap g.bag[q] = {}
    BY DEF Sane, Exclusive
  <1>m. /\ \A o \in lostObjects' :
              \/ o \in lostObjects /\ o \notin Abandoned(g)
              \/ o \in Copies(Uncovered(g))
        /\ \A p \in g.in : \A o \in carried'[p] :
              \/ o \in Before(p) /\ ItemOf(o) \in g.bag[p]
              \/ o \in Taken(g, p)
              \/ o \in Copies(Missing(g, p))
        /\ \A p \in Players \ g.in : carried'[p] = {} \/ carried'[p] = carried[p]
        /\ \A o \in fading' :
              \/ o \in fading /\ ItemOf(o) \notin ItemsOf(Dropped(g))
              \/ o \in Dropped(g)
    BY Moves
  <1>n. /\ Copies(Uncovered(g)) \cap Used = {}
        /\ \A p \in g.in : Copies(Missing(g, p)) \cap Used = {}
    BY <1>p, NewAreNew
  <1>c. /\ \A o \in Copies(Uncovered(g)) : ItemOf(o) \in Uncovered(g) /\ o = <<ItemOf(o), copies[ItemOf(o)]>>
        /\ \A p \in g.in : \A o \in Copies(Missing(g, p)) :
              ItemOf(o) \in Missing(g, p) /\ o = <<ItemOf(o), copies[ItemOf(o)]>>
    BY <1>i, <1>p, CopiesAreNew
  <1>d. \A o : o \in Dropped(g) <=>
              \/ \E p \in g.in : o \in Before(p) /\ o \notin Kept(g, p)
              \/ o \in Abandoned(g) /\ \A p \in g.in : o \notin Taken(g, p)
    BY WhereDropped
  <1>1. Keyed(lostObjects')
    <2>1. \A o \in lostObjects : ItemOf(o) \notin Uncovered(g)
      BY DEF Uncovered, ItemsOf
    <2> QED
      BY <1>o, <1>m, <1>c, <2>1 DEF Keyed
  <1>2. Keyed(fading')
    <2>1. Keyed(Dropped(g))
      BY DroppedKeyed
    <2>2. \A o \in Dropped(g) : ItemOf(o) \in ItemsOf(Dropped(g))
      BY DEF ItemsOf
    <2> QED
      BY <1>o, <1>m, <2>1, <2>2 DEF Keyed
  <1>3. lostObjects' \cap fading' = {}
    <2> SUFFICES ASSUME NEW o \in lostObjects', o \in fading' PROVE FALSE
      OBVIOUS
    <2>1. o \in Used
      BY <1>m, <1>p, <1>u
    <2>2. o \in lostObjects /\ o \notin Abandoned(g)
      BY <1>m, <1>n, <2>1
    <2>3. o \in Dropped(g)
      BY <1>m, <1>o, <2>2
    <2> QED
      BY <1>o, <1>p, <1>d, <2>2, <2>3
  <1>4. ASSUME NEW p \in Players PROVE Keyed(carried'[p])
    <2>1. CASE p \notin g.in
      BY <1>o, <1>m, <2>1 DEF Keyed
    <2>2. CASE p \in g.in
      <3>1. \A o \in Taken(g, p) : o \in lostObjects /\ ItemOf(o) \notin ItemsOf(Before(p))
        BY <1>p, <2>2 DEF Taken
      <3>2. \A o \in Copies(Missing(g, p)) : \A q \in Before(p) \cup Abandoned(g) : ItemOf(o) # ItemOf(q)
        BY <1>c, <2>2 DEF Missing, ItemsOf
      <3>3. \A o \in Before(p) : ItemOf(o) \in ItemsOf(Before(p)) /\ o \in carried[p]
        BY <1>p DEF ItemsOf
      <3>4. \A o, q \in Copies(Missing(g, p)) : ItemOf(o) = ItemOf(q) => o = q
        BY <1>c, <2>2
      <3>5. Taken(g, p) \subseteq Abandoned(g)
        BY <1>p, <2>2
      <3> SUFFICES ASSUME NEW o \in carried'[p], NEW q \in carried'[p], ItemOf(o) = ItemOf(q)
                   PROVE  o = q
        BY DEF Keyed
      <3>6. /\ o \in Before(p) \/ o \in Taken(g, p) \/ o \in Copies(Missing(g, p))
            /\ q \in Before(p) \/ q \in Taken(g, p) \/ q \in Copies(Missing(g, p))
        BY <1>m, <2>2
      <3> QED
        BY <1>o, <3>1, <3>2, <3>3, <3>4, <3>5, <3>6 DEF Keyed
    <2> QED
      BY <2>1, <2>2
  <1>5. ASSUME NEW p \in Players, NEW o \in carried'[p], o \in lostObjects' PROVE FALSE
    <2>1. CASE p \notin g.in
      BY <1>m, <1>n, <1>o, <1>u, <1>5, <2>1
    <2>2. CASE p \in g.in
      <3>1. CASE o \in Copies(Missing(g, p))
        <4>1. o \in Copies(Uncovered(g))
          BY <1>m, <1>n, <1>u, <1>5, <2>2, <3>1
        <4>2. ItemOf(o) \in g.bag[p] /\ ItemOf(o) \in g.lost
          BY <1>c, <2>2, <3>1, <4>1 DEF Missing, Uncovered
        <4> QED
          BY <1>g, <4>2
      <3>2. CASE o \in Before(p) \/ o \in Taken(g, p)
        <4>1. o \in Used
          BY <1>p, <1>u, <2>2, <3>2
        <4>2. o \in lostObjects /\ o \notin Abandoned(g)
          BY <1>m, <1>n, <1>5, <4>1
        <4> QED
          BY <1>o, <1>p, <2>2, <3>2, <4>2
      <3> QED
        BY <1>m, <2>2, <3>1, <3>2
    <2> QED
      BY <2>1, <2>2
  <1>6. ASSUME NEW p \in Players, NEW o \in carried'[p], o \in fading' PROVE FALSE
    <2>0. o \in Used
      BY <1>m, <1>p, <1>u, <1>6
    <2>1. CASE p \notin g.in
      <3>1. o \in carried[p]
        BY <1>m, <2>1, <1>6
      <3>2. o \in Dropped(g)
        BY <1>m, <1>o, <1>6, <3>1
      <3> QED
        BY <1>d, <1>o, <1>p, <2>1, <3>1, <3>2
    <2>2. CASE p \in g.in
      <3>1. CASE o \in Before(p) /\ ItemOf(o) \in g.bag[p]
        <4>1. o \in Kept(g, p) /\ o \in carried[p]
          BY <1>p, <3>1 DEF Kept
        <4>2. o \in Dropped(g)
          BY <1>m, <1>o, <1>6, <4>1
        <4> QED
          BY <1>d, <1>o, <1>p, <4>1, <4>2
      <3>2. CASE o \in Taken(g, p)
        <4>1. o \in lostObjects
          BY <1>p, <2>2, <3>2
        <4>2. o \in Dropped(g)
          BY <1>m, <1>o, <1>6, <4>1
        <4> QED
          BY <1>d, <1>o, <1>p, <2>2, <3>2, <4>1, <4>2
      <3>3. CASE o \in Copies(Missing(g, p))
        BY <1>n, <2>0, <2>2, <3>3
      <3> QED
        BY <1>m, <2>2, <3>1, <3>2, <3>3
    <2> QED
      BY <2>1, <2>2
  <1>7. ASSUME NEW p \in Players, NEW q \in Players \ {p}, NEW o, o \in carried'[p], o \in carried'[q]
        PROVE  FALSE
    <2>1. \A r \in Players : o \in carried'[r] =>
              \/ o \in carried[r]
              \/ r \in g.in /\ o \in lostObjects /\ ItemOf(o) \in g.bag[r]
              \/ r \in g.in /\ o \notin Used /\ ItemOf(o) \in g.bag[r]
      <3> SUFFICES ASSUME NEW r \in Players, o \in carried'[r], o \notin carried[r]
                   PROVE  /\ r \in g.in /\ ItemOf(o) \in g.bag[r]
                          /\ o \in lostObjects \/ o \notin Used
        OBVIOUS
      <3>1. r \in g.in
        BY <1>m
      <3>2. CASE o \in Taken(g, r)
        BY <1>p, <3>1, <3>2 DEF Taken
      <3>3. CASE o \in Copies(Missing(g, r))
        BY <1>c, <1>n, <3>1, <3>3 DEF Missing
      <3> QED
        BY <1>m, <1>p, <3>1, <3>2, <3>3
    <2> QED
      BY <1>7, <1>g, <1>o, <1>u, <2>1
  <1> QED
    BY <1>1, <1>2, <1>3, <1>4, <1>5, <1>6, <1>7 DEF OwnedOnce

LEMMA ApplyTyped ==
    ASSUME SceneInv, NEW g, Sane(g), NEW ls, ApplyState(g, ls)
    PROVE  /\ lostObjects' \subseteq Object /\ fading' \subseteq Object /\ scene' \subseteq Object
           /\ carried' \in [Players -> SUBSET Object]
           /\ copies' \in [Items -> Nat]
           /\ current' = g
           /\ Numbered'
  <1>t. /\ copies \in [Items -> Nat] /\ scene \subseteq Object /\ Used \subseteq Object
        /\ \A p \in Players : carried[p] \subseteq Object
    BY DEF SceneInv, TypeOK, Used
  <1>p. /\ Uncovered(g) \subseteq Items /\ g.in \subseteq Players /\ Created(g) \subseteq Items
        /\ Abandoned(g) \subseteq lostObjects
        /\ \A p \in Players : Before(p) \subseteq carried[p]
        /\ \A p \in g.in : /\ Kept(g, p) \subseteq Before(p)
                           /\ Missing(g, p) \subseteq Items /\ Taken(g, p) \subseteq Abandoned(g)
        /\ Dropped(g) \subseteq Used
    BY Pieces
  <1>u. /\ lostObjects \subseteq Used /\ fading \subseteq Used
        /\ \A p \in Players : carried[p] \subseteq Used
    BY DEF Used
  <1>n. \A is \in SUBSET Items : Copies(is) \subseteq Object
    BY <1>t, CopiesAreNew
  <1>1. /\ lostObjects' = (lostObjects \ Abandoned(g)) \cup Copies(Uncovered(g))
        /\ carried' = [p \in Players |->
               IF p \in g.in THEN Kept(g, p) \cup Taken(g, p) \cup Copies(Missing(g, p))
               ELSE IF p \in ls THEN carried[p] ELSE {}]
        /\ fading' \subseteq fading \cup Dropped(g)
        /\ scene' = scene \cup Copies(Created(g))
        /\ copies' = [i \in Items |-> IF i \in Created(g) THEN copies[i] + 1 ELSE copies[i]]
        /\ current' = g
    BY DEF ApplyState
  <1>2. /\ lostObjects' \subseteq Object /\ fading' \subseteq Object /\ scene' \subseteq Object
        /\ copies' \in [Items -> Nat]
    BY <1>1, <1>t, <1>p, <1>u, <1>n
  <1>3. ASSUME NEW p \in Players PROVE carried'[p] \subseteq Used \cup Copies(Created(g)) /\ carried'[p] \subseteq Object
    <2>1. CASE p \in g.in
      <3>1. Missing(g, p) \subseteq Created(g)
        BY <2>1 DEF Created
      <3>2. Copies(Missing(g, p)) \subseteq Copies(Created(g))
        BY <3>1 DEF Copies
      <3> QED
        BY <1>1, <1>p, <1>u, <1>t, <1>n, <2>1, <3>2
    <2>2. CASE p \notin g.in
      BY <1>1, <1>u, <1>t, <2>2
    <2> QED
      BY <2>1, <2>2
  <1>4. carried' \in [Players -> SUBSET Object]
    BY <1>1, <1>3
  <1>5. Used' \subseteq Used \cup Copies(Created(g))
    <2>1. lostObjects' \subseteq Used \cup Copies(Created(g))
      <3>1. Copies(Uncovered(g)) \subseteq Copies(Created(g))
        BY DEF Copies, Created
      <3> QED
        BY <1>1, <1>u, <3>1
    <2>2. fading' \subseteq Used
      BY <1>1, <1>u, <1>p
    <2> QED
      BY <1>3, <2>1, <2>2 DEF Used
  <1>6. Numbered'
    <2> SUFFICES ASSUME NEW o \in Used' PROVE o[2] < copies'[o[1]]
      BY DEF Numbered
    <2>1. CASE o \in Used
      <3>1. o[1] \in Items /\ o[2] \in Nat /\ o[2] < copies[o[1]] /\ copies[o[1]] \in Nat
        BY <1>t, <2>1 DEF Object, SceneInv, Numbered
      <3> QED
        BY <1>1, <3>1
    <2>2. CASE o \in Copies(Created(g))
      <3>1. o[1] \in Created(g) /\ o[2] = copies[o[1]]
        BY <2>2 DEF Copies
      <3>2. copies[o[1]] \in Nat /\ copies'[o[1]] = copies[o[1]] + 1
        BY <1>1, <1>t, <1>p, <3>1
      <3> QED
        BY <3>1, <3>2
    <2> QED
      BY <1>5, <2>1, <2>2
  <1> QED
    BY <1>1, <1>2, <1>4, <1>6

-----------------------------------------------------------------------------
(* The server's steps.                                                     *)

LEMMA InPlayIs ==
    ASSUME NEW g, NEW i
    PROVE  i \in InPlay(g) <=> i \in g.lost \/ \E p \in Players : i \in g.bag[p]
  BY DEF InPlay

\* Nobody comes back, an item in a bag stays in the bag while it is in play,
\* and an item that went is not seen again.
LEMMA ServerMoves ==
    ASSUME SceneInv, ServerStep
    PROVE  /\ Sane(game') /\ game'.no = game.no + 1
           /\ absent' \subseteq absent /\ unborn' \subseteq unborn
           /\ \A p \in game'.in : p \in game.in \/ p \in absent \ absent'
           /\ \A i \in InPlay(game') : i \in InPlay(game) \/ i \in unborn \ unborn'
           /\ \A p \in Players : game.bag[p] \cap InPlay(game') \subseteq game'.bag[p]
           /\ ClientIdle
  <1>i. /\ game \in Game /\ game.no \in Nat /\ game.in \subseteq Players /\ game.lost \subseteq Items
        /\ game.bag \in [Players -> SUBSET Items]
        /\ \A p \in Players : game.bag[p] \cap game.lost = {}
        /\ \A p, q \in Players : p # q => game.bag[p] \cap game.bag[q] = {}
        /\ \A p \in Players \ game.in : game.bag[p] = {}
        /\ absent \subseteq Players /\ unborn \subseteq Items
        /\ \A i \in unborn : i \notin InPlay(game)
    BY DEF SceneInv, TypeOK, GamesSane, Sane, Exclusive, Game
  <1>u. \A i \in unborn : i \notin game.lost /\ \A p \in Players : i \notin game.bag[p]
    BY <1>i, InPlayIs
  <1>s. ASSUME NEW in, in \subseteq Players, NEW lost, lost \subseteq Items,
               NEW bag \in [Players -> SUBSET Items],
               game' = [no |-> game.no + 1, in |-> in, bag |-> bag, lost |-> lost],
               \A p \in Players : bag[p] \cap lost = {},
               \A p, q \in Players : p # q => bag[p] \cap bag[q] = {},
               \A p \in Players \ in : bag[p] = {}
        PROVE  Sane(game') /\ game'.no = game.no + 1
    BY <1>i, <1>s DEF Sane, Exclusive, Game
  <1>r. game = [no |-> game.no, in |-> game.in, bag |-> game.bag, lost |-> game.lost]
    BY <1>i DEF Game
  <1>1. ASSUME NEW p \in Players, Joins(p)
        PROVE  /\ game' = [no |-> game.no + 1, in |-> game.in \cup {p}, bag |-> game.bag, lost |-> game.lost]
               /\ absent' = absent \ {p} /\ p \in absent /\ unborn' = unborn /\ ClientIdle
    BY <1>1, <1>r DEF Joins, Becomes
  <1>2. ASSUME NEW i \in Items, Appears(i)
        PROVE  /\ game' = [no |-> game.no + 1, in |-> game.in, bag |-> game.bag, lost |-> game.lost \cup {i}]
               /\ absent' = absent /\ i \in unborn /\ unborn' = unborn \ {i} /\ ClientIdle
    BY <1>2, <1>r DEF Appears, Becomes
  <1>3. ASSUME NEW p \in Players, NEW i \in Items, PicksUp(p, i)
        PROVE  /\ game' = [no |-> game.no + 1, in |-> game.in,
                           bag |-> [game.bag EXCEPT ![p] = @ \cup {i}], lost |-> game.lost \ {i}]
               /\ p \in game.in /\ i \in game.lost
               /\ absent' = absent /\ unborn' = unborn /\ ClientIdle
    BY <1>3, <1>r DEF PicksUp, Becomes
  <1>4. ASSUME NEW p \in Players, HandsIn(p)
        PROVE  /\ game' = [no |-> game.no + 1, in |-> game.in,
                           bag |-> [game.bag EXCEPT ![p] = {}], lost |-> game.lost]
               /\ absent' = absent /\ unborn' = unborn /\ ClientIdle
    BY <1>4, <1>r DEF HandsIn, Becomes
  <1>5. ASSUME NEW p \in Players, Retires(p)
        PROVE  /\ game' = [no |-> game.no + 1, in |-> game.in \ {p},
                           bag |-> [game.bag EXCEPT ![p] = {}], lost |-> game.lost]
               /\ absent' = absent /\ unborn' = unborn /\ ClientIdle
    BY <1>5, <1>r DEF Retires, Becomes
  <1>6. CASE \E p \in Players : Joins(p)
    <2>1. PICK p \in Players : Joins(p)
      BY <1>6
    <2>2. Sane(game') /\ game'.no = game.no + 1
      BY <1>1, <1>i, <1>s, <2>1
    <2> QED
      BY <1>1, <1>i, <2>1, <2>2, InPlayIs
  <1>7. CASE \E i \in Items : Appears(i)
    <2>1. PICK i \in Items : Appears(i)
      BY <1>7
    <2>2. Sane(game') /\ game'.no = game.no + 1
      BY <1>2, <1>i, <1>u, <1>s, <2>1
    <2> QED
      BY <1>2, <1>i, <1>u, <2>1, <2>2, InPlayIs
  <1>8. CASE \E p \in Players, i \in Items : PicksUp(p, i)
    <2>1. PICK p \in Players, i \in Items : PicksUp(p, i)
      BY <1>8
    <2>2. Sane(game') /\ game'.no = game.no + 1
      BY <1>3, <1>i, <1>s, <2>1
    <2> QED
      BY <1>3, <1>i, <2>1, <2>2, InPlayIs
  <1>9. CASE \E p \in Players : HandsIn(p)
    <2>1. PICK p \in Players : HandsIn(p)
      BY <1>9
    <2>2. Sane(game') /\ game'.no = game.no + 1
      BY <1>4, <1>i, <1>s, <2>1
    <2> QED
      BY <1>4, <1>i, <2>1, <2>2, InPlayIs
  <1>10. CASE \E p \in Players : Retires(p)
    <2>1. PICK p \in Players : Retires(p)
      BY <1>10
    <2>2. Sane(game') /\ game'.no = game.no + 1
      BY <1>5, <1>i, <1>s, <2>1
    <2> QED
      BY <1>5, <1>i, <2>1, <2>2, InPlayIs
  <1> QED
    BY <1>6, <1>7, <1>8, <1>9, <1>10 DEF ServerStep

LEMMA ServerScene ==
    ASSUME SceneInv, ServerStep
    PROVE  SceneInv'
  <1>1. /\ Sane(game') /\ absent' \subseteq absent /\ unborn' \subseteq unborn
        /\ \A i \in InPlay(game') : i \in InPlay(game) \/ i \in unborn \ unborn'
        /\ ClientIdle
    BY ServerMoves
  <1>2. TypeOK'
    BY <1>1 DEF SceneInv, TypeOK, Sane, ClientIdle, net, loading, view
  <1>3. GamesSane'
    <2>1. unborn' \cap InPlay(game') = {}
      BY <1>1 DEF SceneInv, GamesSane
    <2>2. (unborn \cap InPlay(game))' = {}
      BY <2>1 DEF InPlay
    <2> QED
      BY <1>1, <2>2 DEF SceneInv, GamesSane, ClientIdle, net, view, Sane, Exclusive
  <1>4. OwnedOnce' /\ Mirror' /\ Shown' /\ Numbered'
    BY <1>1 DEF SceneInv, OwnedOnce, Mirror, Shown, Numbered, Used, ClientIdle, view, loading, started, Keyed
  <1> QED
    BY <1>2, <1>3, <1>4 DEF SceneInv

-----------------------------------------------------------------------------
(* The requests.                                                           *)

LEMMA NetMoves ==
    ASSUME SceneInv, NetStep
    PROVE  /\ stateNet' \in [StateSlots -> Call] /\ listNet' \in [ListSlots -> Call]
           /\ \A c \in StateSlots : stateNet'[c] \in {stateNet[c], Free, Answered(game)}
           /\ UNCHANGED <<server, page, loading, ticks, view, listed, disorder>>
  <1>i. /\ stateNet \in [StateSlots -> Call] /\ listNet \in [ListSlots -> Call]
        /\ game \in Game
    BY DEF SceneInv, TypeOK
  <1>c. /\ Free \in Call /\ Denied \in Call /\ Answered(game) \in Call /\ Answered(ListOf(game)) \in Call
    <2>1. EmptyGame \in Game
      BY EmptyGameSane DEF Sane
    <2>2. ListOf(game) \in Game
      BY <1>i, <2>1 DEF ListOf, Game
    <2> QED
      BY <1>i, <2>1, <2>2 DEF Free, Denied, Answered, Call
  <1>1. ASSUME NEW c \in StateSlots, AnswerState(c)
        PROVE  /\ stateNet' \in [StateSlots -> Call]
               /\ \A d \in StateSlots : stateNet'[d] \in {stateNet[d], Free, Answered(game)}
               /\ UNCHANGED <<server, listNet, page, loading, ticks, view, listed, disorder>>
    BY <1>1, <1>i, <1>c DEF AnswerState
  <1>2. ASSUME NEW c \in StateSlots, StateFails(c)
        PROVE  /\ stateNet' \in [StateSlots -> Call]
               /\ \A d \in StateSlots : stateNet'[d] \in {stateNet[d], Free, Answered(game)}
               /\ UNCHANGED <<server, listNet, page, loading, ticks, view, listed, disorder>>
    BY <1>2, <1>i, <1>c DEF StateFails
  <1>3. ASSUME NEW c \in ListSlots, AnswerList(c)
        PROVE  /\ listNet' \in [ListSlots -> Call]
               /\ UNCHANGED <<server, stateNet, page, loading, ticks, view, listed, disorder>>
    BY <1>3, <1>i, <1>c DEF AnswerList
  <1>4. ASSUME NEW c \in ListSlots, ListFails(c)
        PROVE  /\ listNet' \in [ListSlots -> Call]
               /\ UNCHANGED <<server, stateNet, page, loading, ticks, view, listed, disorder>>
    BY <1>4, <1>i, <1>c DEF ListFails
  <1>5. CASE \E c \in StateSlots : AnswerState(c) \/ StateFails(c)
    BY <1>i, <1>1, <1>2, <1>5
  <1>6. CASE \E c \in ListSlots : AnswerList(c) \/ ListFails(c)
    BY <1>i, <1>3, <1>4, <1>6
  <1> QED
    BY <1>5, <1>6 DEF NetStep

\* Only requests change.
LEMMA RequestsOnly ==
    ASSUME SceneInv,
           stateNet' \in [StateSlots -> Call], listNet' \in [ListSlots -> Call],
           \A c \in StateSlots : Sane(stateNet'[c].body),
           page' \in {"open", "left", "broken"},
           UNCHANGED <<server, loading, ticks, view, listed, disorder>>
    PROVE  SceneInv'
  <1>1. TypeOK'
    BY DEF SceneInv, TypeOK, server, loading, view
  <1>2. GamesSane'
    BY DEF SceneInv, GamesSane, Sane, Exclusive, InPlay, server, view
  <1>3. OwnedOnce' /\ Mirror' /\ Shown' /\ Numbered'
    BY DEF SceneInv, OwnedOnce, Mirror, Shown, Numbered, Used, view, loading, started, Keyed
  <1> QED
    BY <1>1, <1>2, <1>3 DEF SceneInv

LEMMA NetScene ==
    ASSUME SceneInv, NetStep
    PROVE  SceneInv'
  <1>1. /\ stateNet' \in [StateSlots -> Call] /\ listNet' \in [ListSlots -> Call]
        /\ \A c \in StateSlots : stateNet'[c] \in {stateNet[c], Free, Answered(game)}
        /\ UNCHANGED <<server, page, loading, ticks, view, listed, disorder>>
    BY NetMoves
  <1>2. Sane(Free.body) /\ Sane(Answered(game).body) /\ \A c \in StateSlots : Sane(stateNet[c].body)
    BY EmptyGameSane DEF Free, Answered, SceneInv, GamesSane
  <1>3. \A c \in StateSlots : Sane(stateNet'[c].body)
    BY <1>1, <1>2
  <1>4. page' \in {"open", "left", "broken"}
    BY <1>1 DEF SceneInv, TypeOK
  <1> QED
    BY <1>1, <1>3, <1>4, RequestsOnly

LEMMA DeniedScene ==
    ASSUME SceneInv, NEW c \in ListSlots, ListDenied(c)
    PROVE  SceneInv'
  <1>1. Free \in Call
    BY EmptyGameSane DEF Free, Call, Sane
  <1>2. listNet' \in [ListSlots -> Call]
    BY <1>1 DEF SceneInv, TypeOK, ListDenied
  <1>3. UNCHANGED <<server, stateNet, loading, ticks, view, listed, disorder>> /\ page' = "left"
    BY DEF ListDenied
  <1>4. stateNet' \in [StateSlots -> Call] /\ \A d \in StateSlots : Sane(stateNet'[d].body)
    BY <1>3 DEF SceneInv, TypeOK, GamesSane
  <1> QED
    BY <1>2, <1>3, <1>4, RequestsOnly

-----------------------------------------------------------------------------
(* The callbacks.                                                          *)

\* Applying an answer keeps the scene whole, if the answer is the state
\* desired and both pieces are there.
LEMMA ApplyScene ==
    ASSUME SceneInv, NEW g, Sane(g), NEW ls, ApplyState(g, ls),
           desired' = g, started', UNCHANGED server,
           stateNet' \in [StateSlots -> Call], listNet' \in [ListSlots -> Call],
           \A c \in StateSlots : Sane(stateNet'[c].body),
           stateLoaded' \in BOOLEAN, playersLoaded' \in BOOLEAN,
           listed' \subseteq Players, UNCHANGED <<page, ticks>>
    PROVE  SceneInv'
  <1>1. /\ lostObjects' \subseteq Object /\ fading' \subseteq Object /\ scene' \subseteq Object
        /\ carried' \in [Players -> SUBSET Object]
        /\ copies' \in [Items -> Nat]
        /\ current' = g
        /\ Numbered'
    BY ApplyTyped
  <1>2. OwnedOnce'
    BY ApplyOwned
  <1>3. /\ ItemsOf(lostObjects') = g.lost
        /\ lostObjects' \subseteq scene'
        /\ \A p \in g.in : ItemsOf(carried'[p]) = g.bag[p]
    BY ApplyMirrors
  <1>4. disorder' \in BOOLEAN
    BY DEF ApplyState, SceneInv, TypeOK
  <1>5. TypeOK'
    BY <1>1, <1>4 DEF TypeOK, SceneInv, server, Sane
  <1>6. GamesSane'
    BY <1>1 DEF SceneInv, GamesSane, server, Sane, Exclusive, InPlay
  <1>7. Mirror'
    BY <1>1, <1>3 DEF Mirror, ItemsOf, ItemOf
  <1>8. Shown'
    <2> SUFFICES ASSUME ~disorder', NEW p \in g.in, NEW o \in carried'[p]
                 PROVE  o \in scene'
      BY <1>1 DEF Shown
    <2>1. ~disorder /\ scene' = scene \cup Copies(Created(g))
      BY DEF ApplyState
    <2>2. CASE o \in Before(p)
      <3>1. p \in current.in /\ o \in carried[p]
        BY <2>2 DEF Before
      <3> QED
        BY <2>1, <3>1 DEF SceneInv, Shown
    <2>3. CASE o \in Taken(g, p)
      BY <2>1, <2>3 DEF Taken, Abandoned, SceneInv, Mirror
    <2>4. CASE o \in Copies(Missing(g, p))
      <3>1. Missing(g, p) \subseteq Created(g)
        BY DEF Created
      <3> QED
        BY <2>1, <2>4, <3>1 DEF Copies
    <2> QED
      BY <2>2, <2>3, <2>4, Moves
  <1> QED
    BY <1>1, <1>2, <1>5, <1>6, <1>7, <1>8 DEF SceneInv

LEMMA Freed ==
    ASSUME NEW S, NEW calls \in [S -> Call], NEW c \in S
    PROVE  /\ [calls EXCEPT ![c] = Free] \in [S -> Call]
           /\ \A d \in S : [calls EXCEPT ![c] = Free][d] \in {calls[d], Free}
  <1>1. Free \in Call
    BY EmptyGameSane DEF Free, Call, Sane
  <1> QED
    BY <1>1

LEMMA StateDoneScene ==
    ASSUME SceneInv, NEW c \in StateSlots, StateDone(c)
    PROVE  SceneInv'
  <1> DEFINE g == stateNet[c].body
  <1>i. /\ stateNet \in [StateSlots -> Call] /\ listNet \in [ListSlots -> Call]
        /\ listed \subseteq Players /\ playersLoaded \in BOOLEAN
    BY DEF SceneInv, TypeOK
  <1>1. Sane(g)
    BY DEF SceneInv, GamesSane
  <1>2. /\ stateNet' = [stateNet EXCEPT ![c] = Free] /\ desired' = g /\ stateLoaded' = TRUE
        /\ UNCHANGED <<server, listNet, page, playersLoaded, ticks, listed>>
    BY DEF StateDone
  <1>3. /\ stateNet' \in [StateSlots -> Call]
        /\ \A d \in StateSlots : stateNet'[d] \in {stateNet[d], Free}
    BY <1>i, <1>2, Freed
  <1>4. \A d \in StateSlots : Sane(stateNet'[d].body)
    BY <1>3, EmptyGameSane DEF SceneInv, GamesSane, Free
  <1>5. CASE playersLoaded
    <2>1. ApplyState(g, listed)
      BY <1>5 DEF StateDone
    <2>2. started'
      BY <1>2, <1>5 DEF started
    <2> HIDE DEF g
    <2> QED
      BY <1>i, <1>1, <1>2, <1>3, <1>4, <2>1, <2>2, ApplyScene
  <1>6. CASE ~playersLoaded
    <2>1. NothingApplied /\ UNCHANGED scene
      BY <1>6 DEF StateDone
    <2>2. TypeOK'
      BY <1>1, <1>2, <1>3, <2>1 DEF SceneInv, TypeOK, Sane, server, NothingApplied
    <2>3. GamesSane'
      BY <1>1, <1>2, <1>4, <2>1 DEF SceneInv, GamesSane, server, NothingApplied, Sane, Exclusive, InPlay
    <2>4. Mirror'
      BY <1>2, <1>6, <2>1 DEF SceneInv, Mirror, started, NothingApplied, ItemsOf
    <2>5. OwnedOnce' /\ Shown' /\ Numbered'
      BY <2>1 DEF SceneInv, OwnedOnce, Shown, Numbered, Used, NothingApplied, Keyed
    <2> QED
      BY <2>2, <2>3, <2>4, <2>5 DEF SceneInv
  <1> QED
    BY <1>i, <1>5, <1>6

LEMMA ListDoneScene ==
    ASSUME SceneInv, NEW c \in ListSlots, ListDone(c)
    PROVE  SceneInv'
  <1> DEFINE ls == listNet[c].body.in
  <1>i. /\ stateNet \in [StateSlots -> Call] /\ listNet \in [ListSlots -> Call]
        /\ stateLoaded \in BOOLEAN /\ playersLoaded \in BOOLEAN
        /\ \A d \in StateSlots : Sane(stateNet[d].body)
    BY DEF SceneInv, TypeOK, GamesSane
  <1>1. ls \subseteq Players
    BY <1>i DEF Call, Game
  <1>2. /\ listNet' = [listNet EXCEPT ![c] = Free] /\ listed' = ls /\ playersLoaded' = TRUE
        /\ UNCHANGED <<server, stateNet, page, stateLoaded, ticks, desired>>
    BY DEF ListDone
  <1>3. listNet' \in [ListSlots -> Call] /\ stateNet' \in [StateSlots -> Call]
    BY <1>i, <1>2, Freed
  <1>4. \A d \in StateSlots : Sane(stateNet'[d].body)
    BY <1>i, <1>2
  <1>5. CASE stateLoaded /\ ~playersLoaded
    <2>1. ApplyState(desired, ls)
      BY <1>5 DEF ListDone
    <2>2. started' /\ Sane(desired)
      BY <1>2, <1>5 DEF started, SceneInv, GamesSane
    <2> HIDE DEF ls
    <2> QED
      BY <1>i, <1>1, <1>2, <1>3, <1>4, <2>1, <2>2, ApplyScene
  <1>6. CASE ~(stateLoaded /\ ~playersLoaded)
    <2>1. /\ scene' = scene \ Deleted(ls)
          /\ carried' = [p \in Players |-> IF p \in ls \cup current.in THEN carried[p] ELSE {}]
          /\ disorder' = (disorder \/ (listed \ ls) \cap current.in # {})
          /\ UNCHANGED <<current, lostObjects, fading, copies>>
      BY <1>6 DEF ListDone
    <2>i. /\ TypeOK /\ GamesSane /\ OwnedOnce /\ Mirror /\ Shown /\ Numbered
          /\ current.in \subseteq Players /\ listed \subseteq Players
      BY DEF SceneInv, TypeOK, Game
    <2> HIDE DEF ls
    <2>2. \A p \in Players : carried'[p] = carried[p] \/ carried'[p] = {}
      BY <2>1
    <2>3. \A p \in current.in : carried'[p] = carried[p]
      BY <2>1, <2>i
    <2>4. \A o \in Deleted(ls) : \E p \in listed \ ls : o \in carried[p]
      BY DEF Deleted
    <2>5. TypeOK'
      <3>1. carried' \in [Players -> SUBSET Object]
        BY <2>1, <2>i DEF TypeOK
      <3> QED
        BY <1>1, <1>2, <1>3, <2>1, <2>i, <3>1 DEF TypeOK, server
    <2>6. GamesSane'
      BY <1>2, <2>1, <2>i DEF GamesSane, server, Sane, Exclusive, InPlay
    <2>7. OwnedOnce'
      BY <2>1, <2>2, <2>i DEF OwnedOnce, Keyed
    <2>8. Mirror'
      <3>1. lostObjects \cap Deleted(ls) = {}
        BY <2>4, <2>i DEF OwnedOnce
      <3>2. ItemsOf(lostObjects)' = current.lost' /\ lostObjects' \subseteq scene'
        BY <2>1, <2>i, <3>1 DEF Mirror, ItemsOf
      <3>3. \A p \in current.in : ItemsOf(carried'[p]) = current.bag[p]
        BY <2>3, <2>i DEF Mirror
      <3>4. started' <=> started
        BY <1>2, <1>6, <1>i DEF started
      <3> QED
        BY <1>2, <2>1, <2>i, <3>2, <3>3, <3>4 DEF Mirror, ItemsOf
    <2>9. Shown'
      <3> SUFFICES ASSUME ~disorder', NEW p \in current.in, NEW o \in carried[p]
                   PROVE  o \in scene'
        BY <2>1, <2>3 DEF Shown
      <3>1. o \in scene /\ p \notin listed \ ls
        BY <2>1, <2>i DEF Shown
      <3>2. o \notin Deleted(ls)
        BY <2>4, <2>i, <3>1 DEF OwnedOnce
      <3> QED
        BY <2>1, <3>1, <3>2
    <2>10. Numbered'
      <3>1. Used' \subseteq Used
        BY <2>1, <2>2 DEF Used
      <3> QED
        BY <2>1, <2>i, <3>1 DEF Numbered
    <2> QED
      BY <2>5, <2>6, <2>7, <2>8, <2>9, <2>10 DEF SceneInv
  <1> QED
    BY <1>5, <1>6

-----------------------------------------------------------------------------
(* A frame: it finds every player of the desired state in the current one. *)

LEMMA FrameMoves ==
    ASSUME SceneInv, Frame
    PROVE  /\ UNCHANGED page
           /\ \E expired \in SUBSET fading : fading' = fading \ expired /\ scene' = scene \ expired
           /\ stateNet' \in [StateSlots -> Call] /\ listNet' \in [ListSlots -> Call]
           /\ \A c \in StateSlots : stateNet'[c] \in {stateNet[c], Asked}
           /\ ticks' \in 0 .. PlayersInterval - 1
           /\ UNCHANGED <<server, loading, desired, current, listed, lostObjects, carried, copies, disorder>>
  <1>1. Readable
    BY DEF Frame, SceneInv, Mirror, Readable
  <1>2. UNCHANGED page /\ \E expired \in SUBSET fading : fading' = fading \ expired /\ scene' = scene \ expired
    BY <1>1 DEF Frame, Faded
  <1>3. stateNet \in [StateSlots -> Call] /\ listNet \in [ListSlots -> Call] /\ ticks \in Nat
    BY DEF SceneInv, TypeOK
  <1>4. /\ stateNet' = Send(stateNet) /\ listNet' \in {listNet, Send(listNet)}
        /\ ticks' = (ticks + 1) % PlayersInterval
        /\ UNCHANGED <<server, loading, desired, current, listed, lostObjects, carried, copies, disorder>>
    BY DEF Frame
  <1>5. ticks' \in 0 .. PlayersInterval - 1
    BY <1>3, <1>4
  <1> QED
    BY <1>2, <1>3, <1>4, <1>5, SendType

LEMMA FrameScene ==
    ASSUME SceneInv, Frame
    PROVE  SceneInv'
  <1>1. /\ UNCHANGED page
        /\ stateNet' \in [StateSlots -> Call] /\ listNet' \in [ListSlots -> Call]
        /\ \A c \in StateSlots : stateNet'[c] \in {stateNet[c], Asked}
        /\ ticks' \in 0 .. PlayersInterval - 1
        /\ UNCHANGED <<server, loading, desired, current, listed, lostObjects, carried, copies, disorder>>
    BY FrameMoves
  <1>2. PICK expired \in SUBSET fading : fading' = fading \ expired /\ scene' = scene \ expired
    BY FrameMoves
  <1>i. TypeOK /\ GamesSane /\ OwnedOnce /\ Mirror /\ Shown /\ Numbered /\ current.in \subseteq Players
    BY DEF SceneInv, TypeOK, Game
  <1>3. TypeOK'
    BY <1>1, <1>2, <1>i DEF TypeOK, server, loading
  <1>4. GamesSane'
    <2>1. \A c \in StateSlots : Sane(stateNet'[c].body)
      BY <1>1, <1>i, EmptyGameSane DEF GamesSane, Asked
    <2> QED
      BY <1>1, <1>i, <2>1 DEF GamesSane, server, Sane, Exclusive, InPlay
  <1>5. OwnedOnce' /\ Mirror' /\ Shown'
    BY <1>1, <1>2, <1>i DEF OwnedOnce, Keyed, Mirror, Shown, loading, started, ItemsOf
  <1>6. Numbered'
    <2>1. Used' \subseteq Used
      BY <1>1, <1>2 DEF Used
    <2> QED
      BY <1>1, <1>i, <2>1 DEF Numbered
  <1> QED
    BY <1>3, <1>4, <1>5, <1>6 DEF SceneInv

LEMMA StutterScene ==
    ASSUME SceneInv, UNCHANGED vars
    PROVE  SceneInv'
  <1>1. /\ UNCHANGED <<server, loading, ticks, view, listed, disorder>>
        /\ stateNet' = stateNet /\ listNet' = listNet /\ page' = page
    BY DEF vars, net
  <1>2. /\ stateNet' \in [StateSlots -> Call] /\ listNet' \in [ListSlots -> Call]
        /\ \A c \in StateSlots : Sane(stateNet'[c].body)
        /\ page' \in {"open", "left", "broken"}
    BY <1>1 DEF SceneInv, TypeOK, GamesSane
  <1> QED
    BY <1>1, <1>2, RequestsOnly

LEMMA NextScene == SceneInv /\ [Next]_vars => SceneInv'
  BY ServerScene, NetScene, StateDoneScene, ListDoneScene, DeniedScene, FrameScene, StutterScene
     DEF Next, ClientStep

THEOREM SceneHolds == Spec => []SceneInv
  BY InitScene, NextScene, PTL DEF Spec

\* Every variable keeps the shape the code gives it.
THEOREM TypeCorrect == Spec => []TypeOK
  <1>1. SceneInv => TypeOK
    BY DEF SceneInv
  <1> QED
    BY <1>1, SceneHolds, PTL

\* No object of the scene belongs to two places, and no place has two objects
\* for one item, in whatever order the answers of updateState and syncPlayers
\* come.
THEOREM ObjectsAreOwnedOnce == Spec => []OwnedOnce
  <1>1. SceneInv => OwnedOnce
    BY DEF SceneInv
  <1> QED
    BY <1>1, SceneHolds, PTL

\* _applyDesiredState leaves an object for exactly the items of the answer, on
\* the map and in the bags.
THEOREM SceneMirrorsState == Spec => []MirrorsState
  <1>1. SceneInv => MirrorsState
    BY DEF SceneInv, Mirror, MirrorsState
  <1> QED
    BY <1>1, SceneHolds, PTL

\* The loot of a player with an actor is visible, unless a list was overtaken.
THEOREM BagsAreShown == Spec => []BagsShown
  <1>1. SceneInv => BagsShown
    BY DEF SceneInv, Shown, BagsShown
  <1> QED
    BY <1>1, SceneHolds, PTL

\* _interpolateState finds every player it looks up: no exception ends the
\* frames.
NeverBroken == page # "broken"
THEOREM FramesGoOn == Spec => []NeverBroken
  <1>1. Init => NeverBroken
    BY DEF Init, NeverBroken
  <1>2. SceneInv /\ NeverBroken /\ [Next]_vars => NeverBroken'
    <2> SUFFICES ASSUME SceneInv, NeverBroken, [Next]_vars PROVE NeverBroken'
      OBVIOUS
    <2>1. CASE ServerStep
      BY <2>1, ServerMoves DEF ClientIdle, NeverBroken
    <2>2. CASE NetStep
      BY <2>2, NetMoves DEF NeverBroken
    <2>3. CASE Frame
      BY <2>3, FrameMoves DEF NeverBroken
    <2>4. CASE \E c \in StateSlots : StateDone(c)
      BY <2>4 DEF StateDone, NeverBroken
    <2>5. CASE \E c \in ListSlots : ListDone(c) \/ ListDenied(c)
      BY <2>5 DEF ListDone, ListDenied, NeverBroken
    <2>6. CASE UNCHANGED vars
      BY <2>6 DEF vars, NeverBroken
    <2> QED
      BY <2>1, <2>2, <2>3, <2>4, <2>5, <2>6 DEF Next, ClientStep
  <1> QED
    BY <1>1, <1>2, SceneHolds, PTL DEF Spec

-----------------------------------------------------------------------------
(* What leaks has a cause.  For this the games that the page may still     *)
(* show must tell one story: whoever is in an earlier and in a later one   *)
(* is in all between them, and so is what is in play.                      *)

Seen == {game, desired, current} \cup {stateNet[c].body : c \in StateSlots}

Between(b, a, c) ==
    /\ a.in \cap c.in \subseteq b.in
    /\ \A i \in InPlay(a) : i \in InPlay(c) => i \in InPlay(b)

\* What is in a bag leaves it only for good.
StaysInBag(a, b) == \A p \in Players : a.bag[p] \cap InPlay(b) \subseteq b.bag[p]

Chronicle(seen) ==
    /\ \A a \in seen :
          /\ a.no <= game.no
          /\ absent \cap a.in = {}
          /\ \A i \in unborn : i \notin InPlay(a)
    /\ \A a, b \in seen : a.no <= b.no => StaysInBag(a, b)
    /\ \A a, b, c \in seen :
          b # EmptyGame /\ a.no <= b.no /\ b.no <= c.no => Between(b, a, c)

Answers ==
    /\ game # EmptyGame
    /\ stateLoaded => desired # EmptyGame
    /\ \A c \in StateSlots : stateNet[c].phase = "answered" => stateNet[c].body # EmptyGame

\* Neither comes back in a game that may still be shown.
GoneFor(p) == p \notin absent /\ \A b \in Seen : current.no <= b.no => p \notin b.in
OutOfPlay(i) == i \notin unborn /\ \A b \in Seen : current.no <= b.no => i \notin InPlay(b)

Blank ==
    /\ lostObjects = {} /\ fading = {} /\ scene = {}
    /\ \A p \in Players : carried[p] = {}

Causes ==
    /\ \A p \in Players : carried[p] # {} => p \in listed \cup current.in
    /\ ~started => Blank
    /\ ~disorder =>
          /\ scene \subseteq Used
          /\ \A p \in Players : carried[p] # {} /\ p \notin current.in => GoneFor(p)
          /\ \A o \in fading : OutOfPlay(ItemOf(o))

Story == Chronicle(Seen) /\ Answers /\ Causes

LEMMA EmptyInPlay ==
    /\ EmptyGame.in = {} /\ EmptyGame.no = 0 /\ \A i : i \notin InPlay(EmptyGame)
    /\ \A p \in Players : EmptyGame.bag[p] = {}
  BY InPlayIs DEF EmptyGame

LEMMA SeenSane == SceneInv => \A a \in Seen : Sane(a) /\ a.no \in Nat
  BY DEF SceneInv, GamesSane, Seen, Sane, Game

\* An empty game is no news.
LEMMA ChronicleShrinks ==
    ASSUME SceneInv, NEW seen, Chronicle(seen), \A a \in seen : a.no \in Nat,
           NEW less, less \subseteq seen \cup {EmptyGame}
    PROVE  Chronicle(less)
  <1>i. game.no \in Nat
    BY SeenSane DEF Seen
  <1>1. ASSUME NEW a \in less
        PROVE  a.no <= game.no /\ absent \cap a.in = {} /\ \A i \in unborn : i \notin InPlay(a)
    BY <1>i, EmptyInPlay DEF Chronicle
  <1>2. ASSUME NEW a \in less, NEW b \in less, a.no <= b.no PROVE StaysInBag(a, b)
    BY <1>2, EmptyInPlay DEF Chronicle, StaysInBag
  <1>3. ASSUME NEW a \in less, NEW b \in less, NEW c \in less,
               b # EmptyGame, a.no <= b.no, b.no <= c.no
        PROVE  Between(b, a, c)
    <2>1. CASE a = EmptyGame \/ c = EmptyGame
      BY <2>1, EmptyInPlay DEF Between
    <2>2. CASE a # EmptyGame /\ c # EmptyGame
      BY <1>3, <2>2 DEF Chronicle
    <2> QED
      BY <2>1, <2>2
  <1> QED
    BY <1>1, <1>2, <1>3 DEF Chronicle

LEMMA InitStory == Init => Story
  <1> SUFFICES ASSUME Init PROVE Story
    OBVIOUS
  <1>1. /\ game = [EmptyGame EXCEPT !.in = {Me}] /\ game.in = {Me} /\ game.no = 0
        /\ \A i : i \notin InPlay(game)
        /\ \A p \in Players : game.bag[p] = {}
    BY InPlayIs DEF Init, EmptyGame
  <1>2. game # EmptyGame
    BY <1>1, EmptyInPlay
  <1>3. \A c \in StateSlots : stateNet[c].body = EmptyGame /\ stateNet[c].phase # "answered"
    <2>1. Free \in Call
      BY EmptyGameSane DEF Free, Call, Sane
    <2>2. [c \in StateSlots |-> Free] \in [StateSlots -> Call]
      BY <2>1
    <2> QED
      BY <2>2, SendType DEF Init, Free, Asked
  <1>4. desired = EmptyGame /\ current = EmptyGame /\ ~stateLoaded /\ ~started
    BY DEF Init, started
  <1>5. Seen \subseteq {game, EmptyGame}
    BY <1>3, <1>4 DEF Seen
  <1>6. Chronicle(Seen)
    <2>1. \A a \in Seen : a.no = 0 /\ a.in \subseteq {Me} /\ \A i : i \notin InPlay(a)
      BY <1>1, <1>5, EmptyInPlay
    <2>2. \A a \in Seen : \A p \in Players : a.bag[p] = {}
      BY <1>1, <1>5, EmptyInPlay
    <2>3. \A b \in Seen : b # EmptyGame => b.in = {Me}
      BY <1>1, <1>5
    <2>4. Me \notin absent /\ game.no = 0
      BY <1>1 DEF Init
    <2> QED
      BY <2>1, <2>2, <2>3, <2>4 DEF Chronicle, StaysInBag, Between
  <1>7. Answers
    BY <1>2, <1>3, <1>4 DEF Answers
  <1>8. Causes
    BY <1>4 DEF Init, Causes, Blank, Used
  <1> QED
    BY <1>6, <1>7, <1>8 DEF Story

LEMMA ServerStory ==
    ASSUME SceneInv, Story, ServerStep
    PROVE  Story'
  <1>m. /\ Sane(game') /\ game'.no = game.no + 1
        /\ absent' \subseteq absent /\ unborn' \subseteq unborn
        /\ \A p \in game'.in : p \in game.in \/ p \in absent \ absent'
        /\ \A i \in InPlay(game') : i \in InPlay(game) \/ i \in unborn \ unborn'
        /\ \A p \in Players : game.bag[p] \cap InPlay(game') \subseteq game'.bag[p]
        /\ ClientIdle
    BY ServerMoves
  <1>s. /\ game \in Seen /\ current \in Seen /\ \A a \in Seen : a.no \in Nat
        /\ Seen' \subseteq Seen \cup {game'}
    BY <1>m, SeenSane DEF Seen, ClientIdle, net, view
  <1>c. Chronicle(Seen) /\ Answers /\ Causes
    BY DEF Story
  <1>a. \A a \in Seen :
           /\ a.no <= game.no /\ a.no < game'.no
           /\ absent \cap a.in = {}
           /\ \A i \in unborn : i \notin InPlay(a)
           /\ StaysInBag(a, game)
    BY <1>c, <1>s, <1>m DEF Chronicle
  <1>b. game'.no \in Nat /\ \A p \in Players : game'.bag[p] \subseteq Items
    BY <1>m DEF Sane, Game
  <1>p. \A a : \A p \in Players : \A i \in a.bag[p] : i \in InPlay(a)
    BY InPlayIs
  <1>n. (\A a \in Seen' : a.no <= game'.no /\ absent' \cap a.in = {} /\ \A i \in unborn' : i \notin InPlay(a))
    <2> SUFFICES ASSUME NEW a \in Seen'
                 PROVE  a.no <= game'.no /\ absent' \cap a.in = {} /\ \A i \in unborn' : i \notin InPlay(a)
      OBVIOUS
    <2>1. CASE a \in Seen
      BY <1>a, <1>b, <1>m, <1>s, <2>1
    <2>2. CASE a = game'
      BY <1>a, <1>b, <1>m, <1>s, <2>2
    <2> QED
      BY <1>s, <2>1, <2>2
  <1>t. \A a, b \in Seen' : a.no <= b.no => StaysInBag(a, b)
    <2> SUFFICES ASSUME NEW a \in Seen', NEW b \in Seen', a.no <= b.no PROVE StaysInBag(a, b)
      OBVIOUS
    <2>1. CASE b \in Seen
      <3>1. a \in Seen
        BY <1>a, <1>b, <1>s, <2>1
      <3> QED
        BY <1>c, <2>1, <3>1 DEF Chronicle
    <2>2. CASE b = game' /\ a = game'
      BY <2>2 DEF StaysInBag
    <2>3. CASE b = game' /\ a \in Seen
      <3> SUFFICES ASSUME NEW p \in Players, NEW i \in a.bag[p], i \in InPlay(game')
                   PROVE  i \in game'.bag[p]
        BY <2>3 DEF StaysInBag
      <3>1. i \in InPlay(game)
        BY <1>a, <1>m, <1>p, <2>3
      <3>2. i \in game.bag[p]
        BY <1>a, <2>3, <3>1 DEF StaysInBag
      <3> QED
        BY <1>m, <3>2
    <2> QED
      BY <1>s, <2>1, <2>2, <2>3
  <1>w. \A a, b, c \in Seen' : b # EmptyGame /\ a.no <= b.no /\ b.no <= c.no => Between(b, a, c)
    <2> SUFFICES ASSUME NEW a \in Seen', NEW b \in Seen', NEW c \in Seen',
                        b # EmptyGame, a.no <= b.no, b.no <= c.no
                 PROVE  Between(b, a, c)
      OBVIOUS
    <2>1. CASE c \in Seen
      <3>1. b \in Seen
        BY <1>a, <1>b, <1>s, <2>1
      <3>2. a \in Seen
        BY <1>a, <1>b, <1>s, <3>1
      <3> QED
        BY <1>c, <2>1, <3>1, <3>2 DEF Chronicle
    <2>2. CASE b = c
      BY <2>2 DEF Between
    <2>3. CASE c = game' /\ b \in Seen
      <3>1. a \in Seen
        BY <1>a, <1>b, <1>s, <2>3
      <3>2. Between(b, a, game)
        BY <1>a, <1>c, <1>s, <2>3, <3>1 DEF Chronicle
      <3> QED
        BY <1>a, <1>m, <2>3, <3>1, <3>2 DEF Between
    <2> QED
      BY <1>s, <2>1, <2>2, <2>3
  <1>1. Chronicle(Seen)'
    BY <1>n, <1>t, <1>w DEF Chronicle, StaysInBag, Between, InPlay
  <1>2. Answers'
    <2>1. game' # EmptyGame
      BY <1>m, <1>s, EmptyInPlay
    <2> QED
      BY <1>c, <1>m, <2>1 DEF Answers, ClientIdle, net, view, loading
  <1>3. Causes'
    <2>u. UNCHANGED <<current, carried, listed, lostObjects, fading, scene, stateLoaded, playersLoaded, disorder>>
      BY <1>m DEF ClientIdle, view, loading
    <2>g. current.no <= game.no
      BY <1>a, <1>s
    <2>1. ASSUME ~disorder, NEW p \in Players, GoneFor(p) PROVE GoneFor(p)'
      <3>1. p \notin game.in /\ p \notin absent
        BY <1>s, <2>g, <2>1 DEF GoneFor
      <3>2. p \notin game'.in /\ p \notin absent'
        BY <1>m, <3>1
      <3> QED
        BY <1>s, <2>u, <2>1, <3>2 DEF GoneFor
    <2>2. ASSUME ~disorder, NEW i, OutOfPlay(i) PROVE OutOfPlay(i)'
      <3>1. i \notin InPlay(game) /\ i \notin unborn
        BY <1>s, <2>g, <2>2 DEF OutOfPlay
      <3>2. i \notin InPlay(game') /\ i \notin unborn'
        BY <1>m, <3>1
      <3>3. \A b \in Seen' : current'.no <= b.no => i \notin InPlay(b)
        BY <1>s, <2>u, <2>2, <3>2 DEF OutOfPlay
      <3> QED
        BY <3>2, <3>3 DEF OutOfPlay, InPlay
    <2> QED
      BY <1>c, <2>u, <2>1, <2>2 DEF Causes, Blank, Used, started
  <1> QED
    BY <1>1, <1>2, <1>3 DEF Story

\* The chronicle and the answers where the server does nothing.
LEMMA SameChronicle ==
    ASSUME SceneInv, Story, UNCHANGED server, Seen' \subseteq Seen \cup {EmptyGame}
    PROVE  Chronicle(Seen)'
  <1>1. Chronicle(Seen')
    BY SeenSane, ChronicleShrinks DEF Story
  <1>2. game' = game /\ absent' = absent /\ unborn' = unborn
    BY DEF server
  <1> QED
    BY <1>1, <1>2 DEF Chronicle, StaysInBag, Between, InPlay

\* Where neither the game shown nor the server changes, nobody comes back.
LEMMA StillGone ==
    ASSUME UNCHANGED server, current' = current, Seen' \subseteq Seen \cup {EmptyGame}
    PROVE  /\ \A p : GoneFor(p) => GoneFor(p)'
           /\ \A i : OutOfPlay(i) => OutOfPlay(i)'
  <1>1. absent' = absent /\ unborn' = unborn
    BY DEF server
  <1>2. ASSUME NEW p, GoneFor(p) PROVE GoneFor(p)'
    BY <1>1, <1>2, EmptyInPlay DEF GoneFor
  <1>3. ASSUME NEW i, OutOfPlay(i) PROVE OutOfPlay(i)'
    <2>1. \A b \in Seen' : current'.no <= b.no => i \notin InPlay(b)
      BY <1>3, EmptyInPlay DEF OutOfPlay
    <2> QED
      BY <1>1, <1>3, <2>1 DEF OutOfPlay, InPlay
  <1> QED
    BY <1>2, <1>3

LEMMA NetStory ==
    ASSUME SceneInv, Story, NetStep \/ UNCHANGED vars \/ \E c \in ListSlots : ListDenied(c)
    PROVE  Story'
  <1>1. /\ \A c \in StateSlots : stateNet'[c] \in {stateNet[c], Free, Answered(game)}
        /\ UNCHANGED <<server, loading, view, listed, disorder>>
    BY NetMoves DEF ListDenied, vars, net
  <1>2. Seen' \subseteq Seen \cup {EmptyGame}
    BY <1>1 DEF Seen, server, view, Free, Answered
  <1>3. Chronicle(Seen)'
    BY <1>1, <1>2, SameChronicle
  <1>4. Answers'
    BY <1>1 DEF Story, Answers, server, view, loading, Free, Answered
  <1>5. Causes'
    <2>1. current' = current
      BY <1>1 DEF view
    <2>2. /\ \A p : GoneFor(p) => GoneFor(p)'
          /\ \A i : OutOfPlay(i) => OutOfPlay(i)'
      BY <1>1, <1>2, <2>1, StillGone
    <2> HIDE DEF GoneFor, OutOfPlay
    <2> QED
      BY <1>1, <2>2 DEF Story, Causes, Blank, Used, started, view, loading
  <1> QED
    BY <1>3, <1>4, <1>5 DEF Story

LEMMA FrameStory ==
    ASSUME SceneInv, Story, Frame
    PROVE  Story'
  <1>1. /\ \A c \in StateSlots : stateNet'[c] \in {stateNet[c], Asked}
        /\ UNCHANGED <<server, loading, desired, current, listed, lostObjects, carried, copies, disorder>>
    BY FrameMoves
  <1>2. PICK expired \in SUBSET fading : fading' = fading \ expired /\ scene' = scene \ expired
    BY FrameMoves
  <1>3. Seen' \subseteq Seen \cup {EmptyGame}
    BY <1>1 DEF Seen, server, Asked
  <1>4. Chronicle(Seen)'
    BY <1>1, <1>3, SameChronicle
  <1>5. Answers'
    BY <1>1 DEF Story, Answers, server, loading, Asked
  <1>6. /\ \A p : GoneFor(p) => GoneFor(p)'
        /\ \A i : OutOfPlay(i) => OutOfPlay(i)'
    BY <1>1, <1>3, StillGone
  <1>c. Causes
    BY DEF Story
  <1>7. Blank => Blank'
    BY <1>1, <1>2 DEF Blank
  <1>8. scene \subseteq Used => scene' \subseteq Used'
    BY <1>1, <1>2 DEF Used
  <1>9. Causes'
    BY <1>1, <1>2, <1>6, <1>7, <1>8, <1>c DEF Causes, started, loading
  <1> QED
    BY <1>4, <1>5, <1>9 DEF Story

\* Applying an answer that has not been overtaken: every object is handed on,
\* fades or stays with a player on the list.
LEMMA ApplyCauses ==
    ASSUME SceneInv, Chronicle(Seen), Causes, NEW g \in Seen, g # EmptyGame,
           NEW ls, ApplyState(g, ls), listed' = ls, ls = listed \/ Blank,
           UNCHANGED server, started', Seen' \subseteq Seen \cup {EmptyGame}
    PROVE  Causes'
  <1>i. /\ Sane(g) /\ g.in \subseteq Players /\ current.in \subseteq Players /\ current \in Seen
        /\ \A a \in Seen : a.no \in Nat
    BY SeenSane DEF Seen, Sane, Game
  <1>p. /\ Abandoned(g) \subseteq lostObjects
        /\ \A p \in Players : Before(p) \subseteq carried[p]
        /\ Dropped(g) \subseteq Used
    BY <1>i, Pieces
  <1>1. /\ lostObjects' = (lostObjects \ Abandoned(g)) \cup Copies(Uncovered(g))
        /\ fading' = {o \in fading : ItemOf(o) \notin ItemsOf(Dropped(g))} \cup Dropped(g)
        /\ scene' = scene \cup Copies(Created(g))
        /\ current' = g
        /\ ~disorder' => ~disorder /\ current.no <= g.no /\ current.in \ g.in \subseteq ls
    <2>1. disorder' = (disorder \/ g.no < current.no \/ ~(current.in \ g.in \subseteq ls))
      BY DEF ApplyState
    <2>2. ~disorder' => ~disorder /\ ~(g.no < current.no) /\ current.in \ g.in \subseteq ls
      BY <2>1, Zenon
    <2>3. ~(g.no < current.no) => current.no <= g.no
      BY <1>i
    <2> QED
      BY <2>2, <2>3 DEF ApplyState
  <1>2. /\ \A p \in g.in : carried'[p] = Kept(g, p) \cup Taken(g, p) \cup Copies(Missing(g, p))
        /\ \A p \in Players \ g.in : p \in ls => carried'[p] = carried[p]
        /\ \A p \in Players \ g.in : p \notin ls => carried'[p] = {}
    <2>1. carried' = [p \in Players |->
               IF p \in g.in THEN Kept(g, p) \cup Taken(g, p) \cup Copies(Missing(g, p))
               ELSE IF p \in ls THEN carried[p] ELSE {}]
      BY DEF ApplyState
    <2> QED
      BY <1>i, <2>1
  <1>d. \A o : o \in Dropped(g) <=>
              \/ \E p \in g.in : o \in Before(p) /\ o \notin Kept(g, p)
              \/ o \in Abandoned(g) /\ \A p \in g.in : o \notin Taken(g, p)
    BY WhereDropped
  <1>3. \A p \in Players : carried'[p] # {} => p \in listed' \cup current'.in
    BY <1>1, <1>2
  <1>m. /\ \A o \in lostObjects : ItemOf(o) \in current.lost
        /\ \A p \in current.in : \A o \in carried[p] : ItemOf(o) \in current.bag[p]
    BY DEF SceneInv, Mirror, ItemsOf
  <1>4. \A o \in Dropped(g) : ItemOf(o) \in InPlay(current)
    <2> SUFFICES ASSUME NEW o \in Dropped(g) PROVE ItemOf(o) \in InPlay(current)
      OBVIOUS
    <2>1. CASE o \in Abandoned(g)
      BY <1>m, <1>p, <2>1, InPlayIs
    <2>2. CASE \E p \in g.in : o \in Before(p)
      <3>1. PICK p \in current.in : o \in carried[p]
        BY <2>2 DEF Before
      <3> QED
        BY <1>i, <1>m, <3>1, InPlayIs
    <2> QED
      BY <1>d, <2>1, <2>2
  <1>5. ASSUME ~disorder', NEW o \in Dropped(g) PROVE ItemOf(o) \notin InPlay(g)
    <2>0. current.no <= g.no /\ StaysInBag(current, g)
      BY <1>1, <1>5, <1>i DEF Chronicle
    <2>b. /\ \A p \in Players \ g.in : g.bag[p] = {}
          /\ \A p \in Players : current.bag[p] \cap current.lost = {}
      BY <1>i DEF Sane, SceneInv, GamesSane, Exclusive
    <2>1. CASE o \in Abandoned(g) /\ \A p \in g.in : o \notin Taken(g, p)
      <3>1. ItemOf(o) \notin g.lost /\ o \in lostObjects
        BY <1>p, <2>1 DEF Abandoned
      <3>2. ASSUME NEW p \in Players, ItemOf(o) \in g.bag[p] PROVE FALSE
        <4>1. p \in g.in
          BY <2>b, <3>2
        <4>2. ItemOf(o) \in ItemsOf(Before(p))
          BY <2>1, <3>2, <4>1 DEF Taken
        <4>3. p \in current.in /\ ItemOf(o) \in ItemsOf(carried[p])
          BY <4>2 DEF Before, ItemsOf
        <4>4. ItemOf(o) \in current.bag[p]
          BY <4>3 DEF SceneInv, Mirror
        <4> QED
          BY <1>m, <2>b, <3>1, <4>4
      <3> QED
        BY <3>1, <3>2, InPlayIs
    <2>2. CASE \E p \in g.in : o \in Before(p) /\ o \notin Kept(g, p)
      <3>1. PICK p \in g.in : p \in current.in /\ o \in carried[p] /\ ItemOf(o) \notin g.bag[p]
        BY <2>2 DEF Before, Kept
      <3>2. ItemOf(o) \in current.bag[p]
        BY <1>m, <3>1
      <3> QED
        BY <1>i, <2>0, <3>1, <3>2 DEF StaysInBag
    <2> QED
      BY <1>d, <2>1, <2>2
  <1>6. ASSUME ~disorder', NEW o \in fading' PROVE OutOfPlay(ItemOf(o))'
    <2> DEFINE i == ItemOf(o)
    <2>1. i \notin unborn
      <3>1. CASE o \in fading
        BY <1>1, <1>6, <3>1 DEF Causes, OutOfPlay
      <3>2. CASE o \in Dropped(g)
        BY <1>4, <1>i, <3>2 DEF Chronicle
      <3> QED
        BY <1>1, <3>1, <3>2
    <2>2. ASSUME NEW b \in Seen, g.no <= b.no PROVE i \notin InPlay(b)
      <3>0. current.no <= g.no /\ current.no <= b.no
        BY <1>1, <1>6, <1>i, <2>2
      <3>1. CASE o \in fading
        BY <1>1, <1>6, <3>0, <3>1 DEF Causes, OutOfPlay
      <3>2. CASE o \in Dropped(g)
        <4>1. Between(g, current, b)
          BY <1>i, <2>2, <3>0 DEF Chronicle
        <4> QED
          BY <1>4, <1>5, <1>6, <3>2, <4>1 DEF Between
      <3> QED
        BY <1>1, <3>1, <3>2
    <2>3. \A b \in Seen' : current'.no <= b.no => i \notin InPlay(b)
      BY <1>1, <2>2, EmptyInPlay
    <2> HIDE DEF i
    <2>4. OutOfPlay(i)'
      BY <2>1, <2>3 DEF OutOfPlay, server, InPlay, i
    <2> QED
      BY <2>4 DEF i
  <1>7. ASSUME ~disorder', NEW p \in Players, carried'[p] # {}, p \notin current'.in
        PROVE  GoneFor(p)'
    <2>1. carried[p] # {} /\ p \notin g.in
      BY <1>1, <1>2, <1>7
    <2>2. p \notin absent
      <3>1. CASE p \in current.in
        BY <1>i, <3>1 DEF Chronicle
      <3>2. CASE p \notin current.in
        BY <1>1, <1>7, <2>1, <3>2 DEF Causes, GoneFor
      <3> QED
        BY <3>1, <3>2
    <2>3. ASSUME NEW b \in Seen, g.no <= b.no PROVE p \notin b.in
      <3>0. current.no <= g.no /\ current.no <= b.no
        BY <1>1, <1>7, <1>i, <2>3
      <3>1. CASE p \in current.in
        <4>1. Between(g, current, b)
          BY <1>i, <2>3, <3>0 DEF Chronicle
        <4> QED
          BY <2>1, <3>1, <4>1 DEF Between
      <3>2. CASE p \notin current.in
        BY <1>1, <1>7, <2>1, <3>0, <3>2 DEF Causes, GoneFor
      <3> QED
        BY <3>1, <3>2
    <2> QED
      BY <1>1, <2>2, <2>3, EmptyInPlay DEF GoneFor, server
  <1>8. ASSUME ~disorder', NEW o \in scene' PROVE o \in Used'
    <2>u. \A r : r \in Used' <=> r \in lostObjects' \/ r \in fading' \/ \E p \in Players : r \in carried'[p]
      BY DEF Used
    <2>v. \A r : r \in Used <=> r \in lostObjects \/ r \in fading \/ \E p \in Players : r \in carried[p]
      BY DEF Used
    <2>0. ~disorder /\ current.no <= g.no
      BY <1>1, <1>8
    <2>1. CASE o \in Copies(Created(g))
      <3>1. PICK j \in Created(g) : o = <<j, copies[j]>>
        BY <2>1 DEF Copies
      <3>2. CASE j \in Uncovered(g)
        BY <1>1, <2>u, <3>1, <3>2 DEF Copies
      <3>3. CASE \E p \in g.in : j \in Missing(g, p)
        BY <1>2, <1>i, <2>u, <3>1, <3>3 DEF Copies
      <3> QED
        BY <3>2, <3>3 DEF Created
    <2>2. CASE o \in lostObjects
      <3>1. CASE o \notin Abandoned(g)
        BY <1>1, <2>2, <2>u, <3>1
      <3>2. CASE \E p \in g.in : o \in Taken(g, p)
        BY <1>2, <1>i, <2>u, <3>2
      <3> QED
        BY <1>1, <1>d, <2>u, <3>1, <3>2
    <2>3. CASE o \in fading
      <3>1. ItemOf(o) \notin InPlay(current)
        BY <1>i, <2>0, <2>3 DEF Causes, OutOfPlay
      <3>2. ItemOf(o) \notin ItemsOf(Dropped(g))
        BY <1>4, <3>1 DEF ItemsOf
      <3> QED
        BY <1>1, <2>3, <2>u, <3>2
    <2>4. CASE \E p \in Players : o \in carried[p]
      <3>1. PICK p \in Players : o \in carried[p]
        BY <2>4
      <3>2. CASE p \in g.in
        <4>1. p \in current.in
          BY <2>0, <3>1, <3>2 DEF Causes, GoneFor
        <4>2. o \in Before(p)
          BY <3>1, <4>1 DEF Before
        <4> QED
          BY <1>1, <1>2, <1>d, <2>u, <3>2, <4>2
      <3>3. CASE p \notin g.in
        <4>1. p \in ls
          BY <1>1, <1>8, <3>1, <3>3 DEF Causes, Blank
        <4> QED
          BY <1>2, <2>u, <3>1, <3>3, <4>1
      <3> QED
        BY <3>2, <3>3
    <2>5. o \in Used \/ o \in Copies(Created(g))
      BY <1>1, <1>8, <2>0 DEF Causes
    <2> QED
      BY <2>1, <2>2, <2>3, <2>4, <2>5, <2>v
  <1> QED
    BY <1>3, <1>6, <1>7, <1>8 DEF Causes

LEMMA StateDoneStory ==
    ASSUME SceneInv, Story, NEW c \in StateSlots, StateDone(c)
    PROVE  Story'
  <1> DEFINE g == stateNet[c].body
  <1>1. /\ stateNet' = [stateNet EXCEPT ![c] = Free] /\ desired' = g /\ stateLoaded' = TRUE
        /\ UNCHANGED <<server, listNet, page, playersLoaded, ticks, listed>>
        /\ stateNet[c].phase = "answered"
    BY DEF StateDone
  <1>2. \A d \in StateSlots : stateNet'[d] \in {stateNet[d], Free}
    BY <1>1, Freed DEF SceneInv, TypeOK
  <1>3. g \in Seen /\ g # EmptyGame
    BY <1>1 DEF Seen, Story, Answers
  <1>4. current' = current \/ current' = g
    BY DEF StateDone, ApplyState, NothingApplied
  <1>5. Seen' \subseteq Seen \cup {EmptyGame}
    BY <1>1, <1>2, <1>3, <1>4 DEF Seen, server, Free
  <1>6. Chronicle(Seen)'
    BY <1>1, <1>5, SameChronicle
  <1>7. Answers'
    BY <1>1, <1>2, <1>3 DEF Story, Answers, server, Free
  <1>8. Causes'
    <2>1. CASE playersLoaded
      <3>1. ApplyState(g, listed)
        BY <2>1 DEF StateDone
      <3>2. started' /\ listed' = listed
        BY <1>1, <2>1 DEF started
      <3> HIDE DEF g
      <3> QED
        BY <1>1, <1>3, <1>5, <3>1, <3>2, ApplyCauses DEF Story
    <2>2. CASE ~playersLoaded
      <3>1. NothingApplied /\ UNCHANGED scene
        BY <2>2 DEF StateDone
      <3>2. /\ \A p : GoneFor(p) => GoneFor(p)'
            /\ \A i : OutOfPlay(i) => OutOfPlay(i)'
        BY <1>1, <1>5, <3>1, StillGone DEF NothingApplied
      <3>3. ~started /\ ~started'
        BY <1>1, <2>2 DEF started
      <3> HIDE DEF GoneFor, OutOfPlay, g
      <3> QED
        BY <1>1, <3>1, <3>2, <3>3 DEF Story, Causes, Blank, Used, NothingApplied
    <2> QED
      BY <2>1, <2>2 DEF SceneInv, TypeOK
  <1> QED
    BY <1>6, <1>7, <1>8 DEF Story

LEMMA ListDoneStory ==
    ASSUME SceneInv, Story, NEW c \in ListSlots, ListDone(c)
    PROVE  Story'
  <1> DEFINE ls == listNet[c].body.in
  <1>1. /\ listed' = ls /\ playersLoaded' = TRUE
        /\ UNCHANGED <<server, stateNet, page, stateLoaded, ticks, desired>>
    BY DEF ListDone
  <1>4. current' = current \/ current' = desired
    BY DEF ListDone, ApplyState
  <1>5. Seen' \subseteq Seen \cup {EmptyGame}
    BY <1>1, <1>4 DEF Seen, server
  <1>6. Chronicle(Seen)'
    BY <1>1, <1>5, SameChronicle
  <1>7. Answers'
    BY <1>1 DEF Story, Answers, server
  <1>c. Causes
    BY DEF Story
  <1>8. CASE stateLoaded /\ ~playersLoaded
    <2>1. ApplyState(desired, ls)
      BY <1>8 DEF ListDone
    <2>2. started' /\ ~started /\ desired \in Seen /\ desired # EmptyGame
      BY <1>1, <1>8 DEF started, Seen, Story, Answers
    <2>3. Blank
      BY <1>c, <2>2 DEF Causes
    <2> HIDE DEF ls
    <2>4. Causes'
      BY <1>1, <1>5, <1>c, <2>1, <2>2, <2>3, ApplyCauses DEF Story
    <2> QED
      BY <1>6, <1>7, <2>4 DEF Story
  <1>9. CASE ~(stateLoaded /\ ~playersLoaded)
    <2>1. /\ scene' = scene \ Deleted(ls)
          /\ carried' = [p \in Players |-> IF p \in ls \cup current.in THEN carried[p] ELSE {}]
          /\ disorder' = (disorder \/ (listed \ ls) \cap current.in # {})
          /\ UNCHANGED <<current, lostObjects, fading, copies>>
      BY <1>9 DEF ListDone
    <2>2. /\ \A p : GoneFor(p) => GoneFor(p)'
          /\ \A i : OutOfPlay(i) => OutOfPlay(i)'
      BY <1>1, <1>5, <2>1, StillGone
    <2> HIDE DEF ls
    <2>3. /\ \A p \in Players : p \in ls \cup current.in => carried'[p] = carried[p]
          /\ \A p \in Players : p \notin ls \cup current.in => carried'[p] = {}
      BY <2>1
    <2>4. \A p \in Players : carried'[p] # {} => p \in listed' \cup current'.in
      BY <1>1, <2>1, <2>3
    <2>5. ~started' => Blank'
      <3>1. started' <=> started
        BY <1>1, <1>9 DEF started, SceneInv, TypeOK
      <3> QED
        BY <1>c, <2>1, <2>3, <3>1 DEF Causes, Blank
    <2>6. ASSUME ~disorder', NEW o \in scene' PROVE o \in Used'
      <3>1. o \in Used /\ o \notin Deleted(ls)
        BY <1>c, <2>1, <2>6 DEF Causes
      <3>2. CASE \E p \in Players : o \in carried[p]
        <4>1. PICK p \in Players : o \in carried[p]
          BY <3>2
        <4>2. p \in listed \cup current.in
          BY <1>c, <4>1 DEF Causes
        <4>3. p \notin listed \ ls
          BY <3>1, <4>1 DEF Deleted
        <4>4. o \in carried'[p]
          BY <2>3, <4>1, <4>2, <4>3
        <4> QED
          BY <4>4 DEF Used
      <3>3. CASE o \in lostObjects \/ o \in fading
        BY <2>1, <3>3 DEF Used
      <3> QED
        BY <3>1, <3>2, <3>3 DEF Used
    <2>7. ASSUME ~disorder', NEW p \in Players, carried'[p] # {}, p \notin current'.in
          PROVE  GoneFor(p)'
      BY <1>c, <2>1, <2>2, <2>3, <2>7 DEF Causes
    <2>8. ASSUME ~disorder', NEW o \in fading' PROVE OutOfPlay(ItemOf(o))'
      BY <1>c, <2>1, <2>2, <2>8 DEF Causes
    <2>9. Causes'
      BY <2>4, <2>5, <2>6, <2>7, <2>8 DEF Causes
    <2> QED
      BY <1>6, <1>7, <2>9 DEF Story
  <1> QED
    BY <1>8, <1>9

LEMMA NextStory == SceneInv /\ Story /\ [Next]_vars => Story'
  BY ServerStory, NetStory, FrameStory, StateDoneStory, ListDoneStory
     DEF Next, ClientStep

THEOREM StoryHolds == Spec => []Story
  BY InitStory, NextStory, SceneHolds, PTL DEF Spec

\* An object that nothing would take out of the scene any more is there only
\* after an answer was overtaken, or somebody left who was not listed.
THEOREM LeaksAreCaused == Spec => []LeaksHaveCause
  <1>1. Story => LeaksHaveCause
    BY DEF Story, Causes, LeaksHaveCause, Used
  <1> QED
    BY <1>1, StoryHolds, PTL
==============================================================================
