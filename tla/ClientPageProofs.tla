-------------------------- MODULE ClientPageProofs ---------------------------
(***************************************************************************)
(* What the page does besides the scene, for any loot types, files, keys   *)
(* and requests under way; two specifications with variables of their own. *)
(*                                                                         *)
(* ClientPage: a page begins only with all its models, shared or not, in   *)
(* whatever order the files arrive, fail or stall.  The argument is the    *)
(* counter of loadLootTypes: it is the number of types without a model,    *)
(* because a type waits for its own file and only until it has been        *)
(* called.  And the dog goes where the last key held points: the page's    *)
(* keys and those held agree, in their order, on every key of which no     *)
(* event was missed.                                                       *)
(*                                                                         *)
(* ActorTurning: the angle an actor is shown at is one the turn has come   *)
(* to before now, and each of these is on the shorter way.                 *)
(***************************************************************************)
EXTENDS ClientPage, ActorTurning, FiniteSetTheorems, SequenceTheorems, TLAPS

Unloaded == {t \in LootTypes : loadedLootTypes[t] = None}

Blank ==
    /\ \A f \in Assets!Files : loading[f] = {}
    /\ Unloaded = LootTypes
    /\ ~lootTypesLoaded

AssetsInv ==
    /\ loading \in [Assets!Files -> SUBSET (LootTypes \cup {Pug})]
    /\ loadedActor \in {None, Pug}
    /\ \A t \in LootTypes : loadedLootTypes[t] \in {None, FileOf[t]}
    /\ \A f \in Assets!Files \ {Pug} : \A t \in loading[f] :
          t \in LootTypes /\ FileOf[t] = f /\ loadedLootTypes[t] = None
    /\ ~asked => Blank
    /\ asked => objectsToLoad = Cardinality(Unloaded)
    /\ lootTypesLoaded => Unloaded = {}

PageInv == AssetsInv /\ (gameState => Assets!isReady)

USE PageAssumption

\* AssetLoading counts with the same operator.
LEMMA SameCount == ASSUME NEW S PROVE Assets!Cardinality(S) = Cardinality(S)
  BY Zenon DEF Assets!Cardinality, Cardinality

LEMMA UnloadedFinite ==
    /\ IsFiniteSet(Unloaded) /\ Cardinality(Unloaded) \in Nat
    /\ Cardinality(Unloaded) = 0 <=> Unloaded = {}
  <1>1. IsFiniteSet(Unloaded)
    BY FS_Subset DEF Unloaded
  <1> QED
    BY <1>1, FS_CardinalityType, FS_EmptySet

LEMMA InitPage == Init => PageInv
  <1> SUFFICES ASSUME Init PROVE PageInv
    OBVIOUS
  <1>1. /\ asked = FALSE /\ gameState = FALSE /\ lootTypesLoaded = FALSE
        /\ loading = [f \in Assets!Files |-> {}]
        /\ loadedActor = None /\ loadedLootTypes = [t \in LootTypes |-> None]
    BY DEF Init, Assets!Init
  <1>2. Unloaded = LootTypes
    BY <1>1 DEF Unloaded
  <1> QED
    BY <1>1, <1>2 DEF PageInv, AssetsInv, Blank

LEMMA MapLoadedPage ==
    ASSUME AssetsInv, Assets!MapLoaded
    PROVE  AssetsInv'
  <1>1. /\ ~asked /\ asked'
        /\ loading' = [f \in Assets!Files |-> IF f = Pug THEN {Pug} ELSE Assets!Callers(f)]
        /\ objectsToLoad' = Cardinality(LootTypes)
        /\ UNCHANGED <<loadedActor, loadedLootTypes, lootTypesLoaded>>
    BY SameCount DEF Assets!MapLoaded, Assets!TypesCounted
  <1>2. Unloaded = LootTypes /\ ~lootTypesLoaded /\ Unloaded' = Unloaded
    BY <1>1 DEF AssetsInv, Blank, Unloaded
  <1>3. \A f \in Assets!Files \ {Pug} : \A t \in loading'[f] :
           t \in LootTypes /\ FileOf[t] = f /\ loadedLootTypes[t] = None
    BY <1>1, <1>2 DEF Assets!Callers, Unloaded
  <1>4. loading' \in [Assets!Files -> SUBSET (LootTypes \cup {Pug})]
    BY <1>1 DEF Assets!Callers
  <1> QED
    BY <1>1, <1>2, <1>3, <1>4 DEF AssetsInv

LEMMA LootArrivesPage ==
    ASSUME AssetsInv, NEW f \in Assets!Files, Assets!LootArrives(f)
    PROVE  AssetsInv' /\ (lootTypesLoaded => lootTypesLoaded')
  <1>1. /\ f # Pug /\ loading[f] # {} /\ loading' = [loading EXCEPT ![f] = {}]
        /\ loadedLootTypes' = [t \in LootTypes |-> IF t \in loading[f] THEN f ELSE loadedLootTypes[t]]
        /\ objectsToLoad' = objectsToLoad - Cardinality(loading[f])
        /\ lootTypesLoaded' = (lootTypesLoaded \/ objectsToLoad' = 0)
        /\ UNCHANGED <<asked, loadedActor>>
    BY SameCount DEF Assets!LootArrives, Assets!Leaves
  <1>2. \A t \in loading[f] : t \in LootTypes /\ FileOf[t] = f /\ loadedLootTypes[t] = None
    BY <1>1 DEF AssetsInv
  <1>3. asked /\ loading[f] \subseteq Unloaded /\ objectsToLoad = Cardinality(Unloaded)
    BY <1>1, <1>2 DEF AssetsInv, Blank, Unloaded
  <1>4. Unloaded' = Unloaded \ loading[f]
    BY <1>1, <1>2 DEF Unloaded
  <1>5. objectsToLoad' = Cardinality(Unloaded')
    <2>1. Unloaded \cap loading[f] = loading[f]
      BY <1>3
    <2>2. Cardinality(Unloaded \ loading[f]) = Cardinality(Unloaded) - Cardinality(Unloaded \cap loading[f])
      BY UnloadedFinite, FS_Difference
    <2> QED
      BY <1>1, <1>3, <1>4, <2>1, <2>2
  <1>6. Unloaded # {} /\ ~lootTypesLoaded
    BY <1>1, <1>3 DEF AssetsInv
  <1>7. lootTypesLoaded' => Unloaded' = {}
    <2>1. IsFiniteSet(Unloaded')
      BY <1>4, UnloadedFinite, FS_Subset
    <2> QED
      BY <1>1, <1>5, <1>6, <2>1, FS_EmptySet
  <1>8. \A t \in LootTypes : loadedLootTypes'[t] \in {None, FileOf[t]}
    BY <1>1, <1>2 DEF AssetsInv
  <1>9. \A g \in Assets!Files \ {Pug} : \A t \in loading'[g] :
           t \in LootTypes /\ FileOf[t] = g /\ loadedLootTypes'[t] = None
    <2> SUFFICES ASSUME NEW g \in Assets!Files \ {Pug}, NEW t \in loading'[g]
                 PROVE  t \in LootTypes /\ FileOf[t] = g /\ loadedLootTypes'[t] = None
      OBVIOUS
    <2>1. g # f /\ t \in loading[g]
      BY <1>1 DEF AssetsInv
    <2>2. t \in LootTypes /\ FileOf[t] = g /\ loadedLootTypes[t] = None
      BY <2>1 DEF AssetsInv
    <2>3. t \notin loading[f]
      BY <1>2, <2>1, <2>2
    <2> QED
      BY <1>1, <2>2, <2>3
  <1>10. loading' \in [Assets!Files -> SUBSET (LootTypes \cup {Pug})] /\ loadedActor' \in {None, Pug}
    BY <1>1 DEF AssetsInv
  <1> QED
    BY <1>1, <1>3, <1>5, <1>6, <1>7, <1>8, <1>9, <1>10 DEF AssetsInv

\* The dog's file, and files that fail or stall, leave the loot types alone.
LEMMA OtherFilesPage ==
    ASSUME AssetsInv, NEW f \in Assets!Files,
           loading' = loading \/ loading' = [loading EXCEPT ![f] = {}],
           loadedActor' \in {None, Pug}, loading[f] # {},
           UNCHANGED <<asked, loadedLootTypes, objectsToLoad, lootTypesLoaded>>
    PROVE  AssetsInv'
  <1>1. Unloaded' = Unloaded
    BY DEF Unloaded
  <1>2. \A g \in Assets!Files : loading'[g] \subseteq loading[g]
    BY DEF AssetsInv
  <1>3. loading' \in [Assets!Files -> SUBSET (LootTypes \cup {Pug})]
    BY DEF AssetsInv
  <1>4. asked
    BY DEF AssetsInv, Blank
  <1> QED
    BY <1>1, <1>2, <1>3, <1>4 DEF AssetsInv

LEMMA LoadPage ==
    ASSUME PageInv, Load
    PROVE  PageInv'
  <1>i. AssetsInv /\ gameState' = gameState
    BY DEF PageInv, Load
  <1>p. Pug \in Assets!Files
    BY DEF Assets!Files
  <1>1. CASE Assets!MapLoaded
    <2>1. ~lootTypesLoaded
      BY <1>1, <1>i DEF Assets!MapLoaded, AssetsInv, Blank
    <2>2. ~gameState
      BY <2>1 DEF PageInv, Assets!isReady
    <2> QED
      BY <1>1, <1>i, <2>2, MapLoadedPage DEF PageInv
  <1>2. CASE Assets!ActorArrives
    <2>1. /\ loading[Pug] # {} /\ loading' = [loading EXCEPT ![Pug] = {}] /\ loadedActor' = Pug
          /\ UNCHANGED <<asked, loadedLootTypes, objectsToLoad, lootTypesLoaded>>
      BY <1>2 DEF Assets!ActorArrives, Assets!Leaves
    <2>2. AssetsInv'
      BY <1>i, <1>p, <2>1, OtherFilesPage
    <2>3. Assets!isReady => Assets!isReady'
      BY <1>i, <2>1 DEF AssetsInv, Assets!isReady
    <2> QED
      BY <1>i, <2>2, <2>3 DEF PageInv
  <1>3. CASE \E f \in Assets!Files : Assets!LootArrives(f)
    <2>1. PICK f \in Assets!Files : Assets!LootArrives(f)
      BY <1>3
    <2>2. AssetsInv' /\ (lootTypesLoaded => lootTypesLoaded') /\ loadedActor' = loadedActor
      BY <1>i, <2>1, LootArrivesPage DEF Assets!LootArrives
    <2> QED
      BY <1>i, <2>2 DEF PageInv, Assets!isReady
  <1>4. CASE \E f \in Assets!Files : Assets!FileFails(f) \/ Assets!FileStalls(f)
    <2>1. PICK f \in Assets!Files : Assets!FileFails(f) \/ Assets!FileStalls(f)
      BY <1>4
    <2>2. /\ loading[f] # {} /\ (loading' = loading \/ loading' = [loading EXCEPT ![f] = {}])
          /\ UNCHANGED <<asked, loadedActor, loadedLootTypes, objectsToLoad, lootTypesLoaded>>
      BY <2>1 DEF Assets!FileFails, Assets!FileStalls, Assets!Leaves
    <2>3. loadedActor' \in {None, Pug}
      BY <1>i, <2>2 DEF AssetsInv
    <2>4. AssetsInv'
      BY <1>i, <2>2, <2>3, OtherFilesPage
    <2> QED
      BY <1>i, <2>2, <2>4 DEF PageInv, Assets!isReady
  <1> QED
    BY <1>1, <1>2, <1>3, <1>4 DEF Load, Assets!Next, Assets!Arrives

LEMMA NextPage == PageInv /\ [Next]_vars => PageInv'
  <1> SUFFICES ASSUME PageInv, [Next]_vars PROVE PageInv'
    OBVIOUS
  <1>1. CASE Load
    BY <1>1, LoadPage
  <1>2. CASE ~Load
    <2>1. UNCHANGED assets /\ (gameState' => gameState \/ Assets!isReady)
      BY <1>2 DEF Next, CreateGame, UseKeys, Post, vars
    <2>2. UNCHANGED <<asked, loading, loadedActor, loadedLootTypes, objectsToLoad, lootTypesLoaded>>
      BY <2>1 DEF assets
    <2>3. Unloaded' = Unloaded
      BY <2>2 DEF Unloaded
    <2>4. AssetsInv'
      BY <2>2, <2>3 DEF PageInv, AssetsInv, Blank
    <2> QED
      BY <2>1, <2>2, <2>4 DEF PageInv, Assets!isReady
  <1> QED
    BY <1>1, <1>2

\* The first frame of the game has the dog and the right model of every loot
\* type: the counter of loadLootTypes reaches zero no sooner, also where types
\* share a file.
THEOREM ModelsAreComplete == Spec => []ModelsComplete
  <1>1. PageInv => ModelsComplete
    BY DEF PageInv, AssetsInv, Unloaded, ModelsComplete, Assets!ModelsComplete, Assets!isReady
  <1> QED
    BY <1>1, InitPage, NextPage, PTL DEF Spec

-----------------------------------------------------------------------------
(* The keyboard.  The page's keys and those held agree on the keys of      *)
(* which no event was missed, also in their order; and the last request    *)
(* under way, or the dog once that was handled, has the last of the page's *)
(* keys.                                                                   *)

In(key, keys) == \E i \in DOMAIN keys : keys[i] = key
Before(a, b, keys) == \E i, j \in DOMAIN keys : i < j /\ keys[i] = a /\ keys[j] = b
NoneTwice(keys) == \A i, j \in DOMAIN keys : keys[i] = keys[j] => i = j
Moved == Keys \cup {Keyboard!Stop}

KeysTyped ==
    /\ held \in Seq(Keys) /\ pressedKeys \in Seq(Keys) /\ posts \in Seq(Moved)
    /\ NoneTwice(held) /\ NoneTwice(pressedKeys)

KeysAgree ==
    /\ \A key \in Keys \ unseen : In(key, held) <=> In(key, pressedKeys)
    /\ \A a, b \in Keys \ unseen : Before(a, b, held) => Before(a, b, pressedKeys)

LastPosted ==
    /\ newest = "under way" =>
          posts # <<>> /\ posts[Len(posts)] = Keyboard!getLastKey(pressedKeys)
    /\ newest = "handled" => move = Keyboard!getLastKey(pressedKeys)

KeysInv == KeysTyped /\ KeysAgree /\ LastPosted

LEMMA AppendOrder ==
    ASSUME NEW S, NEW keys \in Seq(S), NEW key \in S
    PROVE  /\ Append(keys, key) \in Seq(S)
           /\ Append(keys, key) # <<>>
           /\ Append(keys, key)[Len(Append(keys, key))] = key
           /\ \A k : In(k, Append(keys, key)) <=> In(k, keys) \/ k = key
           /\ \A a, b : Before(a, b, Append(keys, key)) <=>
                 Before(a, b, keys) \/ (In(a, keys) /\ b = key)
           /\ NoneTwice(keys) /\ ~In(key, keys) => NoneTwice(Append(keys, key))
  <1> DEFINE more == Append(keys, key)
  <1>1. /\ more \in Seq(S) /\ Len(more) = Len(keys) + 1 /\ Len(keys) \in Nat
        /\ \A i \in 1 .. Len(keys) : more[i] = keys[i]
        /\ more[Len(keys) + 1] = key
        /\ DOMAIN keys = 1 .. Len(keys) /\ DOMAIN more = 1 .. Len(keys) + 1
    OBVIOUS
  <1> HIDE DEF more
  <1>2. \A k : In(k, more) <=> In(k, keys) \/ k = key
    BY <1>1 DEF In
  <1>3. ASSUME NEW a, NEW b
        PROVE  Before(a, b, more) <=> Before(a, b, keys) \/ (In(a, keys) /\ b = key)
    BY <1>1 DEF In, Before
  <1>4. NoneTwice(keys) /\ ~In(key, keys) => NoneTwice(more)
    BY <1>1 DEF In, NoneTwice
  <1> QED
    BY <1>1, <1>2, <1>3, <1>4 DEF more

LEMMA RemoveAtPlaces ==
    ASSUME NEW S, NEW keys \in Seq(S), NEW n \in 1 .. Len(keys)
    PROVE  /\ Keyboard!RemoveAt(keys, n) \in Seq(S)
           /\ Len(Keyboard!RemoveAt(keys, n)) = Len(keys) - 1
           /\ \A j \in 1 .. Len(keys) - 1 :
                 Keyboard!RemoveAt(keys, n)[j] = IF j < n THEN keys[j] ELSE keys[j + 1]
  <1> DEFINE before == SubSeq(keys, 1, n - 1)
             after == SubSeq(keys, n + 1, Len(keys))
  <1>1. Len(keys) \in Nat /\ \A i \in 1 .. Len(keys) : keys[i] \in S
    OBVIOUS
  <1>2. /\ before \in Seq(S) /\ Len(before) = n - 1
        /\ \A i \in 1 .. n - 1 : before[i] = keys[i]
    BY <1>1, SubSeqProperties
  <1>3. /\ after \in Seq(S) /\ Len(after) = Len(keys) - n
        /\ \A i \in 1 .. Len(keys) - n : after[i] = keys[n + i]
    BY <1>1, SubSeqProperties
  <1>4. Keyboard!RemoveAt(keys, n) = before \o after
    BY DEF Keyboard!RemoveAt
  <1> HIDE DEF before, after
  <1>5. /\ before \o after \in Seq(S) /\ Len(before \o after) = Len(keys) - 1
        /\ \A j \in 1 .. Len(keys) - 1 :
              (before \o after)[j] = IF j <= n - 1 THEN before[j] ELSE after[j - (n - 1)]
    <2>1. /\ before \o after \in Seq(S) /\ Len(before \o after) = Len(before) + Len(after)
          /\ \A j \in 1 .. Len(before) + Len(after) :
                (before \o after)[j] = IF j <= Len(before) THEN before[j] ELSE after[j - Len(before)]
      <3>1. before \in Seq(S) /\ after \in Seq(S)
        BY <1>2, <1>3
      <3> QED
        BY <3>1, ConcatProperties, Zenon
    <2>2. Len(before) = n - 1 /\ Len(before) + Len(after) = Len(keys) - 1
      BY <1>1, <1>2, <1>3
    <2> QED
      BY <2>1, <2>2
  <1>6. ASSUME NEW j \in 1 .. Len(keys) - 1
        PROVE  (before \o after)[j] = IF j < n THEN keys[j] ELSE keys[j + 1]
    BY <1>1, <1>2, <1>3, <1>5
  <1> QED
    BY <1>4, <1>5, <1>6

LEMMA RemoveFirstPlace ==
    ASSUME NEW S, NEW keys \in Seq(S), NEW key, In(key, keys), NoneTwice(keys)
    PROVE  \E n \in 1 .. Len(keys) :
              keys[n] = key /\ Keyboard!RemoveFirst(keys, key) = Keyboard!RemoveAt(keys, n)
  <1>1. PICK n \in 1 .. Len(keys) : keys[n] = key
    BY DEF In
  <1>2. {i \in 1 .. Len(keys) : keys[i] = key} = {n}
    BY <1>1 DEF NoneTwice
  <1>3. Keyboard!Min({n}) = n
    BY DEF Keyboard!Min
  <1>4. Keyboard!SelectInSeq(keys, LAMBDA v : v = key) = n
    BY <1>2, <1>3 DEF Keyboard!SelectInSeq
  <1>5. Keyboard!RemoveFirst(keys, key) = Keyboard!RemoveAt(keys, n)
    BY <1>1, <1>4 DEF Keyboard!RemoveFirst
  <1> QED
    BY <1>1, <1>5

LEMMA RemoveFirstOrder ==
    ASSUME NEW S, NEW keys \in Seq(S), NEW key, In(key, keys), NoneTwice(keys)
    PROVE  /\ Keyboard!RemoveFirst(keys, key) \in Seq(S)
           /\ \A k : In(k, Keyboard!RemoveFirst(keys, key)) <=> In(k, keys) /\ k # key
           /\ \A a, b : Before(a, b, Keyboard!RemoveFirst(keys, key)) <=>
                 Before(a, b, keys) /\ a # key /\ b # key
           /\ NoneTwice(Keyboard!RemoveFirst(keys, key))
  <1> DEFINE fewer == Keyboard!RemoveFirst(keys, key)
  <1>1. PICK n \in 1 .. Len(keys) : keys[n] = key /\ fewer = Keyboard!RemoveAt(keys, n)
    BY RemoveFirstPlace
  <1> HIDE DEF fewer
  <1>2. /\ fewer \in Seq(S) /\ Len(fewer) = Len(keys) - 1 /\ Len(keys) \in Nat
        /\ \A j \in 1 .. Len(keys) - 1 : fewer[j] = IF j < n THEN keys[j] ELSE keys[j + 1]
        /\ DOMAIN keys = 1 .. Len(keys) /\ DOMAIN fewer = 1 .. Len(keys) - 1
    <2>1. /\ fewer \in Seq(S) /\ Len(fewer) = Len(keys) - 1
          /\ \A j \in 1 .. Len(keys) - 1 : fewer[j] = IF j < n THEN keys[j] ELSE keys[j + 1]
      BY <1>1, RemoveAtPlaces
    <2> QED
      BY <2>1
  <1>3. \A i \in DOMAIN keys : keys[i] = key => i = n
    BY <1>1, <1>2 DEF NoneTwice
  <1>4. ASSUME NEW i \in DOMAIN keys, i # n
        PROVE  \E j \in DOMAIN fewer : fewer[j] = keys[i] /\ i = IF j < n THEN j ELSE j + 1
    <2>1. CASE i < n
      BY <2>1, <1>2
    <2>2. CASE i > n
      <3>1. i - 1 \in DOMAIN fewer /\ fewer[i - 1] = keys[i] /\ ~(i - 1 < n)
        BY <2>2, <1>2
      <3> QED
        BY <3>1, <1>2
    <2> QED
      BY <1>2, <1>4, <2>1, <2>2
  <1>5. ASSUME NEW j \in DOMAIN fewer
        PROVE  \E i \in DOMAIN keys : i # n /\ fewer[j] = keys[i] /\ i = IF j < n THEN j ELSE j + 1
    <2>1. CASE j < n
      BY <2>1, <1>2
    <2>2. CASE ~(j < n)
      <3>1. j + 1 \in DOMAIN keys /\ fewer[j] = keys[j + 1] /\ j + 1 # n
        BY <2>2, <1>2
      <3> QED
        BY <3>1, <2>2
    <2> QED
      BY <2>1, <2>2
  <1>6. \A k : In(k, fewer) <=> In(k, keys) /\ k # key
    <2>1. ASSUME NEW k, In(k, fewer) PROVE In(k, keys) /\ k # key
      BY <2>1, <1>3, <1>5 DEF In
    <2>2. ASSUME NEW k, In(k, keys), k # key PROVE In(k, fewer)
      BY <2>2, <1>1, <1>4 DEF In
    <2> QED
      BY <2>1, <2>2
  <1>7. ASSUME NEW a, NEW b
        PROVE  Before(a, b, fewer) <=> Before(a, b, keys) /\ a # key /\ b # key
    <2>1. ASSUME Before(a, b, fewer) PROVE Before(a, b, keys) /\ a # key /\ b # key
      <3>1. PICK i, j \in DOMAIN fewer : i < j /\ fewer[i] = a /\ fewer[j] = b
        BY <2>1 DEF Before
      <3>2. PICK p \in DOMAIN keys : p # n /\ a = keys[p] /\ p = IF i < n THEN i ELSE i + 1
        BY <3>1, <1>5
      <3>3. PICK q \in DOMAIN keys : q # n /\ b = keys[q] /\ q = IF j < n THEN j ELSE j + 1
        BY <3>1, <1>5
      <3>4. p < q
        BY <3>1, <3>2, <3>3, <1>2
      <3> QED
        BY <3>2, <3>3, <3>4, <1>3 DEF Before
    <2>2. ASSUME Before(a, b, keys), a # key, b # key PROVE Before(a, b, fewer)
      <3>1. PICK p, q \in DOMAIN keys : p < q /\ keys[p] = a /\ keys[q] = b
        BY <2>2 DEF Before
      <3>2. PICK i \in DOMAIN fewer : fewer[i] = a /\ p = IF i < n THEN i ELSE i + 1
        BY <2>2, <3>1, <1>1, <1>4
      <3>3. PICK j \in DOMAIN fewer : fewer[j] = b /\ q = IF j < n THEN j ELSE j + 1
        BY <2>2, <3>1, <1>1, <1>4
      <3>4. i < j
        BY <3>1, <3>2, <3>3, <1>2
      <3> QED
        BY <3>2, <3>3, <3>4 DEF Before
    <2> QED
      BY <2>1, <2>2
  <1>8. NoneTwice(fewer)
    <2> SUFFICES ASSUME NEW i \in DOMAIN fewer, NEW j \in DOMAIN fewer, fewer[i] = fewer[j]
                 PROVE  i = j
      BY DEF NoneTwice
    <2>1. PICK p \in DOMAIN keys : fewer[i] = keys[p] /\ p = IF i < n THEN i ELSE i + 1
      BY <1>5
    <2>2. PICK q \in DOMAIN keys : fewer[j] = keys[q] /\ q = IF j < n THEN j ELSE j + 1
      BY <1>5
    <2>3. p = q
      BY <2>1, <2>2 DEF NoneTwice
    <2> QED
      BY <2>1, <2>2, <2>3, <1>2
  <1> QED
    BY <1>2, <1>6, <1>7, <1>8 DEF fewer

\* Where the two agree on all keys, they end with the same one.
LEMMA SameLastKey ==
    ASSUME KeysTyped, KeysAgree, unseen = {}
    PROVE  Keyboard!getLastKey(pressedKeys) = IF held = <<>> THEN Keyboard!Stop ELSE Keyboard!Last(held)
  <1> DEFINE h == held[Len(held)]
             p == pressedKeys[Len(pressedKeys)]
  <1>1. /\ Len(held) \in Nat /\ DOMAIN held = 1 .. Len(held) /\ (held = <<>> <=> Len(held) = 0)
        /\ Len(pressedKeys) \in Nat /\ DOMAIN pressedKeys = 1 .. Len(pressedKeys)
        /\ (pressedKeys = <<>> <=> Len(pressedKeys) = 0)
        /\ \A i \in DOMAIN held : held[i] \in Keys
        /\ \A i \in DOMAIN pressedKeys : pressedKeys[i] \in Keys
    BY DEF KeysTyped
  <1>2. \A key \in Keys : In(key, held) <=> In(key, pressedKeys)
    BY DEF KeysAgree
  <1>3. held = <<>> <=> pressedKeys = <<>>
    <2>1. held # <<>> => \E key \in Keys : In(key, held)
      <3>1. held # <<>> => Len(held) \in DOMAIN held
        BY <1>1
      <3> QED
        BY <1>1, <3>1 DEF In
    <2>2. pressedKeys # <<>> => \E key \in Keys : In(key, pressedKeys)
      <3>1. pressedKeys # <<>> => Len(pressedKeys) \in DOMAIN pressedKeys
        BY <1>1
      <3> QED
        BY <1>1, <3>1 DEF In
    <2>3. \A key : (held = <<>> => ~In(key, held)) /\ (pressedKeys = <<>> => ~In(key, pressedKeys))
      BY <1>1 DEF In
    <2> QED
      BY <1>2, <2>1, <2>2, <2>3
  <1>4. CASE held = <<>>
    BY <1>3, <1>4 DEF Keyboard!getLastKey
  <1>5. CASE held # <<>>
    <2>1. /\ Len(held) \in DOMAIN held /\ Len(pressedKeys) \in DOMAIN pressedKeys
          /\ h \in Keys /\ p \in Keys
      BY <1>1, <1>3, <1>5
    <2>2. PICK i \in DOMAIN held : held[i] = p
      BY <1>2, <2>1 DEF In
    <2>3. ASSUME h # p PROVE FALSE
      <3>1. Before(p, h, held)
        BY <1>1, <2>1, <2>2, <2>3 DEF Before
      <3>2. PICK j, k \in DOMAIN pressedKeys : j < k /\ pressedKeys[j] = p /\ pressedKeys[k] = h
        BY <2>1, <3>1 DEF KeysAgree, Before
      <3>3. j = Len(pressedKeys)
        BY <2>1, <3>2 DEF KeysTyped, NoneTwice
      <3> QED
        BY <1>1, <3>2, <3>3
    <2> QED
      BY <1>3, <1>5, <2>3 DEF Keyboard!getLastKey, Keyboard!Last
  <1> QED
    BY <1>4, <1>5

LEMMA LastKeyMoves ==
    ASSUME NEW keys \in Seq(Keys)
    PROVE  Keyboard!getLastKey(keys) \in Moved
  <1>1. CASE keys = <<>>
    BY <1>1 DEF Moved, Keyboard!getLastKey
  <1>2. CASE keys # <<>>
    <2>1. Len(keys) \in 1 .. Len(keys)
      BY <1>2
    <2> QED
      BY <1>2, <2>1 DEF Moved, Keyboard!getLastKey, Keyboard!Last
  <1> QED
    BY <1>1, <1>2

LEMMA UpIsNotIn ==
    ASSUME KeysTyped
    PROVE  /\ \A key : Keyboard!isUp(key) <=> ~In(key, pressedKeys)
           /\ \A key : Keyboard!Contains(held, key) <=> In(key, held)
  BY DEF KeysTyped, In, Keyboard!isUp, Keyboard!Contains

LEMMA PressKeys ==
    ASSUME KeysTyped, NEW keys \in Seq(Keys), Keyboard!Press(keys)
    PROVE  pressedKeys' = keys /\ posts' \in Seq(Moved) /\ LastPosted'
  <1>1. /\ pressedKeys' = keys /\ posts' = Append(posts, Keyboard!getLastKey(keys))
        /\ newest' = "under way"
    BY DEF Keyboard!Press
  <1>2. /\ posts' \in Seq(Moved) /\ posts' # <<>>
        /\ posts'[Len(posts')] = Keyboard!getLastKey(keys)
    <2>1. posts \in Seq(Moved) /\ Keyboard!getLastKey(keys) \in Moved
      BY LastKeyMoves DEF KeysTyped
    <2>2. /\ Append(posts, Keyboard!getLastKey(keys)) \in Seq(Moved)
          /\ Append(posts, Keyboard!getLastKey(keys)) # <<>>
      BY <2>1, AppendOrder
    <2>3. Append(posts, Keyboard!getLastKey(keys))[Len(Append(posts, Keyboard!getLastKey(keys)))]
             = Keyboard!getLastKey(keys)
      BY <2>1, AppendOrder
    <2> QED
      BY <1>1, <2>2, <2>3
  <1> QED
    BY <1>1, <1>2 DEF LastPosted

LEMMA NoPressKeys ==
    ASSUME KeysInv, Keyboard!NoPress
    PROVE  pressedKeys' = pressedKeys /\ posts' \in Seq(Moved) /\ LastPosted'
  BY DEF KeysInv, KeysTyped, LastPosted, Keyboard!NoPress

LEMMA KeyDownKeys ==
    ASSUME KeysInv, NEW key \in Keys, Keyboard!keyDown(key)
    PROVE  /\ pressedKeys' \in Seq(Keys) /\ NoneTwice(pressedKeys')
           /\ posts' \in Seq(Moved) /\ LastPosted'
           /\ pressedKeys' = IF In(key, pressedKeys) THEN pressedKeys ELSE Append(pressedKeys, key)
  <1>1. pressedKeys \in Seq(Keys) /\ NoneTwice(pressedKeys)
    BY DEF KeysInv, KeysTyped
  <1>2. CASE In(key, pressedKeys)
    BY <1>1, <1>2, UpIsNotIn, NoPressKeys DEF KeysInv, Keyboard!keyDown
  <1>3. CASE ~In(key, pressedKeys)
    <2>1. Append(pressedKeys, key) \in Seq(Keys) /\ NoneTwice(Append(pressedKeys, key))
      BY <1>1, <1>3, AppendOrder
    <2>2. Keyboard!Press(Append(pressedKeys, key))
      BY <1>3, UpIsNotIn DEF KeysInv, Keyboard!keyDown
    <2> QED
      BY <1>3, <2>1, <2>2, PressKeys DEF KeysInv
  <1> QED
    BY <1>2, <1>3

LEMMA KeyUpKeys ==
    ASSUME KeysInv, NEW key \in Keys, Keyboard!keyUp(key)
    PROVE  /\ pressedKeys' \in Seq(Keys) /\ NoneTwice(pressedKeys')
           /\ posts' \in Seq(Moved) /\ LastPosted'
           /\ pressedKeys' = IF In(key, pressedKeys) THEN Keyboard!RemoveFirst(pressedKeys, key)
                             ELSE pressedKeys
  <1>1. pressedKeys \in Seq(Keys) /\ NoneTwice(pressedKeys)
    BY DEF KeysInv, KeysTyped
  <1>2. CASE ~In(key, pressedKeys)
    BY <1>1, <1>2, UpIsNotIn, NoPressKeys DEF KeysInv, Keyboard!keyUp
  <1>3. CASE In(key, pressedKeys)
    <2>1. /\ Keyboard!RemoveFirst(pressedKeys, key) \in Seq(Keys)
          /\ NoneTwice(Keyboard!RemoveFirst(pressedKeys, key))
      BY <1>1, <1>3, RemoveFirstOrder
    <2>2. Keyboard!Press(Keyboard!RemoveFirst(pressedKeys, key))
      BY <1>3, UpIsNotIn DEF KeysInv, Keyboard!keyUp
    <2> QED
      BY <1>3, <2>1, <2>2, PressKeys DEF KeysInv
  <1> QED
    BY <1>2, <1>3

LEMMA InitKeys == Init => KeysInv
  <1> SUFFICES ASSUME Init PROVE KeysInv
    OBVIOUS
  <1>1. pressedKeys = <<>> /\ posts = <<>> /\ held = <<>> /\ move = Keyboard!Stop /\ newest = "handled"
    BY DEF Init, Keyboard!Init
  <1>2. DOMAIN held = {} /\ DOMAIN pressedKeys = {}
    BY <1>1
  <1>3. KeysTyped
    BY <1>1, <1>2 DEF KeysTyped, NoneTwice
  <1>4. KeysAgree
    BY <1>2 DEF KeysAgree, In, Before
  <1> QED
    BY <1>1, <1>3, <1>4 DEF KeysInv, LastPosted, Keyboard!getLastKey

LEMMA KeyPressedKeys ==
    ASSUME KeysInv, NEW key \in Keys, Keyboard!KeyPressed(key)
    PROVE  KeysInv'
  <1>1. /\ ~In(key, held) /\ held' = Append(held, key) /\ Keyboard!keyDown(key) /\ unseen' = unseen
    BY UpIsNotIn DEF KeysInv, Keyboard!KeyPressed
  <1>2. /\ held' \in Seq(Keys) /\ NoneTwice(held')
        /\ \A k : In(k, held') <=> In(k, held) \/ k = key
        /\ \A a, b : Before(a, b, held') <=> Before(a, b, held) \/ (In(a, held) /\ b = key)
    BY <1>1, AppendOrder DEF KeysInv, KeysTyped
  <1>3. CASE In(key, pressedKeys)
    <2>1. pressedKeys' = pressedKeys /\ key \in unseen
      BY <1>1, <1>3, KeyDownKeys DEF KeysInv, KeysAgree
    <2>2. KeysAgree'
      BY <1>1, <1>2, <2>1 DEF KeysInv, KeysAgree
    <2> QED
      BY <1>1, <1>2, <2>2, KeyDownKeys DEF KeysInv, KeysTyped
  <1>4. CASE ~In(key, pressedKeys)
    <2>1. pressedKeys' = Append(pressedKeys, key) /\ pressedKeys \in Seq(Keys)
      BY <1>1, <1>4, KeyDownKeys DEF KeysInv, KeysTyped
    <2>2. /\ \A k : In(k, pressedKeys') <=> In(k, pressedKeys) \/ k = key
          /\ \A a, b : Before(a, b, pressedKeys') <=>
                Before(a, b, pressedKeys) \/ (In(a, pressedKeys) /\ b = key)
      BY <2>1, AppendOrder
    <2>3. KeysAgree'
      BY <1>1, <1>2, <2>2 DEF KeysInv, KeysAgree
    <2> QED
      BY <1>1, <1>2, <2>3, KeyDownKeys DEF KeysInv, KeysTyped
  <1> QED
    BY <1>3, <1>4

LEMMA KeyReleasedKeys ==
    ASSUME KeysInv, NEW key \in Keys, Keyboard!KeyReleased(key)
    PROVE  KeysInv'
  <1>1. /\ In(key, held) /\ held' = Keyboard!RemoveFirst(held, key)
        /\ Keyboard!keyUp(key) /\ unseen' = unseen \ {key}
    BY UpIsNotIn DEF KeysInv, Keyboard!KeyReleased
  <1>2. /\ held' \in Seq(Keys) /\ NoneTwice(held')
        /\ \A k : In(k, held') <=> In(k, held) /\ k # key
        /\ \A a, b : Before(a, b, held') <=> Before(a, b, held) /\ a # key /\ b # key
    BY <1>1, RemoveFirstOrder DEF KeysInv, KeysTyped
  <1>3. /\ \A k : In(k, pressedKeys') <=> In(k, pressedKeys) /\ k # key
        /\ \A a, b : a # key /\ b # key =>
              (Before(a, b, pressedKeys') <=> Before(a, b, pressedKeys))
    <2>1. CASE ~In(key, pressedKeys)
      BY <1>1, <2>1, KeyUpKeys
    <2>2. CASE In(key, pressedKeys)
      <3>1. /\ pressedKeys' = Keyboard!RemoveFirst(pressedKeys, key)
            /\ pressedKeys \in Seq(Keys) /\ NoneTwice(pressedKeys)
        BY <1>1, <2>2, KeyUpKeys DEF KeysInv, KeysTyped
      <3> QED
        BY <2>2, <3>1, RemoveFirstOrder
    <2> QED
      BY <2>1, <2>2
  <1>4. KeysAgree'
    BY <1>1, <1>2, <1>3 DEF KeysInv, KeysAgree
  <1> QED
    BY <1>1, <1>2, <1>4, KeyUpKeys DEF KeysInv, KeysTyped

LEMMA KeyRepeatedKeys ==
    ASSUME KeysInv, Keyboard!KeyRepeated
    PROVE  KeysInv'
  <1> DEFINE key == held[Len(held)]
  <1>1. /\ held # <<>> /\ held' = held /\ Keyboard!keyDown(key)
        /\ unseen' = IF ~In(key, pressedKeys) THEN unseen \ {key} ELSE unseen
    BY UpIsNotIn DEF KeysInv, Keyboard!KeyRepeated, Keyboard!Last
  <1>2. /\ held \in Seq(Keys) /\ NoneTwice(held) /\ DOMAIN held = 1 .. Len(held)
        /\ Len(held) \in DOMAIN held /\ key \in Keys
    BY <1>1 DEF KeysInv, KeysTyped
  <1>3. CASE In(key, pressedKeys)
    <2>1. pressedKeys' = pressedKeys /\ unseen' = unseen
      BY <1>1, <1>2, <1>3, KeyDownKeys
    <2>2. KeysAgree'
      BY <1>1, <2>1 DEF KeysInv, KeysAgree
    <2> QED
      BY <1>1, <1>2, <2>2, KeyDownKeys DEF KeysInv, KeysTyped
  <1>4. CASE ~In(key, pressedKeys)
    <2>1. /\ pressedKeys' = Append(pressedKeys, key) /\ pressedKeys \in Seq(Keys)
          /\ unseen' = unseen \ {key}
      BY <1>1, <1>2, <1>4, KeyDownKeys DEF KeysInv, KeysTyped
    <2>2. /\ \A k : In(k, pressedKeys') <=> In(k, pressedKeys) \/ k = key
          /\ \A a, b : Before(a, b, pressedKeys') <=>
                Before(a, b, pressedKeys) \/ (In(a, pressedKeys) /\ b = key)
      BY <1>2, <2>1, AppendOrder
    <2>3. \A b : ~Before(key, b, held)
      BY <1>2 DEF NoneTwice, Before
    <2>4. ~Before(key, key, held) /\ \A a : Before(a, key, held) => In(a, held)
      BY <2>3 DEF Before, In
    <2>5. In(key, held)
      BY <1>2 DEF In
    <2> HIDE DEF key
    <2>6. ASSUME NEW a \in Keys \ unseen', NEW b \in Keys \ unseen', Before(a, b, held)
          PROVE  Before(a, b, pressedKeys')
      <3>1. a # key /\ a \in Keys \ unseen
        BY <2>1, <2>3, <2>6
      <3>2. CASE b = key
        BY <2>2, <2>4, <2>6, <3>1, <3>2 DEF KeysInv, KeysAgree
      <3>3. CASE b # key
        BY <2>1, <2>2, <2>6, <3>1, <3>3 DEF KeysInv, KeysAgree
      <3> QED
        BY <3>2, <3>3
    <2>7. \A k \in Keys \ unseen' : In(k, held) <=> In(k, pressedKeys')
      BY <2>1, <2>2, <2>5 DEF KeysInv, KeysAgree
    <2>8. KeysAgree'
      BY <1>1, <2>6, <2>7 DEF KeysAgree
    <2> QED
      BY <1>1, <1>2, <2>8, KeyDownKeys DEF KeysInv, KeysTyped
  <1> QED
    BY <1>3, <1>4

LEMMA PressMissedKeys ==
    ASSUME KeysInv, NEW key \in Keys, Keyboard!PressMissed(key)
    PROVE  KeysInv'
  <1>1. /\ ~In(key, held) /\ held' = Append(held, key) /\ unseen' = unseen \cup {key}
        /\ Keyboard!NoPress
    BY UpIsNotIn DEF KeysInv, Keyboard!PressMissed
  <1>2. /\ held' \in Seq(Keys) /\ NoneTwice(held')
        /\ \A k : In(k, held') <=> In(k, held) \/ k = key
        /\ \A a, b : Before(a, b, held') <=> Before(a, b, held) \/ (In(a, held) /\ b = key)
    BY <1>1, AppendOrder DEF KeysInv, KeysTyped
  <1>3. KeysAgree'
    BY <1>1, <1>2, NoPressKeys DEF KeysInv, KeysAgree
  <1> QED
    BY <1>1, <1>2, <1>3, NoPressKeys DEF KeysInv, KeysTyped

LEMMA ReleaseMissedKeys ==
    ASSUME KeysInv, NEW key \in Keys, Keyboard!ReleaseMissed(key)
    PROVE  KeysInv'
  <1>1. /\ In(key, held) /\ held' = Keyboard!RemoveFirst(held, key) /\ Keyboard!NoPress
        /\ unseen' = IF ~In(key, pressedKeys) THEN unseen \ {key} ELSE unseen \cup {key}
    BY UpIsNotIn DEF KeysInv, Keyboard!ReleaseMissed
  <1>2. /\ held' \in Seq(Keys) /\ NoneTwice(held')
        /\ \A k : In(k, held') <=> In(k, held) /\ k # key
        /\ \A a, b : Before(a, b, held') <=> Before(a, b, held) /\ a # key /\ b # key
    BY <1>1, RemoveFirstOrder DEF KeysInv, KeysTyped
  <1>3. pressedKeys' = pressedKeys
    BY <1>1, NoPressKeys
  <1>4. KeysAgree'
    BY <1>1, <1>2, <1>3 DEF KeysInv, KeysAgree
  <1> QED
    BY <1>1, <1>2, <1>4, NoPressKeys DEF KeysInv, KeysTyped

LEMMA PostKeys ==
    ASSUME KeysInv, NEW n, Keyboard!PostHandled(n) \/ Keyboard!PostFails(n)
    PROVE  KeysInv'
  <1>1. /\ n \in 1 .. Len(posts) /\ posts' = Keyboard!RemoveAt(posts, n)
        /\ UNCHANGED <<pressedKeys, held, unseen>>
    <2>1. /\ n \in DOMAIN posts /\ posts' = Keyboard!RemoveAt(posts, n)
          /\ UNCHANGED <<pressedKeys, held, unseen>>
      BY DEF Keyboard!PostHandled, Keyboard!PostFails
    <2>2. posts \in Seq(Moved)
      BY DEF KeysInv, KeysTyped
    <2> QED
      BY <2>1, <2>2
  <1>2. /\ posts' \in Seq(Moved) /\ Len(posts') = Len(posts) - 1 /\ Len(posts) \in Nat
        /\ \A j \in 1 .. Len(posts) - 1 : posts'[j] = IF j < n THEN posts[j] ELSE posts[j + 1]
    <2>1. posts \in Seq(Moved)
      BY DEF KeysInv, KeysTyped
    <2>2. /\ Keyboard!RemoveAt(posts, n) \in Seq(Moved)
          /\ Len(Keyboard!RemoveAt(posts, n)) = Len(posts) - 1
          /\ \A j \in 1 .. Len(posts) - 1 :
                Keyboard!RemoveAt(posts, n)[j] = IF j < n THEN posts[j] ELSE posts[j + 1]
      BY <1>1, <2>1, RemoveAtPlaces
    <2> QED
      BY <1>1, <2>1, <2>2
  <1>3. KeysTyped' /\ KeysAgree'
    BY <1>1, <1>2 DEF KeysInv, KeysTyped, KeysAgree
  <1>4. n # Len(posts) => posts' # <<>> /\ posts'[Len(posts')] = posts[Len(posts)]
    BY <1>1, <1>2
  <1>5. /\ newest' = "under way" => newest = "under way" /\ n # Len(posts)
        /\ newest' = "handled" => \/ newest = "handled" /\ move' = move
                                  \/ newest = "under way" /\ n = Len(posts) /\ move' = posts[n]
    BY DEF Keyboard!PostHandled, Keyboard!PostFails
  <1>6. LastPosted'
    BY <1>1, <1>4, <1>5 DEF KeysInv, LastPosted
  <1> QED
    BY <1>3, <1>6 DEF KeysInv

LEMMA NextKeys == KeysInv /\ [Next]_vars => KeysInv'
  <1> SUFFICES ASSUME KeysInv, [Next]_vars PROVE KeysInv'
    OBVIOUS
  <1>1. CASE UNCHANGED keyVars
    <2>1. UNCHANGED <<pressedKeys, posts, move, held, unseen, newest>>
      BY <1>1 DEF keyVars
    <2> QED
      BY <2>1 DEF KeysInv, KeysTyped, KeysAgree, LastPosted
  <1>2. CASE UseKeys
    <2>1. \/ Keyboard!KeyRepeated
          \/ \E key \in Keys : \/ Keyboard!KeyPressed(key) \/ Keyboard!KeyReleased(key)
                               \/ Keyboard!PressMissed(key) \/ Keyboard!ReleaseMissed(key)
      BY <1>2 DEF UseKeys, Keyboard!KeyEvent, Keyboard!KeyMissed
    <2> QED
      BY <2>1, KeyRepeatedKeys, KeyPressedKeys, KeyReleasedKeys, PressMissedKeys, ReleaseMissedKeys
  <1>3. CASE Post
    BY <1>3, PostKeys DEF Post, Keyboard!PostStep
  <1> QED
    BY <1>1, <1>2, <1>3 DEF Next, Load, CreateGame, vars

\* Whatever keys are pressed, repeated, released and missed, and in whatever
\* order any number of requests is answered or fails: when the last of all was
\* handled last, the dog goes where the key pressed last of those held points.
THEOREM DogMovesAsLastKey == Spec => []MoveIsLastKey
  <1>1. KeysInv => MoveIsLastKey
    BY SameLastKey DEF KeysInv, LastPosted, MoveIsLastKey, Keyboard!MoveIsLastKey
  <1> QED
    BY <1>1, InitKeys, NextKeys, PTL DEF Spec

-----------------------------------------------------------------------------
(* The turning of an actor.  An angle that was shown is where the turn     *)
(* began or where the turn has come to at a time that is over.             *)

Angles == -FullTurn .. 7 * Quarter
Calls == {Free, Asked} \cup {Answered(d) : d \in Directions}

TurningTyped ==
    /\ dir \in Directions /\ calls \in [StateSlots -> Calls] /\ known \in BOOLEAN
    /\ desired_dir \in 0 .. 3 * Quarter /\ sinceDir \in 0 .. LongAgo
    /\ base_dir \in Angles /\ converted_dir \in Angles

TurningInv ==
    /\ TurningTyped
    /\ \/ converted_dir = base_dir
       \/ \E t \in 0 .. sinceDir : converted_dir = Turned(base_dir, desired_dir, t)

LEMMA DirectionsAreAngles == Directions \subseteq 0 .. 3 * Quarter
  BY TurningAssumption DEF Directions, convDirection, HalfTurn

LEMMA Remainders ==
    ASSUME NEW n \in Nat \ {0}, NEW r \in 0 .. n - 1
    PROVE  r % n = r /\ (r - n) % n = r
  OBVIOUS

LEMMA WayIsDistance ==
    ASSUME NEW from \in Int, NEW to \in Int, NEW d \in 0 .. HalfTurn,
           to - from \in {d, d - FullTurn, -d, FullTurn - d}
    PROVE  Way(from, to) = d
  <1> DEFINE around == (to - from) % FullTurn
  <1>1. /\ Quarter \in Nat \ {0} /\ HalfTurn \in Nat /\ FullTurn \in Nat \ {0}
        /\ FullTurn = 2 * HalfTurn /\ d < FullTurn
    BY TurningAssumption DEF HalfTurn, FullTurn
  <1>2. CASE to - from \in {d, d - FullTurn}
    <2>1. around = d
      BY <1>1, <1>2, Remainders
    <2> QED
      BY <2>1 DEF Way
  <1>3. CASE to - from \in {-d, FullTurn - d} /\ d # 0
    <2>1. FullTurn - d \in 0 .. FullTurn - 1 /\ -d = (FullTurn - d) - FullTurn
      BY <1>1, <1>3
    <2>2. around = FullTurn - d
      BY <1>1, <1>3, <2>1, Remainders
    <2> QED
      BY <1>1, <2>2 DEF Way
  <1>4. CASE to - from \in {-d, FullTurn - d} /\ d = 0
    <2>1. 0 % FullTurn = 0 /\ FullTurn % FullTurn = 0
      BY <1>1
    <2>2. around = 0
      BY <1>1, <1>4, <2>1
    <2> QED
      BY <1>1, <1>4, <2>2 DEF Way
  <1> QED
    BY <1>2, <1>3, <1>4

LEMMA WayIsShort ==
    ASSUME NEW from \in Int, NEW to \in Int
    PROVE  Way(from, to) \in 0 .. HalfTurn /\ Way(from, from) = 0
  <1>1. /\ HalfTurn \in Nat /\ FullTurn \in Nat \ {0} /\ FullTurn = 2 * HalfTurn
    BY TurningAssumption DEF HalfTurn, FullTurn
  <1>2. (to - from) % FullTurn \in 0 .. FullTurn - 1
    BY <1>1
  <1>3. Way(from, to) \in 0 .. HalfTurn
    BY <1>1, <1>2 DEF Way
  <1>4. Way(from, from) = 0
    BY <1>1, WayIsDistance
  <1> QED
    BY <1>3, <1>4

\* A turn that is under way is on the shorter way, wherever it began.
LEMMA UnderWay ==
    ASSUME NEW from \in Angles, NEW to \in 0 .. 3 * Quarter, NEW t \in Nat,
           t <= real_rot_delta(from, to)
    PROVE  /\ Turned(from, to, t) \in Angles
           /\ Way(from, Turned(from, to, t)) = t
           /\ Way(Turned(from, to, t), to) = real_rot_delta(from, to) - t
           /\ Way(from, to) = real_rot_delta(from, to)
  <1> DEFINE at == Turned(from, to, t)
             delta == to - from
             real == real_rot_delta(from, to)
  <1>1. /\ Quarter \in Nat \ {0} /\ HalfTurn = 2 * Quarter /\ FullTurn = 4 * Quarter
        /\ from \in Int /\ to \in Int /\ delta \in Int
    BY TurningAssumption DEF HalfTurn, FullTurn, Angles
  <1>2. /\ at = from + rot_dir(from, to) * t
        /\ real = LET away == IF delta < 0 THEN -delta ELSE delta
                  IN  IF away >= HalfTurn THEN FullTurn - away ELSE away
        /\ rot_dir(from, to) = IF delta <= -HalfTurn \/ (0 <= delta /\ delta < HalfTurn) THEN 1 ELSE -1
    <2>1. real \in Int
      BY <1>1 DEF real_rot_delta, rot_delta, Abs
    <2>2. at = from + rot_dir(from, to) * t
      BY <2>1 DEF Turned
    <2> QED
      BY <2>2 DEF real_rot_delta, rot_dir, rot_delta, Abs
  <1> HIDE DEF at, real
  <1>3. CASE 0 <= delta /\ delta < HalfTurn
    <2>1. real = delta /\ at = from + t
      BY <1>1, <1>2, <1>3
    <2>2. real \in 0 .. HalfTurn /\ t \in 0 .. HalfTurn /\ real - t \in 0 .. HalfTurn /\ at \in Int
      BY <1>1, <1>3, <2>1 DEF real
    <2>3. at - from = t /\ to - at = real - t
      BY <1>1, <2>1
    <2>4. Way(from, at) = t /\ Way(at, to) = real - t /\ Way(from, to) = real
      BY <1>1, <2>1, <2>2, <2>3, WayIsDistance
    <2>5. at \in Angles
      BY <1>1, <1>3, <2>1, <2>2 DEF Angles
    <2> QED
      BY <2>4, <2>5 DEF at, real
  <1>4. CASE delta < 0 /\ -HalfTurn < delta
    <2>1. real = -delta /\ at = from - t
      BY <1>1, <1>2, <1>4
    <2>2. real \in 0 .. HalfTurn /\ t \in 0 .. HalfTurn /\ real - t \in 0 .. HalfTurn /\ at \in Int
      BY <1>1, <1>4, <2>1 DEF real
    <2>3. at - from = -t /\ to - at = -(real - t)
      BY <1>1, <2>1
    <2>4. Way(from, at) = t /\ Way(at, to) = real - t /\ Way(from, to) = real
      BY <1>1, <2>1, <2>2, <2>3, WayIsDistance
    <2>5. at \in Angles
      BY <1>1, <1>4, <2>1, <2>2 DEF Angles
    <2> QED
      BY <2>4, <2>5 DEF at, real
  <1>5. CASE delta <= -HalfTurn
    <2>1. real = FullTurn + delta /\ at = from + t
      BY <1>1, <1>2, <1>5
    <2>2. real \in 0 .. HalfTurn /\ t \in 0 .. HalfTurn /\ real - t \in 0 .. HalfTurn /\ at \in Int
      BY <1>1, <1>5, <2>1 DEF real
    <2>3. at - from = t /\ to - at = (real - t) - FullTurn /\ to - from = real - FullTurn
      BY <1>1, <2>1
    <2>4. Way(from, at) = t /\ Way(at, to) = real - t /\ Way(from, to) = real
      BY <1>1, <2>1, <2>2, <2>3, WayIsDistance
    <2>5. at \in Angles
      BY <1>1, <1>5, <2>1, <2>2 DEF Angles
    <2> QED
      BY <2>4, <2>5 DEF at, real
  <1>6. CASE HalfTurn <= delta
    <2>1. real = FullTurn - delta /\ at = from - t
      BY <1>1, <1>2, <1>6
    <2>2. real \in 0 .. HalfTurn /\ t \in 0 .. HalfTurn /\ real - t \in 0 .. HalfTurn /\ at \in Int
      BY <1>1, <1>6, <2>1 DEF real
    <2>3. at - from = -t /\ to - at = FullTurn - (real - t) /\ to - from = FullTurn - real
      BY <1>1, <2>1
    <2>4. Way(from, at) = t /\ Way(at, to) = real - t /\ Way(from, to) = real
      BY <1>1, <2>1, <2>2, <2>3, WayIsDistance
    <2>5. at \in Angles
      BY <1>1, <1>6, <2>1, <2>2 DEF Angles
    <2> QED
      BY <2>4, <2>5 DEF at, real
  <1> QED
    BY <1>1, <1>3, <1>4, <1>5, <1>6

LEMMA TurnOver ==
    ASSUME NEW from \in Angles, NEW to \in 0 .. 3 * Quarter, NEW t \in Nat,
           ~(t <= real_rot_delta(from, to))
    PROVE  Turned(from, to, t) = to
  <1>1. real_rot_delta(from, to) \in Int
    BY TurningAssumption DEF real_rot_delta, rot_delta, Abs, HalfTurn, FullTurn, Angles
  <1> QED
    BY <1>1 DEF Turned

LEMMA InitTurning == TurningInit => TurningInv
  <1> SUFFICES ASSUME TurningInit PROVE TurningInv
    OBVIOUS
  <1>1. /\ dir \in Directions /\ calls \in [StateSlots -> Calls] /\ known = FALSE
        /\ desired_dir = 0 /\ base_dir = 0 /\ converted_dir = 0 /\ sinceDir = 0
    BY DEF TurningInit, Calls
  <1>2. 0 \in 0 .. 3 * Quarter /\ 0 \in Angles /\ 0 \in 0 .. LongAgo
    BY TurningAssumption DEF Angles, FullTurn, LongAgo, HalfTurn
  <1> QED
    BY <1>1, <1>2 DEF TurningInv, TurningTyped

\* Time, the server and requests leave the angles alone.
LEMMA TurnStays ==
    ASSUME TurningInv, UNCHANGED turn, dir' \in Directions, calls' \in [StateSlots -> Calls],
           sinceDir' \in sinceDir .. LongAgo
    PROVE  TurningInv'
  <1>1. UNCHANGED <<known, desired_dir, base_dir, converted_dir>>
    BY DEF turn
  <1>2. sinceDir \in Nat /\ LongAgo \in Nat
    BY TurningAssumption DEF TurningInv, TurningTyped, LongAgo, HalfTurn
  <1>3. 0 .. sinceDir \subseteq 0 .. sinceDir' /\ sinceDir' \in 0 .. LongAgo
    BY <1>2
  <1>4. TurningTyped'
    BY <1>1, <1>3 DEF TurningInv, TurningTyped
  <1> QED
    BY <1>1, <1>3, <1>4 DEF TurningInv

LEMMA AnswerTurns ==
    ASSUME TurningInv, NEW c \in StateSlots, StateDone(c)
    PROVE  TurningInv'
  <1> DEFINE newDir == calls[c].dir
  <1>1. /\ calls[c].phase = "answered" /\ calls' = [calls EXCEPT ![c] = Free]
        /\ desired_dir' = newDir /\ base_dir' = Base(newDir)
        /\ converted_dir' = Converted(newDir) /\ sinceDir' = Since(newDir)
        /\ known' = TRUE /\ dir' = dir
    BY DEF StateDone
  <1>2. calls[c] \in Calls
    BY DEF TurningInv, TurningTyped
  <1>3. newDir \in Directions
    BY <1>1, <1>2 DEF Calls, Free, Asked, Answered
  <1>4. newDir \in 0 .. 3 * Quarter /\ newDir \in Angles
    <2>1. newDir \in 0 .. 3 * Quarter
      BY <1>3, DirectionsAreAngles
    <2> QED
      BY <2>1, TurningAssumption DEF Angles, FullTurn
  <1>5. calls' \in [StateSlots -> Calls]
    BY <1>1 DEF TurningInv, TurningTyped, Calls
  <1> HIDE DEF newDir
  <1>6. CASE Goes(newDir)
    <2>1. /\ desired_dir' = desired_dir /\ base_dir' = base_dir /\ sinceDir' = sinceDir
          /\ converted_dir' = Turned(base_dir, desired_dir, sinceDir)
      BY <1>1, <1>6 DEF Goes, Base, Since, Converted
    <2>2. /\ base_dir \in Angles /\ desired_dir \in 0 .. 3 * Quarter
          /\ sinceDir \in 0 .. LongAgo /\ sinceDir \in Nat
      BY TurningAssumption DEF TurningInv, TurningTyped, LongAgo, HalfTurn
    <2>3. converted_dir' \in Angles
      <3>1. desired_dir \in Angles
        BY <2>2, TurningAssumption DEF Angles, FullTurn
      <3> QED
        BY <2>1, <2>2, <3>1, UnderWay, TurnOver
    <2>4. TurningTyped'
      BY <1>1, <1>5, <2>1, <2>2, <2>3 DEF TurningInv, TurningTyped
    <2>5. sinceDir \in 0 .. sinceDir
      BY <2>2
    <2>6. \E t \in 0 .. sinceDir' : converted_dir' = Turned(base_dir', desired_dir', t)
      BY <2>1, <2>5
    <2> QED
      BY <2>4, <2>6 DEF TurningInv, Turned, rot_dir, rot_delta, real_rot_delta
  <1>7. CASE ~Goes(newDir)
    <2>1. /\ base_dir' \in {newDir, converted_dir} /\ converted_dir' = base_dir' /\ sinceDir' = 0
      BY <1>1, <1>7 DEF Base, Since, Converted
    <2>2. 0 \in 0 .. LongAgo
      BY TurningAssumption DEF LongAgo, HalfTurn
    <2>3. TurningTyped'
      BY <1>1, <1>4, <1>5, <2>1, <2>2 DEF TurningInv, TurningTyped
    <2> QED
      BY <2>1, <2>3 DEF TurningInv
  <1> QED
    BY <1>6, <1>7

LEMMA NextTurning == TurningInv /\ [TurningNext]_turningVars => TurningInv'
  <1> SUFFICES ASSUME TurningInv, [TurningNext]_turningVars PROVE TurningInv'
    OBVIOUS
  <1>1. /\ dir \in Directions /\ calls \in [StateSlots -> Calls]
        /\ sinceDir \in 0 .. LongAgo /\ LongAgo \in Nat
    BY TurningAssumption DEF TurningInv, TurningTyped, LongAgo, HalfTurn
  <1>2. sinceDir \in sinceDir .. LongAgo
    BY <1>1
  <1>3. CASE UNCHANGED turningVars
    BY <1>1, <1>2, <1>3, TurnStays DEF turningVars
  <1>4. CASE DogTurns
    BY <1>1, <1>2, <1>4, TurnStays DEF DogTurns
  <1>5. ASSUME NEW c \in StateSlots, AnswerState(c) \/ StateFails(c) PROVE TurningInv'
    <2>1. calls' \in [StateSlots -> Calls]
      BY <1>1, <1>5 DEF AnswerState, StateFails, Calls
    <2> QED
      BY <1>1, <1>2, <1>5, <2>1, TurnStays DEF AnswerState, StateFails
  <1>6. CASE Frame
    <2>1. calls' \in [StateSlots -> Calls]
      BY <1>1, <1>6 DEF Frame, Calls
    <2>2. sinceDir' \in sinceDir .. LongAgo
      BY <1>1, <1>6 DEF Frame
    <2> QED
      BY <1>1, <1>6, <2>1, <2>2, TurnStays DEF Frame
  <1> QED
    BY <1>3, <1>4, <1>5, <1>6, AnswerTurns DEF TurningNext

\* What holds of an actor in every state.
LEMMA TurningIsInvariant == TurningSpec => []TurningInv
  BY InitTurning, NextTurning, PTL DEF TurningSpec

\* The angles leave the circle that _interpolateRotation reckons with, for it
\* takes them as they are; but by a turn at most, however often a turn is
\* interrupted.
THEOREM AnglesStayNear == TurningSpec => [](converted_dir \in -FullTurn .. 7 * Quarter)
  <1>1. TurningInv => converted_dir \in -FullTurn .. 7 * Quarter
    BY DEF TurningInv, TurningTyped, Angles
  <1> QED
    BY <1>1, TurningIsInvariant, PTL

\* For quarter turns of any number of steps, any requests under way and any
\* order of their answers, an actor that turns is on the shorter way.
THEOREM ActorTurnsShortest == TurningSpec => []TurnIsShortest
  <1>1. TurningInv => TurnIsShortest
    <2> SUFFICES ASSUME TurningInv PROVE TurnIsShortest
      OBVIOUS
    <2>1. base_dir \in Angles /\ base_dir \in Int /\ desired_dir \in 0 .. 3 * Quarter /\ desired_dir \in Int
      BY TurningAssumption DEF TurningInv, TurningTyped, Angles
    <2>2. CASE converted_dir = base_dir
      BY <2>1, <2>2, WayIsShort DEF TurnIsShortest
    <2>3. ASSUME NEW t \in 0 .. sinceDir, converted_dir = Turned(base_dir, desired_dir, t)
          PROVE  TurnIsShortest
      <3>1. t \in Nat /\ real_rot_delta(base_dir, desired_dir) \in Int
        BY <2>1, TurningAssumption DEF real_rot_delta, rot_delta, Abs, HalfTurn, FullTurn
      <3>2. CASE t <= real_rot_delta(base_dir, desired_dir)
        BY <2>1, <2>3, <3>1, <3>2, UnderWay DEF TurnIsShortest
      <3>3. CASE ~(t <= real_rot_delta(base_dir, desired_dir))
        BY <2>1, <2>3, <3>1, <3>3, TurnOver DEF TurnIsShortest
      <3> QED
        BY <3>2, <3>3
    <2> QED
      BY <2>2, <2>3 DEF TurningInv
  <1> QED
    BY <1>1, TurningIsInvariant, PTL

\* No answer turns an actor away from where it shall look while that stays.
THEOREM ActorNeverTurnsAway == TurningSpec => NeverTurnsAway
  <1>1. TurningInv /\ [TurningNext]_turningVars
            => [desired_dir' = desired_dir /\ known =>
                  Way(converted_dir', desired_dir) <= Way(converted_dir, desired_dir)]_turningVars
    <2> SUFFICES ASSUME TurningInv, TurningNext, desired_dir' = desired_dir, known
                 PROVE  Way(converted_dir', desired_dir) <= Way(converted_dir, desired_dir)
      OBVIOUS
    <2>1. /\ base_dir \in Angles /\ base_dir \in Int /\ desired_dir \in 0 .. 3 * Quarter
          /\ desired_dir \in Int /\ converted_dir \in Int /\ sinceDir \in Nat
      BY TurningAssumption DEF TurningInv, TurningTyped, Angles, LongAgo, HalfTurn
    <2>2. Way(converted_dir, desired_dir) \in Nat
      <3>1. HalfTurn \in Nat
        BY TurningAssumption DEF HalfTurn
      <3>2. Way(converted_dir, desired_dir) \in 0 .. HalfTurn
        BY <2>1, WayIsShort
      <3> QED
        BY <3>1, <3>2
    <2>3. CASE converted_dir' = converted_dir
      BY <2>2, <2>3
    <2>4. ASSUME NEW c \in StateSlots, StateDone(c)
          PROVE  Way(converted_dir', desired_dir) <= Way(converted_dir, desired_dir)
      <3> DEFINE real == real_rot_delta(base_dir, desired_dir)
      <3>1. converted_dir' = Turned(base_dir, desired_dir, sinceDir)
        BY <2>4 DEF StateDone, Goes, Converted
      <3>2. real \in Int
        BY <2>1, TurningAssumption DEF real_rot_delta, rot_delta, Abs, HalfTurn, FullTurn
      <3> HIDE DEF real
      <3>3. CASE ~(sinceDir <= real)
        <4>1. converted_dir' = desired_dir
          BY <2>1, <3>1, <3>3, TurnOver DEF real
        <4> QED
          BY <2>1, <2>2, <4>1, WayIsShort
      <3>4. CASE sinceDir <= real
        <4>1. Way(converted_dir', desired_dir) = real - sinceDir /\ Way(base_dir, desired_dir) = real
          BY <2>1, <3>1, <3>4, UnderWay DEF real
        <4>2. CASE converted_dir = base_dir
          BY <2>1, <3>2, <4>1, <4>2
        <4>3. ASSUME NEW t \in 0 .. sinceDir, converted_dir = Turned(base_dir, desired_dir, t)
              PROVE  Way(converted_dir', desired_dir) <= Way(converted_dir, desired_dir)
          <5>1. t \in Nat /\ t <= sinceDir /\ t <= real
            BY <2>1, <3>2, <3>4
          <5>2. Way(converted_dir, desired_dir) = real - t
            BY <2>1, <4>3, <5>1, UnderWay DEF real
          <5> QED
            BY <2>1, <3>2, <4>1, <5>1, <5>2
        <4> QED
          BY <4>2, <4>3 DEF TurningInv
      <3> QED
        BY <3>3, <3>4
    <2> QED
      BY <2>3, <2>4 DEF TurningNext, DogTurns, AnswerState, StateFails, Frame, turn
  <1> QED
    BY <1>1, TurningIsInvariant, PTL DEF TurningSpec, NeverTurnsAway

\* The model may stop counting at LongAgo: from any angle an actor is ever
\* shown at, every turn is over by then and stays over.
THEOREM LongAgoIsEnough ==
    ASSUME NEW from \in Angles, NEW to \in Directions, NEW t \in Nat, t >= LongAgo
    PROVE  Turned(from, to, t) = to
  <1>1. /\ to \in 0 .. 3 * Quarter /\ Quarter \in Nat \ {0}
        /\ HalfTurn = 2 * Quarter /\ FullTurn = 4 * Quarter /\ LongAgo = HalfTurn + 1
        /\ from \in -FullTurn .. 7 * Quarter
    BY DirectionsAreAngles, TurningAssumption DEF HalfTurn, FullTurn, LongAgo, Angles
  <1>2. real_rot_delta(from, to) \in Int /\ real_rot_delta(from, to) <= HalfTurn
    BY <1>1 DEF real_rot_delta, rot_delta, Abs
  <1>3. ~(t <= real_rot_delta(from, to))
    BY <1>1, <1>2
  <1> QED
    BY <1>1, <1>3, TurnOver

\* An answer that finds the dog still in the direction in which the actor began
\* to turn LongAgo finishes the turn, whatever angle it began from.
TurnIsFinished ==
    \A c \in StateSlots :
        StateDone(c) /\ Goes(calls[c].dir) /\ sinceDir = LongAgo => converted_dir' = desired_dir'

\* In every step of the page, for any angles and any interleaving of answers,
\* a turn whose time is over ends at the wanted angle (_interpolateRotation).
THEOREM TurnsAreFinished == TurningSpec => [][TurnIsFinished]_turningVars
  <1>1. TurningInv /\ [TurningNext]_turningVars => [TurnIsFinished]_turningVars
    <2> SUFFICES ASSUME TurningInv, NEW c \in StateSlots, StateDone(c),
                        Goes(calls[c].dir), sinceDir = LongAgo
                 PROVE  converted_dir' = desired_dir'
      BY DEF TurnIsFinished
    <2>1. /\ converted_dir' = Turned(base_dir, desired_dir, sinceDir)
          /\ desired_dir' = desired_dir /\ desired_dir = calls[c].dir
      BY DEF StateDone, Converted, Goes
    <2>2. calls[c] \in Calls /\ calls[c].phase = "answered" /\ base_dir \in Angles
      BY DEF TurningInv, TurningTyped, StateDone
    <2>3. desired_dir \in Directions
      BY <2>1, <2>2 DEF Calls, Free, Asked, Answered
    <2>4. LongAgo \in Nat /\ sinceDir >= LongAgo
      BY TurningAssumption DEF LongAgo, HalfTurn
    <2>5. Turned(base_dir, desired_dir, sinceDir) = desired_dir
      BY <2>2, <2>3, <2>4, LongAgoIsEnough
    <2> QED
      BY <2>1, <2>5
  <1> QED
    BY <1>1, TurningIsInvariant, PTL DEF TurningSpec
=============================================================================
