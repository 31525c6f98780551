-------------------------- MODULE GameSessionProofs --------------------------
(***************************************************************************)
(* The loot of a map with any number of dogs, items, offices and process   *)
(* runs: an item is in one place, ids are fresh, bags keep their capacity, *)
(* and items leave the game only with a dog or into its score.  At the end *)
(* the cause of empty pointers: two dogs that meet one item in a tick.     *)
(***************************************************************************)
EXTENDS GameSession, FunctionTheorems, FiniteSetTheorems, WellFoundedInduction, TLAPS

USE SessionAssumption

ItemsIn(s) == Range(s) \ {Null}

Distinct(s) == \A j, k \in DOMAIN s : s[j] = s[k] /\ s[j] # Null => j = k

\* OnePlace of any items on the map and any bags.
Placed(items, bags) ==
    /\ \A d \in DOMAIN bags : items \cap ItemsIn(bags[d]) = {} /\ Distinct(bags[d])
    /\ \A d, e \in DOMAIN bags : d # e => ItemsIn(bags[d]) \cap ItemsIn(bags[e]) = {}

\* What was saved can be restored: the same properties hold of the file, and
\* no bag in it has an empty pointer.
FileSound ==
    /\ DOMAIN file.bag \subseteq Dogs /\ IsFiniteSet(DOMAIN file.bag)
    /\ file.lost \subseteq LootIds
    /\ file.bag \in [DOMAIN file.bag -> Seq(LootIds)]
    /\ file.score \in [DOMAIN file.bag -> Nat]
    /\ Placed(file.lost, file.bag)
    /\ \A d \in DOMAIN file.bag : Len(file.bag[d]) <= Capacity

IInv ==
    /\ TypeOK /\ IsFiniteSet(dogs)
    /\ pc = "idle" => events = {}
    /\ Placed(lost, bag) /\ FreshLoot /\ BagFits
    /\ FileSound

-----------------------------------------------------------------------------
(* Lemmas.                                                                 *)

\* A bounded set of numbers has a highest one.
LEMMA Highest ==
    ASSUME NEW M \in Nat, NEW S, S \subseteq 0 .. M, S # {}
    PROVE  \E i \in S : \A j \in S : j <= i
  <1> DEFINE R == StrictSubsetOrdering(0 .. M)
             T == {i .. M : i \in S}
  <1>1. IsWellFoundedOn(R, SUBSET (0 .. M))
    <2>1. IsFiniteSet(0 .. M)
      BY FS_Interval
    <2> QED
      BY <2>1, FS_FiniteSubsetsOfFinite, FS_StrictSubsetOrderingWellFounded
  <1>2. T \subseteq SUBSET (0 .. M) /\ T # {}
    <2>1. \A i \in S : i .. M \subseteq 0 .. M
      OBVIOUS
    <2> QED
      BY <2>1
  <1> HIDE DEF R
  <1>3. PICK x \in T : \A y \in T : <<y, x>> \notin R
    <2> HIDE DEF T
    <2> QED
      BY <1>1, <1>2, WFMin
  <1>4. PICK i \in S : x = i .. M
    OBVIOUS
  <1>5. ASSUME NEW j \in S, j > i PROVE FALSE
    <2>1. j .. M \in T /\ j .. M \subseteq x /\ i \in x /\ i \notin j .. M
      BY <1>4, <1>5
    <2>2. <<j .. M, x>> \in R
      BY <1>2, <2>1 DEF StrictSubsetOrdering, R
    <2> QED
      BY <1>3, <2>1, <2>2
  <1> QED
    BY <1>5

\* Putting something into a bag.
LEMMA Appended ==
    ASSUME NEW S, NEW s \in Seq(S), NEW x, x # Null => x \notin Range(s), Distinct(s)
    PROVE  /\ ItemsIn(Append(s, x)) = ItemsIn(s) \cup ({x} \ {Null})
           /\ Distinct(Append(s, x))
           /\ Len(Append(s, x)) = Len(s) + 1
  <1>1. /\ DOMAIN s = 1 .. Len(s) /\ Len(s) \in Nat
        /\ DOMAIN Append(s, x) = 1 .. Len(s) + 1
        /\ \A k \in 1 .. Len(s) : Append(s, x)[k] = s[k]
        /\ Append(s, x)[Len(s) + 1] = x
    OBVIOUS
  <1>2. Range(Append(s, x)) = Range(s) \cup {x}
    BY <1>1 DEF Range
  <1>3. Distinct(Append(s, x))
    BY <1>1 DEF Distinct, Range
  <1> QED
    BY <1>2, <1>3 DEF ItemsIn

\* A bag without duplicates and empty pointers has as many items as places.
LEMMA Counted ==
    ASSUME NEW S, NEW s \in Seq(S), Distinct(s), \A k \in DOMAIN s : s[k] # Null
    PROVE  Cardinality(Range(s)) = Len(s)
  <1>1. DOMAIN s = 1 .. Len(s) /\ Len(s) \in Nat /\ s \in [1 .. Len(s) -> Range(s)]
    BY DEF Range
  <1>2. s \in Bijection(1 .. Len(s), Range(s))
    BY <1>1 DEF Range, Distinct, Bijection, Injection, Surjection, IsInjective
  <1>3. IsFiniteSet(1 .. Len(s)) /\ Cardinality(1 .. Len(s)) = Len(s)
    <2>1. Len(s) \in Int /\ 1 \in Int
      BY <1>1
    <2>2. /\ IsFiniteSet(1 .. Len(s))
          /\ Cardinality(1 .. Len(s)) = IF 1 > Len(s) THEN 0 ELSE Len(s) - 1 + 1
      BY <2>1, FS_Interval
    <2> QED
      BY <1>1, <2>2
  <1> QED
    BY <1>2, <1>3, FS_Bijection DEF ExistsBijection

\* How the properties speak of bags.
LEMMA Views ==
    ASSUME TypeOK
    PROVE  /\ DOMAIN bag = dogs
           /\ \A d : Carried(d) = ItemsIn(bag[d])
           /\ Placed(lost, bag) <=> OnePlace
  <1>1. DOMAIN bag = dogs
    BY DEF TypeOK
  <1> QED
    BY <1>1 DEF Carried, ItemsIn, Placed, OnePlace, Distinct

LEMMA LostFinite ==
    ASSUME lost \subseteq LootIds
    PROVE  IsFiniteSet(lost) /\ Cardinality(lost) \in Nat
  <1>1. IsFiniteSet(LootIds)
    BY FS_Interval DEF LootIds
  <1> QED
    BY <1>1, FS_Subset, FS_CardinalityType

-----------------------------------------------------------------------------
(* The inductive invariant.                                                *)

LEMMA InitIInv == Init => IInv
  <1> SUFFICES ASSUME Init PROVE IInv
    OBVIOUS
  <1>1. bag = NoDogs /\ score = NoDogs /\ DOMAIN NoDogs = {} /\ file.bag = NoDogs /\ file.score = NoDogs
    BY DEF Init, NoDogs, EmptyFile
  <1>2. NoDogs \in [{} -> Seq(LootIds \cup {Null})] /\ NoDogs \in [{} -> Seq(LootIds)] /\ NoDogs \in [{} -> Nat]
    BY DEF NoDogs
  <1>3. TypeOK /\ IsFiniteSet(dogs) /\ events = {}
    BY <1>1, <1>2, FS_EmptySet DEF Init, TypeOK, LootIds
  <1>4. Placed(lost, bag) /\ BagFits /\ FreshLoot
    BY <1>1 DEF Init, Placed, BagFits, FreshLoot, InPlay
  <1>5. FileSound
    BY <1>1, <1>2, FS_EmptySet DEF Init, EmptyFile, FileSound, Placed
  <1> QED
    BY <1>3, <1>4, <1>5 DEF IInv

\* Loot that appears has ids nobody has seen.
LEMMA AppearStep ==
    ASSUME TypeOK, FreshLoot, NEW n \in Nat, Appear(n)
    PROVE  /\ lost \subseteq lost' /\ lost' \subseteq LootIds
           /\ nextLoot' \in 0 .. MaxLoot
           /\ \A i \in lost' : i \in lost \/ i \in nextLoot .. nextLoot' - 1
           /\ nextLoot <= nextLoot'
  <1>0. Cardinality(lost) \in Nat /\ nextLoot \in 0 .. MaxLoot /\ lost \subseteq LootIds
    BY LostFinite DEF TypeOK
  <1>1. CASE Cardinality(lost) >= n
    <2>1. lost' = lost /\ nextLoot' = nextLoot
      BY <1>1 DEF Appear
    <2> QED
      BY <1>0, <2>1
  <1>2. CASE ~(Cardinality(lost) >= n)
    <2>1. PICK count \in 0 .. n - Cardinality(lost) :
             /\ nextLoot + count <= MaxLoot
             /\ lost' = lost \cup nextLoot .. nextLoot + count - 1
             /\ nextLoot' = nextLoot + count
      BY <1>2 DEF Appear
    <2>2. count \in Nat
      BY <1>0, <2>1
    <2> QED
      BY <1>0, <2>1, <2>2 DEF LootIds
  <1> QED
    BY <1>1, <1>2

\* Whatever happens to bags and map, fresh ids are in no bag.
LEMMA AppearPlaced ==
    ASSUME TypeOK, FreshLoot, Placed(lost, bag), NEW n \in Nat, Appear(n), dogs \subseteq dogs'
    PROVE  \A d \in dogs : lost' \cap ItemsIn(bag[d]) = {}
  <1>1. \A d \in dogs : \A i \in ItemsIn(bag[d]) : i \in LootIds /\ i < nextLoot
    <2>1. \A d \in dogs : ItemsIn(bag[d]) \subseteq LootIds
      BY DEF TypeOK, ItemsIn, Range
    <2> QED
      BY <2>1, Views DEF FreshLoot, InPlay
  <1>2. \A d \in dogs : lost \cap ItemsIn(bag[d]) = {}
    BY Views DEF Placed
  <1>3. nextLoot \in Nat
    BY DEF TypeOK
  <1> QED
    BY <1>1, <1>2, <1>3, AppearStep DEF LootIds

LEMMA AppearFresh ==
    ASSUME TypeOK, FreshLoot, NEW n \in Nat, Appear(n),
           \A d \in dogs' : ItemsIn(bag'[d]) \subseteq UNION {ItemsIn(bag[e]) : e \in dogs}
    PROVE  FreshLoot'
  <1>1. nextLoot \in Nat /\ nextLoot' \in Nat /\ nextLoot <= nextLoot'
    BY AppearStep DEF TypeOK
  <1>2. \A i \in lost' : i < nextLoot'
    BY <1>1, AppearStep DEF FreshLoot, InPlay, LootIds
  <1>3. ASSUME NEW d \in dogs', NEW i \in ItemsIn(bag'[d]) PROVE i < nextLoot'
    <2>1. PICK e \in dogs : i \in ItemsIn(bag[e])
      BY <1>3
    <2>2. i \in LootIds /\ i < nextLoot
      BY <2>1, Views DEF FreshLoot, InPlay, TypeOK, ItemsIn, Range
    <2> QED
      BY <1>1, <2>2 DEF LootIds
  <1> QED
    BY <1>2, <1>3 DEF FreshLoot, InPlay, Carried, ItemsIn

LEMMA GenerateStep == ASSUME IInv, GenerateLoot PROVE IInv'
  <1>i. TypeOK /\ IsFiniteSet(dogs) /\ Placed(lost, bag) /\ FreshLoot /\ BagFits /\ FileSound
        /\ (pc = "idle" => events = {})
    BY DEF IInv
  <1>1. Appear(Cardinality(dogs)) /\ UNCHANGED <<pc, dogs, bag, score, events, file, run>>
    BY DEF GenerateLoot
  <1>n. Cardinality(dogs) \in Nat
    BY <1>i, FS_CardinalityType
  <1>2. TypeOK' /\ IsFiniteSet(dogs')
    BY <1>i, <1>1, <1>n, AppearStep DEF TypeOK
  <1>3. Placed(lost, bag)'
    BY <1>i, <1>1, <1>n, AppearPlaced, Views DEF Placed
  <1>4. FreshLoot'
    BY <1>i, <1>1, <1>n, AppearFresh
  <1>5. BagFits' /\ FileSound'
    BY <1>i, <1>1 DEF BagFits, FileSound
  <1> QED
    BY <1>i, <1>1, <1>2, <1>3, <1>4, <1>5 DEF IInv

LEMMA AddDogStep == ASSUME IInv, NEW d \in Dogs, AddDog(d) PROVE IInv'
  <1>i. TypeOK /\ IsFiniteSet(dogs) /\ Placed(lost, bag) /\ FreshLoot /\ BagFits /\ FileSound
        /\ (pc = "idle" => events = {})
    BY DEF IInv
  <1>1. /\ d \notin dogs /\ dogs' = dogs \cup {d}
        /\ bag' = With(bag, d, <<>>) /\ score' = With(score, d, 0)
        /\ Appear(Cardinality(dogs'))
        /\ UNCHANGED <<pc, events, file, run>>
    BY DEF AddDog
  <1>2. IsFiniteSet(dogs') /\ Cardinality(dogs') \in Nat
    BY <1>i, <1>1, FS_AddElement, FS_CardinalityType
  <1>3. DOMAIN bag = dogs /\ DOMAIN score = dogs
    BY <1>i DEF TypeOK
  <1>4. /\ bag' = [x \in dogs \cup {d} |-> IF x = d THEN <<>> ELSE bag[x]]
        /\ score' = [x \in dogs \cup {d} |-> IF x = d THEN 0 ELSE score[x]]
    BY <1>1, <1>3 DEF With
  <1>5. <<>> \in Seq(LootIds \cup {Null}) /\ ItemsIn(<<>>) = {} /\ Distinct(<<>>) /\ Len(<<>>) = 0
    BY DEF ItemsIn, Range, Distinct
  <1>6. TypeOK'
    <2>1. bag' \in [dogs' -> Seq(LootIds \cup {Null})] /\ score' \in [dogs' -> Nat]
      <3>1. \A x \in dogs : bag[x] \in Seq(LootIds \cup {Null}) /\ score[x] \in Nat
        BY <1>i DEF TypeOK
      <3>2. bag' \in [dogs' -> Seq(LootIds \cup {Null})]
        BY <1>1, <1>4, <1>5, <3>1
      <3>3. score' \in [dogs' -> Nat]
        BY <1>1, <1>4, <3>1
      <3> QED
        BY <3>2, <3>3
    <2>2. lost' \subseteq LootIds /\ nextLoot' \in 0 .. MaxLoot
      BY <1>i, <1>1, <1>2, AppearStep
    <2>3. events' \subseteq dogs' \X (LootIds \cup Offices)
      BY <1>i, <1>1 DEF TypeOK
    <2> QED
      BY <1>i, <1>1, <2>1, <2>2, <2>3 DEF TypeOK
  <1>7. Placed(lost, bag)'
    <2>1. \A e \in dogs : lost' \cap ItemsIn(bag[e]) = {}
      BY <1>i, <1>1, <1>2, AppearPlaced
    <2>2. \A e \in dogs : bag'[e] = bag[e]
      BY <1>1, <1>4
    <2>3. bag'[d] = <<>> /\ DOMAIN bag' = dogs \cup {d}
      BY <1>4
    <2> QED
      BY <1>i, <1>3, <1>5, <2>1, <2>2, <2>3 DEF Placed
  <1>8. FreshLoot'
    <2>1. \A e \in dogs' : ItemsIn(bag'[e]) \subseteq UNION {ItemsIn(bag[x]) : x \in dogs}
      BY <1>1, <1>4, <1>5
    <2> QED
      BY <1>i, <1>1, <1>2, <2>1, AppearFresh
  <1>9. BagFits' /\ FileSound'
    BY <1>i, <1>1, <1>4, <1>5 DEF BagFits, FileSound
  <1> QED
    BY <1>i, <1>1, <1>2, <1>6, <1>7, <1>8, <1>9 DEF IInv

LEMMA RemoveDogStep == ASSUME IInv, NEW d \in Dogs, RemoveDog(d) PROVE IInv'
  <1>i. TypeOK /\ IsFiniteSet(dogs) /\ Placed(lost, bag) /\ FreshLoot /\ BagFits /\ FileSound
        /\ (pc = "idle" => events = {})
    BY DEF IInv
  <1>1. /\ pc = "idle" /\ dogs' = dogs \ {d}
        /\ bag' = [x \in dogs' |-> bag[x]] /\ score' = [x \in dogs' |-> score[x]]
        /\ UNCHANGED <<pc, lost, nextLoot, events, file, run>>
    BY DEF RemoveDog, Restrict
  <1>2. DOMAIN bag = dogs
    BY <1>i DEF TypeOK
  <1>3. IsFiniteSet(dogs')
    BY <1>i, <1>1, FS_Subset
  <1>4. /\ dogs' \subseteq Dogs
        /\ bag' \in [dogs' -> Seq(LootIds \cup {Null})] /\ score' \in [dogs' -> Nat]
    BY <1>i, <1>1 DEF TypeOK
  <1>5. TypeOK' /\ (pc' = "idle" => events' = {})
    BY <1>i, <1>1, <1>4 DEF TypeOK
  <1>6. \A e \in dogs' : e \in dogs /\ bag'[e] = bag[e]
    BY <1>1
  <1>7. Placed(lost, bag)'
    BY <1>i, <1>1, <1>2, <1>6 DEF Placed
  <1>8. FreshLoot' /\ BagFits' /\ FileSound'
    BY <1>i, <1>1, <1>6 DEF FreshLoot, InPlay, Carried, BagFits, FileSound
  <1> QED
    BY <1>3, <1>5, <1>7, <1>8 DEF IInv

LEMMA PcStep ==
    ASSUME IInv, UNCHANGED <<dogs, lost, bag, score, nextLoot, file, run>>,
           pc' \in {"idle", "loot", "crashed"}, pc' = "idle" => events' = {}, events' \subseteq dogs \X (LootIds \cup Offices)
    PROVE  IInv'
  BY DEF IInv, TypeOK, Placed, FreshLoot, InPlay, Carried, BagFits, FileSound

LEMMA CollectStep == ASSUME IInv, NEW d, NEW item, CollectLoot(d, item) PROVE IInv'
  <1>i. TypeOK /\ IsFiniteSet(dogs) /\ Placed(lost, bag) /\ FreshLoot /\ BagFits /\ FileSound
    BY DEF IInv
  <1>1. /\ d \in dogs /\ item \in LootIds /\ pc = "loot"
        /\ ~(Len(bag[d]) >= Capacity)
        /\ bag' = [bag EXCEPT ![d] = Append(bag[d], Picked(item))]
        /\ lost' = lost \ {item}
        /\ events' = events \ {<<d, item>>}
        /\ UNCHANGED <<pc, dogs, score, nextLoot, file, run>>
    BY <1>i DEF CollectLoot, TypeOK, IsFullBag
  <1>2. DOMAIN bag = dogs /\ \A e \in dogs : bag[e] \in Seq(LootIds \cup {Null})
    BY <1>i DEF TypeOK
  <1>3. /\ Picked(item) \in LootIds \cup {Null}
        /\ Picked(item) # Null => Picked(item) = item /\ item \in lost
    BY <1>1 DEF Picked
  <1>4. /\ ItemsIn(bag'[d]) = ItemsIn(bag[d]) \cup ({Picked(item)} \ {Null})
        /\ Distinct(bag'[d]) /\ Len(bag'[d]) = Len(bag[d]) + 1
    <2>1. Picked(item) # Null => Picked(item) \notin Range(bag[d])
      BY <1>i, <1>1, <1>2, <1>3 DEF Placed, ItemsIn
    <2>2. Distinct(bag[d])
      BY <1>i, <1>1, <1>2 DEF Placed
    <2>3. bag'[d] = Append(bag[d], Picked(item))
      BY <1>1, <1>2
    <2> QED
      BY <1>1, <1>2, <2>1, <2>2, <2>3, Appended
  <1>5. \A e \in dogs : e # d => bag'[e] = bag[e]
    BY <1>1, <1>2
  <1>6. TypeOK'
    <2>1. Append(bag[d], Picked(item)) \in Seq(LootIds \cup {Null})
      BY <1>1, <1>2, <1>3
    <2>2. bag' \in [dogs' -> Seq(LootIds \cup {Null})]
      BY <1>1, <1>2, <1>i, <2>1 DEF TypeOK
    <2> QED
      BY <1>i, <1>1, <2>2 DEF TypeOK
  <1>7. Placed(lost, bag)'
    <2>1. \A e \in dogs : lost' \cap ItemsIn(bag'[e]) = {} /\ Distinct(bag'[e])
      BY <1>i, <1>1, <1>2, <1>3, <1>4, <1>5 DEF Placed
    <2>2. \A e, g \in dogs : e # g => ItemsIn(bag'[e]) \cap ItemsIn(bag'[g]) = {}
      <3> SUFFICES ASSUME NEW e \in dogs, NEW g \in dogs, e # g, NEW x,
                          x \in ItemsIn(bag'[e]), x \in ItemsIn(bag'[g])
                   PROVE  FALSE
        OBVIOUS
      <3>1. CASE e = d
        BY <3>1, <1>i, <1>1, <1>2, <1>3, <1>4, <1>5 DEF Placed
      <3>2. CASE g = d
        BY <3>2, <1>i, <1>1, <1>2, <1>3, <1>4, <1>5 DEF Placed
      <3>3. CASE e # d /\ g # d
        BY <3>3, <1>i, <1>2, <1>5 DEF Placed
      <3> QED
        BY <3>1, <3>2, <3>3
    <2>3. DOMAIN bag' = dogs
      BY <1>1, <1>2
    <2> QED
      BY <2>1, <2>2, <2>3 DEF Placed
  <1>8. FreshLoot'
    <2>1. \A e \in dogs : ItemsIn(bag'[e]) \subseteq ItemsIn(bag[e]) \cup lost
      BY <1>3, <1>4, <1>5
    <2> QED
      BY <1>i, <1>1, <2>1 DEF FreshLoot, InPlay, Carried, ItemsIn
  <1>9. BagFits' /\ FileSound'
    <2>1. Len(bag[d]) \in Nat
      BY <1>1, <1>2
    <2> QED
      BY <1>i, <1>1, <1>4, <1>5, <2>1 DEF BagFits, FileSound
  <1> QED
    BY <1>i, <1>1, <1>6, <1>7, <1>8, <1>9 DEF IInv

LEMMA DropStep == ASSUME IInv, NEW d, NEW office, DropLoot(d, office) PROVE IInv'
  <1>i. TypeOK /\ IsFiniteSet(dogs) /\ Placed(lost, bag) /\ FreshLoot /\ BagFits /\ FileSound
    BY DEF IInv
  <1>1. /\ d \in dogs /\ pc = "loot"
        /\ events' = events \ {<<d, office>>}
        /\ UNCHANGED <<dogs, lost, nextLoot, file, run>>
    BY <1>i DEF DropLoot, TypeOK
  <1>2. CASE HasNull(d)
    <2>1. pc' = "crashed" /\ UNCHANGED <<score, bag>>
      BY <1>2 DEF DropLoot
    <2> QED
      BY <1>i, <1>1, <2>1, PcStep DEF TypeOK
  <1>3. CASE ~HasNull(d)
    <2>1. /\ score' = [score EXCEPT ![d] = @ + Len(bag[d])]
          /\ bag' = [bag EXCEPT ![d] = <<>>] /\ pc' = pc
      BY <1>3 DEF DropLoot
    <2>2. DOMAIN bag = dogs
      BY <1>i DEF TypeOK
    <2>3. <<>> \in Seq(LootIds \cup {Null}) /\ ItemsIn(<<>>) = {} /\ Distinct(<<>>) /\ Len(<<>>) = 0
      BY DEF ItemsIn, Range, Distinct
    <2>4. bag'[d] = <<>> /\ DOMAIN bag' = dogs /\ \A e \in dogs : e # d => bag'[e] = bag[e]
      BY <1>1, <2>1, <2>2
    <2>5. TypeOK'
      <3>1. Len(bag[d]) \in Nat
        BY <1>i, <1>1 DEF TypeOK
      <3>2. score' \in [dogs' -> Nat]
        BY <1>i, <1>1, <2>1, <3>1 DEF TypeOK
      <3>3. bag' \in [dogs' -> Seq(LootIds \cup {Null})]
        BY <1>i, <1>1, <2>1, <2>3 DEF TypeOK
      <3> QED
        BY <1>i, <1>1, <2>1, <3>2, <3>3 DEF TypeOK
    <2>6. Placed(lost, bag)'
      BY <1>i, <1>1, <2>2, <2>3, <2>4 DEF Placed
    <2>7. FreshLoot'
      <3>1. \A e \in dogs : ItemsIn(bag'[e]) \subseteq ItemsIn(bag[e])
        BY <2>3, <2>4
      <3> QED
        BY <1>i, <1>1, <3>1 DEF FreshLoot, InPlay, Carried, ItemsIn
    <2>8. BagFits' /\ FileSound'
      BY <1>i, <1>1, <2>3, <2>4 DEF BagFits, FileSound
    <2> QED
      BY <1>i, <1>1, <2>1, <2>5, <2>6, <2>7, <2>8 DEF IInv
  <1> QED
    BY <1>2, <1>3

LEMMA SaveStep == ASSUME IInv, SaveGame PROVE IInv'
  <1>i. TypeOK /\ IsFiniteSet(dogs) /\ Placed(lost, bag) /\ FreshLoot /\ BagFits /\ FileSound
    BY DEF IInv
  <1>1. pc = "idle" /\ UNCHANGED <<dogs, lost, bag, score, nextLoot, events, run>>
    BY DEF SaveGame
  <1>2. CASE SomeNull
    BY <1>i, <1>1, <1>2, PcStep DEF SaveGame, TypeOK
  <1>3. CASE ~SomeNull
    <2>1. /\ file'.lost = lost /\ file'.bag = bag /\ file'.score = score /\ pc' = pc
      BY <1>3 DEF SaveGame
    <2>2. bag \in [dogs -> Seq(LootIds)]
      <3> SUFFICES ASSUME NEW d \in dogs PROVE bag[d] \in Seq(LootIds)
        BY <1>i DEF TypeOK
      <3>1. bag[d] \in Seq(LootIds \cup {Null}) /\ \A k \in DOMAIN bag[d] : bag[d][k] # Null
        BY <1>i, <1>3 DEF TypeOK, SomeNull, HasNull
      <3> QED
        BY <3>1
    <2>3. FileSound'
      BY <1>i, <2>1, <2>2 DEF FileSound, TypeOK, BagFits
    <2> QED
      BY <1>i, <1>1, <2>1, <2>3 DEF IInv, TypeOK, Placed, FreshLoot, InPlay, Carried, BagFits
  <1> QED
    BY <1>2, <1>3

\* The counter of a new process is ahead of every id in the file.
LEMMA RestoredCounter ==
    ASSUME FileSound, Restart
    PROVE  nextLoot' \in 0 .. MaxLoot /\ \A i \in Restored : i < nextLoot'
  <1>1. Restored \subseteq LootIds
    BY DEF Restored, FileSound, Range
  <1> DEFINE Next1 == {0} \cup {i + 1 : i \in Restored}
             Ahead(n) == \A i \in Restored : i < n
  <1>2. Next1 \subseteq 0 .. MaxLoot
    BY <1>1 DEF LootIds
  <1>3. \E n \in Next1 : Ahead(n)
    <2>1. CASE Restored = {}
      BY <2>1
    <2>2. CASE Restored # {}
      <3>1. Restored \subseteq 0 .. MaxLoot
        BY <1>1 DEF LootIds
      <3>2. PICK i \in Restored : \A j \in Restored : j <= i
        BY <2>2, <3>1, Highest
      <3>3. Ahead(i + 1) /\ i + 1 \in Next1
        BY <3>1, <3>2
      <3> QED
        BY <3>3
    <2> QED
      BY <2>1, <2>2
  <1>4. nextLoot' = CHOOSE n \in Next1 : Ahead(n)
    BY DEF Restart
  <1>5. nextLoot' \in Next1 /\ Ahead(nextLoot')
    <2> HIDE DEF Next1, Ahead
    <2> QED
      BY <1>3, <1>4
  <1> QED
    BY <1>2, <1>5

LEMMA RestartStep == ASSUME IInv, Restart PROVE IInv'
  <1>i. TypeOK /\ FileSound
    BY DEF IInv
  <1>1. /\ run' = run + 1 /\ run < MaxRuns /\ pc' = "idle"
        /\ dogs' = DOMAIN file.bag /\ lost' = file.lost /\ bag' = file.bag /\ score' = file.score
        /\ events' = {} /\ file' = file
    BY DEF Restart
  <1>2. nextLoot' \in 0 .. MaxLoot /\ \A i \in Restored : i < nextLoot'
    BY <1>i, RestoredCounter
  <1>3. file.bag \in [DOMAIN file.bag -> Seq(LootIds \cup {Null})]
    <2>1. \A d \in DOMAIN file.bag : file.bag[d] \in Seq(LootIds \cup {Null})
      BY <1>i DEF FileSound
    <2> QED
      BY <1>i, <2>1 DEF FileSound
  <1>4. TypeOK'
    BY <1>i, <1>1, <1>2, <1>3 DEF TypeOK, FileSound
  <1>5. IsFiniteSet(dogs)' /\ Placed(lost, bag)' /\ BagFits' /\ FileSound'
    BY <1>i, <1>1 DEF FileSound, BagFits, Placed
  <1>6. FreshLoot'
    BY <1>1, <1>2 DEF FreshLoot, InPlay, Carried, Restored
  <1> QED
    BY <1>1, <1>4, <1>5, <1>6 DEF IInv

LEMMA NextIInv == IInv /\ [Next]_vars => IInv'
  <1> SUFFICES ASSUME IInv, [Next]_vars PROVE IInv'
    OBVIOUS
  <1>i. TypeOK
    BY DEF IInv
  <1>1. ASSUME NEW d \in Dogs, AddDog(d) \/ RemoveDog(d) PROVE IInv'
    BY <1>1, AddDogStep, RemoveDogStep
  <1>2. CASE UpdateTime
    BY <1>i, <1>2, PcStep DEF UpdateTime, TypeOK
  <1>3. ASSUME NEW e \in events, CollectLoot(e[1], e[2]) \/ DropLoot(e[1], e[2]) PROVE IInv'
    BY <1>3, CollectStep, DropStep
  <1>4. ASSUME NEW e \in events, PassBy(e[1], e[2]) PROVE IInv'
    BY <1>i, <1>4, PcStep DEF PassBy, TypeOK
  <1>5. CASE EndHandleLoot \/ GetGameState
    BY <1>i, <1>5, PcStep DEF EndHandleLoot, GetGameState, TypeOK, IInv
  <1>6. CASE UNCHANGED vars
    BY <1>6 DEF vars, IInv, TypeOK, Placed, FreshLoot, InPlay, Carried, BagFits, FileSound
  <1> QED
    BY <1>1, <1>2, <1>3, <1>4, <1>5, <1>6, GenerateStep, SaveStep, RestartStep DEF Next, HandleLoot

LEMMA Invariant == Spec => []IInv
  BY InitIInv, NextIInv, PTL DEF Spec

\* Every variable keeps its type, for any numbers of dogs, items and runs.
THEOREM TypeCorrect == Spec => []TypeOK
  <1>1. IInv => TypeOK
    BY DEF IInv
  <1> QED
    BY <1>1, Invariant, PTL

\* An item is on the map or once in one bag, whichever dogs cross it in a tick,
\* in whatever order, and whatever was saved and restored.
THEOREM ItemsInOnePlace == Spec => []OnePlace
  <1>1. IInv => OnePlace
    BY Views DEF IInv
  <1> QED
    BY <1>1, Invariant, PTL

\* Generated items never replace one that exists.
THEOREM ItemsAreFresh == Spec => []FreshLoot
  <1>1. IInv => FreshLoot
    BY DEF IInv
  <1> QED
    BY <1>1, Invariant, PTL

\* No bag exceeds its capacity.
THEOREM BagsKeepCapacity == Spec => []BagFits
  <1>1. IInv => BagFits
    BY DEF IInv
  <1> QED
    BY <1>1, Invariant, PTL

-----------------------------------------------------------------------------
(* Where items go.                                                         *)

\* An office gives one point for every item in the bag.
LEMMA DropConserves == ASSUME IInv, NEW d, NEW office, DropLoot(d, office) PROVE LootConserved
  <1>i. TypeOK /\ Placed(lost, bag)
    BY DEF IInv
  <1>1. d \in dogs /\ UNCHANGED <<dogs, lost>> /\ bag[d] \in Seq(LootIds \cup {Null})
    BY <1>i DEF DropLoot, TypeOK
  <1>v. DOMAIN bag = dogs /\ \A e : Carried(e) = ItemsIn(bag[e])
    BY <1>i, Views
  <1>2. CASE HasNull(d)
    BY <1>1, <1>2 DEF DropLoot, LootConserved, InPlay, Carried
  <1>3. CASE ~HasNull(d)
    <2>1. /\ score' = [score EXCEPT ![d] = @ + Len(bag[d])]
          /\ bag' = [bag EXCEPT ![d] = <<>>]
      BY <1>3 DEF DropLoot
    <2>2. Carried(d) = Range(bag[d])
      BY <1>3 DEF HasNull, Carried, Range
    <2>3. Cardinality(Carried(d)) = Len(bag[d])
      BY <1>i, <1>1, <1>3, <1>v, <2>2, Counted DEF HasNull, Placed
    <2>4. score'[d] = score[d] + Cardinality(Carried(d))
      BY <1>i, <1>1, <2>1, <2>3 DEF TypeOK
    <2>5. Range(<<>>) = {}
      BY DEF Range
    <2>6. bag'[d] = <<>> /\ \A e \in dogs : e # d => bag'[e] = bag[e]
      BY <1>1, <1>v, <2>1
    <2>7. InPlay \ InPlay' = Carried(d)
      <3>1. InPlay' = lost \cup UNION {Carried(e) : e \in dogs \ {d}}
        <4>1. InPlay' = lost \cup UNION {Range(bag'[e]) \ {Null} : e \in dogs}
          BY <1>1 DEF InPlay, Carried
        <4>2. Range(bag'[d]) \ {Null} = {} /\ \A e \in dogs \ {d} : Range(bag'[e]) \ {Null} = Carried(e)
          BY <2>5, <2>6 DEF Carried
        <4> QED
          BY <1>1, <4>1, <4>2
      <3>2. \A e \in dogs \ {d} : Carried(e) \cap Carried(d) = {}
        BY <1>i, <1>1, <1>v DEF Placed
      <3>3. lost \cap Carried(d) = {}
        BY <1>i, <1>1, <1>v DEF Placed
      <3> QED
        BY <1>1, <3>1, <3>2, <3>3 DEF InPlay
    <2> QED
      BY <1>1, <2>4, <2>7 DEF LootConserved
  <1> QED
    BY <1>2, <1>3

\* Only the bag of the dog that leaves is gone.
LEMMA RemoveConserves == ASSUME IInv, NEW d \in Dogs, RemoveDog(d) PROVE LootConserved
  <1>i. TypeOK /\ Placed(lost, bag)
    BY DEF IInv
  <1>1. /\ d \in dogs /\ dogs' = dogs \ {d} /\ lost' = lost
        /\ \A e \in dogs' : bag'[e] = bag[e]
    BY DEF RemoveDog, Restrict
  <1>v. DOMAIN bag = dogs /\ \A e : Carried(e) = ItemsIn(bag[e])
    BY <1>i, Views
  <1>2. InPlay' = lost \cup UNION {Carried(e) : e \in dogs \ {d}}
    BY <1>1 DEF InPlay, Carried
  <1>3. \A e \in dogs \ {d} : Carried(e) \cap Carried(d) = {}
    BY <1>i, <1>1, <1>v DEF Placed
  <1>4. lost \cap Carried(d) = {}
    BY <1>i, <1>1, <1>v DEF Placed
  <1>5. InPlay \ InPlay' = Carried(d)
    BY <1>1, <1>2, <1>3, <1>4 DEF InPlay
  <1> QED
    BY <1>1, <1>5 DEF LootConserved

\* A pickup takes an item from the map into the bag.
LEMMA CollectConserves == ASSUME IInv, NEW d, NEW item, CollectLoot(d, item) PROVE LootConserved
  <1>i. TypeOK /\ Placed(lost, bag)
    BY DEF IInv
  <1>1. /\ d \in dogs /\ dogs' = dogs /\ lost' = lost \ {item} /\ item \in LootIds
        /\ bag' = [bag EXCEPT ![d] = Append(bag[d], Picked(item))]
    BY <1>i DEF CollectLoot, TypeOK
  <1>2. DOMAIN bag = dogs /\ bag[d] \in Seq(LootIds \cup {Null})
    BY <1>i, <1>1 DEF TypeOK
  <1>3. bag'[d] = Append(bag[d], Picked(item)) /\ \A e \in dogs : e # d => bag'[e] = bag[e]
    BY <1>1, <1>2
  <1>4. Range(bag[d]) \subseteq Range(bag'[d]) /\ Picked(item) \in Range(bag'[d])
    <2>1. /\ DOMAIN bag'[d] = 1 .. Len(bag[d]) + 1 /\ DOMAIN bag[d] = 1 .. Len(bag[d])
          /\ Len(bag[d]) \in Nat
          /\ \A k \in 1 .. Len(bag[d]) : bag'[d][k] = bag[d][k]
          /\ bag'[d][Len(bag[d]) + 1] = Picked(item)
      BY <1>2, <1>3
    <2> QED
      BY <2>1 DEF Range
  <1>5. InPlay \subseteq InPlay'
    <2>1. \A e \in dogs : Carried(e) \subseteq InPlay'
      BY <1>1, <1>3, <1>4 DEF Carried, InPlay
    <2>2. \A i \in lost : i \in InPlay'
      <3>1. CASE item \in lost
        <4>1. item \in Range(bag'[d]) \ {Null}
          BY <1>1, <1>4, <3>1 DEF Picked, LootIds
        <4> QED
          BY <1>1, <4>1 DEF InPlay, Carried
      <3>2. CASE item \notin lost
        BY <1>1, <3>2 DEF InPlay
      <3> QED
        BY <3>1, <3>2
    <2> QED
      BY <2>1, <2>2 DEF InPlay
  <1> QED
    BY <1>5 DEF LootConserved

LEMMA BagsKeep ==
    ASSUME dogs \subseteq dogs', lost \subseteq lost', \A d \in dogs : bag'[d] = bag[d]
    PROVE  LootConserved
  BY DEF LootConserved, InPlay, Carried

\* Items leave the game only with a dog that leaves, or for one point each.
THEOREM NothingIsLost == Spec => NothingLost
  <1>1. IInv /\ [Next]_vars => [LootConserved \/ Restart]_vars
    <2> SUFFICES ASSUME IInv, Next PROVE LootConserved \/ Restart
      OBVIOUS
    <2>i. TypeOK /\ FreshLoot /\ IsFiniteSet(dogs)
      BY DEF IInv
    <2>1. CASE GenerateLoot
      BY <2>i, <2>1, AppearStep, FS_CardinalityType, BagsKeep DEF GenerateLoot
    <2>2. ASSUME NEW d \in Dogs, AddDog(d) PROVE LootConserved
      <3>1. /\ d \notin dogs /\ dogs' = dogs \cup {d} /\ Appear(Cardinality(dogs'))
            /\ bag' = [x \in DOMAIN bag \cup {d} |-> IF x = d THEN <<>> ELSE bag[x]]
        BY <2>2 DEF AddDog, With
      <3>2. DOMAIN bag = dogs
        BY <2>i DEF TypeOK
      <3>3. Cardinality(dogs') \in Nat
        BY <2>i, <3>1, FS_AddElement, FS_CardinalityType
      <3> QED
        BY <2>i, <3>1, <3>2, <3>3, AppearStep, BagsKeep
    <2>3. ASSUME NEW d \in Dogs, RemoveDog(d) PROVE LootConserved
      BY <2>3, RemoveConserves
    <2>4. CASE UpdateTime \/ EndHandleLoot \/ GetGameState \/ SaveGame
      BY <2>4, BagsKeep DEF UpdateTime, EndHandleLoot, GetGameState, SaveGame
    <2>5. ASSUME NEW e \in events, CollectLoot(e[1], e[2]) \/ DropLoot(e[1], e[2]) PROVE LootConserved
      BY <2>5, CollectConserves, DropConserves
    <2>6. ASSUME NEW e \in events, PassBy(e[1], e[2]) PROVE LootConserved
      BY <2>6, BagsKeep DEF PassBy
    <2> QED
      BY <2>1, <2>2, <2>3, <2>4, <2>5, <2>6 DEF Next, HandleLoot
  <1> QED
    BY <1>1, Invariant, PTL DEF Spec, NothingLost
-----------------------------------------------------------------------------
(* What the empty pointers come from.                                      *)

\* No item lies on the ways of two dogs in one tick.
MetByOne ==
    \A d, e \in dogs : \A item \in LootIds :
        <<d, item>> \in events /\ <<e, item>> \in events => d = e

\* Then every item still to be collected is still on the map.
CleanInv ==
    /\ IInv
    /\ ~SomeNull /\ pc # "crashed"
    /\ \A d \in dogs : \A item \in LootIds : <<d, item>> \in events => item \in lost

LEMMA BagsStayClean ==
    ASSUME CleanInv, UNCHANGED <<dogs, bag, events>>, pc' # "crashed", lost \subseteq lost', IInv'
    PROVE  CleanInv'
  BY DEF CleanInv, SomeNull, HasNull

LEMMA CollectClean ==
    ASSUME CleanInv, MetByOne, NEW d, NEW item, CollectLoot(d, item), IInv'
    PROVE  CleanInv'
  <1>i. TypeOK /\ IInv
    BY DEF CleanInv, IInv
  <1>1. /\ d \in dogs /\ item \in LootIds /\ <<d, item>> \in events /\ pc' = "loot"
        /\ bag' = [bag EXCEPT ![d] = Append(bag[d], Picked(item))]
        /\ lost' = lost \ {item} /\ events' = events \ {<<d, item>>} /\ dogs' = dogs
    BY <1>i DEF CollectLoot, TypeOK
  <1>2. Picked(item) = item /\ item # Null
    BY <1>1 DEF Picked, CleanInv, LootIds
  <1>3. DOMAIN bag = dogs /\ bag[d] \in Seq(LootIds \cup {Null})
    BY <1>i, <1>1 DEF TypeOK
  <1>4. ~SomeNull'
    <2>1. ASSUME NEW e \in dogs, NEW k \in DOMAIN bag'[e] PROVE bag'[e][k] # Null
      <3>1. CASE e = d
        <4>1. bag'[e] = Append(bag[d], item)
          BY <1>1, <1>2, <1>3, <3>1
        <4>2. \A j \in DOMAIN bag[d] : bag[d][j] # Null
          BY <1>1 DEF CleanInv, SomeNull, HasNull
        <4>3. /\ DOMAIN bag'[e] = 1 .. Len(bag[d]) + 1 /\ DOMAIN bag[d] = 1 .. Len(bag[d])
              /\ Len(bag[d]) \in Nat
              /\ \A j \in 1 .. Len(bag[d]) : bag'[e][j] = bag[d][j]
              /\ bag'[e][Len(bag[d]) + 1] = item
          BY <1>1, <1>3, <4>1
        <4> QED
          BY <1>2, <2>1, <4>2, <4>3
      <3>2. CASE e # d
        BY <1>1, <1>3, <2>1, <3>2 DEF CleanInv, SomeNull, HasNull
      <3> QED
        BY <3>1, <3>2
    <2> QED
      BY <1>1, <2>1 DEF SomeNull, HasNull
  <1>5. ASSUME NEW e \in dogs, NEW other \in LootIds, <<e, other>> \in events' PROVE other \in lost'
    <2>1. other \in lost /\ <<e, other>> # <<d, item>> /\ <<e, other>> \in events
      BY <1>1, <1>5 DEF CleanInv
    <2>2. other # item
      BY <1>1, <2>1 DEF MetByOne
    <2> QED
      BY <1>1, <2>1, <2>2
  <1> QED
    BY <1>1, <1>4, <1>5 DEF CleanInv

LEMMA NextClean == CleanInv /\ MetByOne /\ [Next]_vars => CleanInv'
  <1> SUFFICES ASSUME CleanInv, MetByOne, [Next]_vars PROVE CleanInv'
    OBVIOUS
  <1>i. IInv /\ TypeOK /\ FileSound /\ IInv'
    BY NextIInv DEF CleanInv, IInv
  <1>1. CASE GenerateLoot
    <2>1. IsFiniteSet(dogs) /\ FreshLoot
      BY <1>i DEF IInv
    <2>2. lost \subseteq lost'
      BY <1>i, <1>1, <2>1, AppearStep, FS_CardinalityType DEF GenerateLoot
    <2>3. UNCHANGED <<pc, dogs, bag, events>>
      BY <1>1 DEF GenerateLoot
    <2>4. pc' # "crashed"
      BY <2>3 DEF CleanInv
    <2> QED
      BY <1>i, <2>2, <2>3, <2>4, BagsStayClean
  <1>2. ASSUME NEW d \in Dogs, AddDog(d) PROVE CleanInv'
    <2>1. /\ pc = "idle" /\ pc' = pc /\ dogs' = dogs \cup {d}
          /\ bag' = [x \in DOMAIN bag \cup {d} |-> IF x = d THEN <<>> ELSE bag[x]]
          /\ events' = events
      BY <1>2 DEF AddDog, With
    <2>2. events' = {} /\ DOMAIN bag = dogs
      BY <1>i, <2>1 DEF IInv, TypeOK
    <2>3. ASSUME NEW e \in dogs', NEW k \in DOMAIN bag'[e] PROVE bag'[e][k] # Null
      <3>1. e \in dogs /\ bag'[e] = bag[e]
        BY <2>1, <2>2, <2>3
      <3> QED
        BY <2>3, <3>1 DEF CleanInv, SomeNull, HasNull
    <2> QED
      BY <1>i, <2>1, <2>2, <2>3 DEF CleanInv, SomeNull, HasNull
  <1>3. ASSUME NEW d \in Dogs, RemoveDog(d) PROVE CleanInv'
    <2>1. /\ pc = "idle" /\ pc' = pc /\ dogs' \subseteq dogs
          /\ \A e \in dogs' : bag'[e] = bag[e]
          /\ events' = events
      BY <1>3 DEF RemoveDog, Restrict
    <2>2. events' = {}
      BY <1>i, <2>1 DEF IInv
    <2>3. ~SomeNull'
      BY <2>1 DEF CleanInv, SomeNull, HasNull
    <2> QED
      BY <1>i, <2>1, <2>2, <2>3 DEF CleanInv
  <1>4. CASE UpdateTime
    <2>1. /\ pc' = "loot" /\ events' \subseteq dogs \X (lost \cup Offices)
          /\ UNCHANGED <<dogs, lost, bag>>
      BY <1>4 DEF UpdateTime
    <2>2. \A d, item : <<d, item>> \in events' /\ item \in LootIds => item \in lost
      BY <2>1 DEF LootIds
    <2>3. ~SomeNull'
      BY <2>1 DEF CleanInv, SomeNull, HasNull
    <2> QED
      BY <1>i, <2>1, <2>2, <2>3 DEF CleanInv
  <1>5. ASSUME NEW e \in events, CollectLoot(e[1], e[2]) PROVE CleanInv'
    BY <1>i, <1>5, CollectClean
  <1>6. ASSUME NEW e \in events, DropLoot(e[1], e[2]) PROVE CleanInv'
    <2>1. e[1] \in dogs /\ pc = "loot" /\ events' \subseteq events /\ UNCHANGED <<dogs, lost>>
      BY <1>i, <1>6 DEF DropLoot, TypeOK
    <2>2. ~HasNull(e[1])
      BY <2>1 DEF CleanInv, SomeNull
    <2>3. bag' = [bag EXCEPT ![e[1]] = <<>>] /\ pc' = pc
      BY <1>6, <2>2 DEF DropLoot
    <2>4. DOMAIN bag = dogs
      BY <1>i DEF TypeOK
    <2>5. ~SomeNull'
      BY <2>1, <2>3, <2>4 DEF CleanInv, SomeNull, HasNull
    <2> QED
      BY <1>i, <2>1, <2>3, <2>5 DEF CleanInv
  <1>7. ASSUME NEW e \in events, PassBy(e[1], e[2]) PROVE CleanInv'
    <2>1. events' \subseteq events /\ UNCHANGED <<pc, dogs, lost, bag>>
      BY <1>7 DEF PassBy
    <2>2. ~SomeNull'
      BY <2>1 DEF CleanInv, SomeNull, HasNull
    <2> QED
      BY <1>i, <2>1, <2>2 DEF CleanInv
  <1>8. CASE EndHandleLoot \/ GetGameState \/ SaveGame
    <2>1. UNCHANGED <<dogs, lost, bag, events>> /\ pc' # "crashed"
      BY <1>8 DEF EndHandleLoot, GetGameState, SaveGame, CleanInv
    <2> QED
      BY <1>i, <2>1, BagsStayClean
  <1>9. CASE Restart
    <2>1. pc' = "idle" /\ dogs' = DOMAIN file.bag /\ bag' = file.bag /\ events' = {}
      BY <1>9 DEF Restart
    <2>2. \A d \in DOMAIN file.bag : \A k \in DOMAIN file.bag[d] : file.bag[d][k] \in LootIds
      BY <1>i DEF FileSound
    <2>3. ~SomeNull'
      BY <2>1, <2>2 DEF SomeNull, HasNull, LootIds
    <2> QED
      BY <1>i, <2>1, <2>3 DEF CleanInv
  <1>10. CASE UNCHANGED vars
    <2>1. UNCHANGED <<pc, dogs, lost, bag, events>>
      BY <1>10 DEF vars
    <2>2. pc' # "crashed"
      BY <2>1 DEF CleanInv
    <2> QED
      BY <1>i, <2>1, <2>2, BagsStayClean
  <1> QED
    BY <1>1, <1>2, <1>3, <1>4, <1>5, <1>6, <1>7, <1>8, <1>9, <1>10 DEF Next, HandleLoot

\* Only two dogs that cross one item in one tick bring empty pointers: as long
\* as that does not happen, every bag can be saved, described and handed in,
\* and the session never crashes, over any number of restarts.
THEOREM NullsNeedTwoDogs ==
    Spec /\ []MetByOne => [](BagsSerializable /\ pc # "crashed")
  <1>1. Init => CleanInv
    <2> SUFFICES ASSUME Init PROVE CleanInv
      OBVIOUS
    <2>1. dogs = {} /\ pc = "idle" /\ IInv
      BY InitIInv DEF Init
    <2> QED
      BY <2>1 DEF CleanInv, SomeNull
  <1>2. CleanInv => BagsSerializable /\ pc # "crashed"
    BY DEF CleanInv, BagsSerializable
  <1> QED
    BY <1>1, <1>2, NextClean, PTL DEF Spec
==============================================================================
