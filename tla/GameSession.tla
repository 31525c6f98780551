---------------------------- MODULE GameSession -----------------------------
(***************************************************************************)
(* The lost objects of one map: model::GameSession with the bags of its    *)
(* Dogs, the loot ids of LootObject, and what of this the state file keeps.*)
(*                                                                         *)
(* A tick moves the dogs and then runs HandleLoot: FindGatherEvents        *)
(* computes, from a copy of the item list taken before anything is picked  *)
(* up, every pair of a dog and an item the dog's way touches, sorted by    *)
(* time; the events are then applied one after the other.  Which pairs     *)
(* touch, and when, is geometry and left free here: the events of a tick   *)
(* are any set of pairs, and they are applied in any order.                *)
(*                                                                         *)
(* Every item is worth one point.  The handlers run on one strand, so no   *)
(* request sees the session between two events.  Definitions named after a *)
(* slip (IsOverfullBag, PickedFromCopy) are plausible bugs of those which   *)
(* follow them; PROJECT.json says which property notices each.             *)
(***************************************************************************)
EXTENDS Naturals, Sequences, FiniteSets, Functions

CONSTANTS
    Dogs,       \* dog ids
    Offices,    \* the offices of the map
    Capacity,   \* bag capacity of the map
    MaxLoot,    \* bound: loot ids ever drawn in one process
    MaxRuns,    \* bound: how often the process is started
    Null        \* an empty shared_ptr

ASSUME SessionAssumption ==
    /\ Capacity \in Nat
    /\ MaxLoot \in Nat
    /\ MaxRuns \in Nat \ {0}
    /\ Offices \cap Nat = {}
    /\ Null \notin Nat

LootIds == 0 .. MaxLoot - 1

VARIABLES
    pc,         \* "idle", "loot" inside HandleLoot, or "crashed"
    dogs,       \* keys of dogs_
    lost,       \* keys of lost_objects_
    bag,        \* Dog::bag_ of every dog in dogs_
    score,      \* Dog::score_
    nextLoot,   \* LootObject::next_id
    events,     \* gathering events still to be applied
    file,       \* the state file: the lost objects, and bag and score of the dogs
    run         \* how often the process was started

vars == <<pc, dogs, lost, bag, score, nextLoot, events, file, run>>

NoDogs == [d \in {} |-> <<>>]
EmptyFile == [lost |-> {}, bag |-> NoDogs, score |-> NoDogs]

Init ==
    /\ pc = "idle"
    /\ dogs = {} /\ lost = {}
    /\ bag = NoDogs /\ score = NoDogs
    /\ nextLoot = 0
    /\ events = {}
    /\ file = EmptyFile
    /\ run = 1

\* dogs_[d] = a new dog: an empty bag, no points
With(m, d, v) == [x \in DOMAIN m \cup {d} |-> IF x = d THEN v ELSE m[x]]

-----------------------------------------------------------------------------
(* Loot appears.                                                           *)

\* GenerateLoot over n dogs: nothing if there are as many items as dogs,
\* otherwise LootGenerator::Generate decides between none and the shortage;
\* none, too, is what a map without loot types gets.
Appear(n) ==
    IF Cardinality(lost) >= n
    THEN UNCHANGED <<lost, nextLoot>>
    ELSE \E count \in 0 .. n - Cardinality(lost) :
            /\ nextLoot + count <= MaxLoot
            /\ lost' = lost \cup nextLoot .. nextLoot + count - 1
            /\ nextLoot' = nextLoot + count

\* The loot ticker.
GenerateLoot ==
    /\ pc = "idle"
    /\ Appear(Cardinality(dogs))
    /\ UNCHANGED <<pc, dogs, bag, score, events, file, run>>

\* AddDog for a new player ends with a GenerateLoot of its own.
AddDog(d) ==
    /\ pc = "idle"
    /\ d \notin dogs
    /\ dogs' = dogs \cup {d}
    /\ bag' = With(bag, d, <<>>)
    /\ score' = With(score, d, 0)
    /\ Appear(Cardinality(dogs'))
    /\ UNCHANGED <<pc, events, file, run>>

\* RemoveDog for a retired player: the dog leaves with its bag.
RemoveDog(d) ==
    /\ pc = "idle"
    /\ d \in dogs
    /\ dogs' = dogs \ {d}
    /\ bag' = Restrict(bag, dogs')
    /\ score' = Restrict(score, dogs')
    /\ UNCHANGED <<pc, lost, nextLoot, events, file, run>>

-----------------------------------------------------------------------------
(* Loot is carried.                                                        *)

\* UpdateTime: the dogs have moved, and FindGatherEvents has matched them
\* with the items and offices there are at the start of HandleLoot.
UpdateTime ==
    /\ pc = "idle"
    /\ events' \in SUBSET (dogs \X (lost \cup Offices))
    /\ pc' = "loot"
    /\ UNCHANGED <<dogs, lost, bag, score, nextLoot, file, run>>

IsOverfullBag(d) == Len(bag[d]) > Capacity
IsFullBag(d) == Len(bag[d]) >= Capacity
HasNull(d) == \E k \in DOMAIN bag[d] : bag[d][k] = Null

\* lost_objects_[id]: of an item that another dog has taken in this tick the
\* lookup creates an empty pointer.
PickedFromCopy(item) == item
PickedErased(item) == Null
Picked(item) == IF item \in lost THEN item ELSE Null

\* CollectLoot with room in the bag; the entry is erased in any case.
CollectLoot(d, item) ==
    /\ pc = "loot" /\ <<d, item>> \in events
    /\ item \in Nat
    /\ ~IsFullBag(d)
    /\ bag' = [bag EXCEPT ![d] = Append(@, Picked(item))]
    /\ lost' = lost \ {item}
    /\ events' = events \ {<<d, item>>}
    /\ UNCHANGED <<pc, dogs, score, nextLoot, file, run>>

\* DropLoot at an office.  DropLostObjects reads every pointer in the bag.
DropLoot(d, office) ==
    /\ pc = "loot" /\ <<d, office>> \in events
    /\ office \in Offices
    /\ bag[d] # <<>>
    /\ IF HasNull(d)
       THEN pc' = "crashed" /\ UNCHANGED <<score, bag>>
       ELSE /\ score' = [score EXCEPT ![d] = @ + Len(bag[d])]
            /\ bag' = [bag EXCEPT ![d] = <<>>]
            /\ UNCHANGED pc
    /\ events' = events \ {<<d, office>>}
    /\ UNCHANGED <<dogs, lost, nextLoot, file, run>>

\* An item passed with a full bag, or an office passed with an empty one.
PassBy(d, item) ==
    /\ pc = "loot" /\ <<d, item>> \in events
    /\ IF item \in Offices THEN bag[d] = <<>> ELSE IsFullBag(d)
    /\ events' = events \ {<<d, item>>}
    /\ UNCHANGED <<pc, dogs, lost, bag, score, nextLoot, file, run>>

EndHandleLoot ==
    /\ pc = "loot" /\ events = {}
    /\ pc' = "idle"
    /\ UNCHANGED <<dogs, lost, bag, score, nextLoot, events, file, run>>

-----------------------------------------------------------------------------
(* Readers of the bags.                                                    *)

SomeNull == \E d \in dogs : HasNull(d)

\* GetGameState describes every item of every bag.
GetGameState ==
    /\ pc = "idle"
    /\ pc' = IF SomeNull THEN "crashed" ELSE "idle"
    /\ UNCHANGED <<dogs, lost, bag, score, nextLoot, events, file, run>>

\* SaveGame copies every item of every bag; the file is replaced at the end.
\* A save that throws before changes nothing here (GameRegistry follows it).
SaveGame ==
    /\ pc = "idle"
    /\ IF SomeNull
       THEN pc' = "crashed" /\ UNCHANGED file
       ELSE /\ file' = [lost |-> lost, bag |-> bag, score |-> score]
            /\ UNCHANGED pc
    /\ UNCHANGED <<dogs, lost, bag, score, nextLoot, events, run>>

\* The process is gone, whether by a crash of its own or from outside, and a
\* new one restores the file: the constructors of the restored LootObjects
\* push next_id past their ids.
RestoredLost == file.lost
Restored == file.lost \cup UNION {Range(file.bag[d]) : d \in DOMAIN file.bag}

Restart ==
    /\ run < MaxRuns /\ run' = run + 1
    /\ pc' = "idle"
    /\ dogs' = DOMAIN file.bag
    /\ lost' = file.lost
    /\ bag' = file.bag
    /\ score' = file.score
    /\ nextLoot' = CHOOSE n \in {0} \cup {i + 1 : i \in Restored} : \A i \in Restored : i < n
    /\ events' = {}
    /\ UNCHANGED file

-----------------------------------------------------------------------------
HandleLoot ==
    \/ \E e \in events :
          CollectLoot(e[1], e[2]) \/ DropLoot(e[1], e[2]) \/ PassBy(e[1], e[2])
    \/ EndHandleLoot

Next ==
    \/ GenerateLoot
    \/ \E d \in Dogs : AddDog(d) \/ RemoveDog(d)
    \/ UpdateTime \/ HandleLoot
    \/ GetGameState \/ SaveGame
    \/ Restart

Spec == Init /\ [][Next]_vars

-----------------------------------------------------------------------------
(* Properties.                                                             *)

\* Every variable has the type of its C++ member; a bag may hold Null.
TypeOK ==
    /\ pc \in {"idle", "loot", "crashed"}
    /\ dogs \subseteq Dogs
    /\ lost \subseteq LootIds
    /\ bag \in [dogs -> Seq(LootIds \cup {Null})]
    /\ score \in [dogs -> Nat]
    /\ nextLoot \in 0 .. MaxLoot
    /\ run \in 1 .. MaxRuns
    /\ events \subseteq dogs \X (LootIds \cup Offices)

\* The real items in a bag, and all items on the map or in a bag.
Carried(d) == Range(bag[d]) \ {Null}
InPlay == lost \cup UNION {Carried(d) : d \in dogs}

\* An item is in one place: on the map or once in one bag.  Two dogs crossing
\* one item in one tick, a refused pickup, or ids drawn again after a restore
\* must not double it.
OnePlace ==
    /\ \A d \in dogs : lost \cap Carried(d) = {}
    /\ \A d, e \in dogs : d # e => Carried(d) \cap Carried(e) = {}
    /\ \A d \in dogs : \A j, k \in DOMAIN bag[d] :
          bag[d][j] = bag[d][k] /\ bag[d][j] # Null => j = k

\* The next id is ahead of every item in play, so a generated item never
\* replaces one that exists, not even after ids were read from the file.
FreshLoot == \A i \in InPlay : i < nextLoot

\* No bag exceeds the capacity of the map, however many items lie on the way
\* of one tick and after a restore.
BagFits == \A d \in dogs : Len(bag[d]) <= Capacity

\* Items leave the game only with a retired dog, or into the score of the dog
\* that carried them, one point each.
LootConserved ==
    LET gone == InPlay \ InPlay'
    IN  gone # {} => \E d \in dogs :
            /\ gone = Carried(d)
            /\ d \in dogs' => score'[d] = score[d] + Cardinality(gone)
NothingLost == [][LootConserved \/ Restart]_vars

\* Every bag can be serialised and restored: DogRepr reads every item.
BagsSerializable == ~SomeNull
=============================================================================
