------------------------ MODULE GameRegistryProofs --------------------------
(***************************************************************************)
(* Proofs about GameRegistry.  The inductive invariant adds three facts to *)
(* the checked invariants: the ids of a saved game are bounded (so that    *)
(* RestoreGame can find fresh counters), a stopped process has no          *)
(* afk_players, and every issued token has an owner.  RetiredInv adds the  *)
(* rows, LoopInv the loop over afk_players and the countdown, PromptInv    *)
(* who may still be idle; the last part shows that the server implements   *)
(* StayLedger.                                                             *)
(***************************************************************************)
EXTENDS GameRegistry, TLAPS, WellFoundedInduction

\* The ids in the state file are bounded, as those of a finite map are.
FileBounded ==
    \E b \in Nat : \A i \in DOMAIN file.players : i < b /\ file.players[i].dog < b

DownIsEmpty == pc = "down" => afk = {}

IInv ==
    /\ TypeOK
    /\ IndexConsistent
    /\ FileConsistent
    /\ TokenIdentity
    /\ FileBounded
    /\ DownIsEmpty

USE RegistryAssumption

-----------------------------------------------------------------------------
(* Lemmas about the map operators.                                         *)

\* m[k] = v adds k and changes nothing else.
LEMMA AssignProp ==
    ASSUME NEW m, NEW k, NEW v
    PROVE  /\ DOMAIN Assign(m, k, v) = DOMAIN m \cup {k}
           /\ Assign(m, k, v)[k] = v
           /\ \A x \in DOMAIN m : x # k => Assign(m, k, v)[x] = m[x]
  BY DEF Assign

\* m[k] = v keeps the type of a map.
LEMMA AssignType ==
    ASSUME NEW m, NEW K, NEW V, IsMap(m, K, V), NEW k \in K, NEW v \in V
    PROVE  IsMap(Assign(m, k, v), K, V)
  BY DEF Assign, IsMap

\* m.erase(k) removes k and changes nothing else.
LEMMA EraseProp ==
    ASSUME NEW m, NEW k
    PROVE  /\ DOMAIN Erase(m, k) = DOMAIN m \ {k}
           /\ \A x \in DOMAIN m \ {k} : Erase(m, k)[x] = m[x]
  BY DEF Erase, Restrict

\* m.erase(k) keeps the type of a map.
LEMMA EraseType ==
    ASSUME NEW m, NEW K, NEW V, IsMap(m, K, V), NEW k
    PROVE  IsMap(Erase(m, k), K, V)
  BY DEF Erase, Restrict, IsMap

\* emplace of a new key is an assignment.
LEMMA EmplaceNew ==
    ASSUME NEW m, NEW k, NEW v, k \notin DOMAIN m
    PROVE  Emplace(m, k, v) = Assign(m, k, v)
  BY DEF Emplace

\* A counter restored over a bounded set of ids is ahead of all of them.
LEMMA BumpedProp ==
    ASSUME NEW ids \in SUBSET Nat, NEW b \in Nat, \A i \in ids : i < b
    PROVE  /\ Bumped(0, ids) \in Nat
           /\ \A i \in ids : i < Bumped(0, ids)
  <1> DEFINE T == {n \in Nat : \A i \in ids : i < n}
             C == {0} \cup {i + 1 : i \in ids}
  <1>1. b \in T
    OBVIOUS
  <1>2. IsWellFoundedOn(OpToRel(<, Nat), Nat)
    BY NatLessThanWellFounded
  <1>3. \E n \in T : \A y \in T : <<y, n>> \notin OpToRel(<, Nat)
    <2>1. T \subseteq Nat /\ T # {}
      BY <1>1
    <2> QED
      BY <1>2, <2>1, WFMin
  <1>4. PICK n \in T : \A y \in T : ~(y < n)
    BY <1>3 DEF OpToRel
  <1>5. n \in C
    <2>1. CASE n = 0
      BY <2>1
    <2>2. CASE n # 0
      <3>1. n - 1 \in Nat /\ n - 1 < n
        BY <2>2, <1>4
      <3>2. n - 1 \notin T
        BY <3>1, <1>4
      <3>3. PICK i \in ids : ~(i < n - 1)
        BY <3>1, <3>2
      <3>4. n = i + 1
        BY <3>3, <3>1, <1>4
      <3> QED
        BY <3>4
    <2> QED
      BY <2>1, <2>2
  <1>6. n >= 0 /\ \A i \in ids : n > i
    BY <1>4
  <1>7. Bumped(0, ids) \in C /\ \A i \in ids : Bumped(0, ids) > i
    BY <1>5, <1>6 DEF Bumped
  <1>8. C \subseteq Nat
    OBVIOUS
  <1> QED
    BY <1>7, <1>8

-----------------------------------------------------------------------------
(* The first start.                                                        *)

LEMMA InitInv == Init => IInv
  <1> SUFFICES ASSUME Init PROVE IInv
    OBVIOUS
  <1> USE DEF Init, Nothing, EmptyGame
  <1>1. TypeOK
    <2>1. countdown \in 0 .. SavePeriod /\ unsaved \in 0 .. SavePeriod
      BY RegistryAssumption
    <2>2. pc = "idle" /\ ticking \in BOOLEAN /\ saveThrew \in BOOLEAN /\ conn \in {"ok", "failed", "broken"}
      OBVIOUS
    <2> QED
      BY <2>1, <2>2 DEF TypeOK, IsMap, IsSavedGame
  <1>2. IndexConsistent
    BY DEF IndexConsistent, TokenIndex, NameIndex, MapIndex, DogIndex, FreshIds
  <1>3. FileConsistent /\ TokenIdentity
    BY DEF FileConsistent, TokenIdentity
  <1>4. FileBounded /\ DownIsEmpty
    <2>1. 0 \in Nat /\ \A i \in DOMAIN file.players : i < 0 /\ file.players[i].dog < 0
      OBVIOUS
    <2> QED
      BY <2>1 DEF FileBounded, DownIsEmpty
  <1> QED
    BY <1>1, <1>2, <1>3, <1>4 DEF IInv

-----------------------------------------------------------------------------
(* Requests.                                                               *)

\* A new player enters all seven containers.
LEMMA JoinInv ==
    ASSUME IInv, NEW name \in Names, NEW map \in Maps, NEW token \in Tokens,
           pc = "idle", Join(name, map, token)
    PROVE  IInv'
  <1> DEFINE player == [name |-> name, map |-> map, dog |-> nextDog]
             dog    == [moving |-> FALSE, afk |-> 0]
             id     == nextPlayer
  <1>i. /\ TypeOK /\ TokenIndex /\ NameIndex /\ MapIndex /\ DogIndex /\ FreshIds
        /\ FileConsistent /\ TokenIdentity /\ FileBounded /\ DownIsEmpty
    BY DEF IInv, IndexConsistent
  <1>0. /\ id \in Nat /\ nextDog \in Nat
        /\ player \in PlayerRec /\ dog \in DogRec
        /\ id \notin DOMAIN players /\ id \notin DOMAIN tokens
        /\ \A i \in DOMAIN players : players[i].dog # nextDog
        /\ nextDog \notin DOMAIN dogs
        /\ token \notin DOMAIN tokenToPlayer
    <2>1. id \in Nat /\ nextDog \in Nat /\ player \in PlayerRec /\ dog \in DogRec
      BY <1>i DEF TypeOK, PlayerRec, DogRec
    <2>2. id \notin DOMAIN players /\ \A i \in DOMAIN players : players[i].dog # nextDog
      BY <1>i, <2>1 DEF FreshIds
    <2>3. id \notin DOMAIN tokens /\ nextDog \notin DOMAIN dogs
      BY <1>i, <2>2 DEF TokenIndex, DogIndex
    <2>4. token \notin DOMAIN tokenToPlayer
      BY <1>i DEF TokenIdentity, Join
    <2> QED
      BY <2>1, <2>2, <2>3, <2>4
  <1>1. /\ tokenToPlayer' = Assign(tokenToPlayer, token, id)
        /\ tokens' = Assign(tokens, id, token)
        /\ players' = Assign(players, id, player)
        /\ dogs' = Assign(dogs, nextDog, dog)
        /\ nameToId' = Assign(nameToId, name, id)
        /\ owner' = Assign(owner, token, name)
        /\ sessions' = Assign(sessions, map, SetAt(sessions, map) \cup {nextDog})
        /\ mapToPlayers' = Assign(mapToPlayers, map, SetAt(mapToPlayers, map) \cup {id})
        /\ nextPlayer' = nextPlayer + 1 /\ nextDog' = nextDog + 1
        /\ UNCHANGED <<pc, afk, delta, countdown, ticking, conn, file, retired, run, unsaved, saveThrew>>
    BY <1>0, EmplaceNew DEF Join, tick, disk
  <1>2. TypeOK'
    <2>0. /\ IsMap(sessions, Maps, SUBSET Nat) /\ IsMap(mapToPlayers, Maps, SUBSET Nat)
          /\ IsMap(players, Nat, PlayerRec) /\ IsMap(tokens, Nat, Tokens)
          /\ IsMap(tokenToPlayer, Tokens, Nat) /\ IsMap(nameToId, Names, Nat)
          /\ IsMap(dogs, Nat, DogRec) /\ IsMap(owner, Tokens, Names)
      BY <1>i DEF TypeOK
    <2>1. /\ SetAt(sessions, map) \cup {nextDog} \in SUBSET Nat
          /\ SetAt(mapToPlayers, map) \cup {id} \in SUBSET Nat
      BY <2>0, <1>0 DEF SetAt, IsMap
    <2>2. IsMap(sessions', Maps, SUBSET Nat)
      BY <1>1, <2>0, <2>1, AssignType
    <2>3. IsMap(mapToPlayers', Maps, SUBSET Nat)
      BY <1>1, <2>0, <2>1, AssignType
    <2>4. IsMap(players', Nat, PlayerRec) /\ IsMap(tokens', Nat, Tokens)
      BY <1>0, <1>1, <2>0, AssignType
    <2>5. IsMap(tokenToPlayer', Tokens, Nat) /\ IsMap(nameToId', Names, Nat)
      BY <1>0, <1>1, <2>0, AssignType
    <2>7. IsMap(dogs', Nat, DogRec) /\ IsMap(owner', Tokens, Names)
      BY <1>0, <1>1, <2>0, AssignType
    <2>6. afk' \subseteq DOMAIN players'
      BY <1>i, <1>1 DEF TypeOK, Assign
    <2> QED
      BY <1>i, <1>1, <1>0, <2>2, <2>3, <2>4, <2>5, <2>6, <2>7 DEF TypeOK
  <1>3. TokenIndex'
    <2>1. /\ DOMAIN tokens' = DOMAIN tokens \cup {id} /\ tokens'[id] = token
          /\ \A i \in DOMAIN tokens : tokens'[i] = tokens[i]
          /\ DOMAIN players' = DOMAIN players \cup {id}
      BY <1>0, <1>1 DEF Assign
    <2>2. /\ DOMAIN tokenToPlayer' = DOMAIN tokenToPlayer \cup {token}
          /\ tokenToPlayer'[token] = id
          /\ \A t \in DOMAIN tokenToPlayer : tokenToPlayer'[t] = tokenToPlayer[t]
      BY <1>0, <1>1 DEF Assign
    <2> QED
      BY <1>i, <2>1, <2>2 DEF TokenIndex
  <1>4. NameIndex'
    <2>1. name \notin DOMAIN nameToId
      BY DEF Join
    <2>2. \A i \in DOMAIN players : players[i].name # name
      BY <1>i, <2>1 DEF NameIndex
    <2> QED
      <3>1. /\ DOMAIN players' = DOMAIN players \cup {id} /\ players'[id].name = name
            /\ \A i \in DOMAIN players : players'[i].name = players[i].name
        BY <1>0, <1>1 DEF Assign
      <3>2. /\ DOMAIN nameToId' = DOMAIN nameToId \cup {name} /\ nameToId'[name] = id
            /\ \A n \in DOMAIN nameToId : nameToId'[n] = nameToId[n]
        BY <2>1, <1>1 DEF Assign
      <3> QED
        BY <1>i, <2>2, <3>1, <3>2 DEF NameIndex
  <1>5. MapIndex'
    BY <1>i, <1>0, <1>1 DEF MapIndex, Assign, SetAt
  <1>6. DogIndex'
    <2> DEFINE On(m) == {j \in DOMAIN players : players[j].map = m}
               OnP(m) == {j \in DOMAIN players' : players'[j].map = m}
    <2>1. /\ DOMAIN players' = DOMAIN players \cup {id}
          /\ players'[id] = player
          /\ \A i \in DOMAIN players : players'[i] = players[i]
      BY <1>0, <1>1 DEF Assign
    <2>2. /\ OnP(map) = On(map) \cup {id}
          /\ \A m : m # map => OnP(m) = On(m)
      BY <2>1, <1>0
    <2>3. \A i, j \in DOMAIN players' : players'[i].dog = players'[j].dog => i = j
      BY <1>i, <1>0, <2>1 DEF DogIndex
    <2>4. DOMAIN dogs' = {players'[i].dog : i \in DOMAIN players'}
      BY <1>i, <1>0, <1>1, <2>1 DEF DogIndex, Assign
    <2>5. ASSUME NEW m \in DOMAIN sessions'
          PROVE  sessions'[m] = {players'[i].dog : i \in OnP(m)}
      <3>1. CASE m = map
        <4>1. SetAt(sessions, map) = {players[i].dog : i \in On(map)}
          BY <1>i DEF DogIndex, SetAt
        <4>2. sessions'[m] = SetAt(sessions, map) \cup {nextDog}
          BY <1>1, <3>1 DEF Assign
        <4> QED
          BY <4>1, <4>2, <3>1, <2>1, <2>2
      <3>2. CASE m # map
        <4>1. m \in DOMAIN sessions /\ sessions'[m] = sessions[m]
          BY <1>1, <3>2 DEF Assign
        <4>2. sessions[m] = {players[i].dog : i \in On(m)}
          BY <1>i, <4>1 DEF DogIndex
        <4> QED
          BY <4>1, <4>2, <3>2, <2>1, <2>2
      <3> QED
        BY <3>1, <3>2
    <2>6. \A i \in DOMAIN players' : players'[i].map \in DOMAIN sessions'
      BY <1>i, <1>1, <2>1 DEF DogIndex, Assign
    <2> QED
      BY <2>3, <2>4, <2>5, <2>6 DEF DogIndex
  <1>7. FreshIds'
    BY <1>i, <1>0, <1>1 DEF FreshIds, Assign, TypeOK, IsMap, PlayerRec
  <1>8. FileConsistent' /\ FileBounded' /\ DownIsEmpty'
    BY <1>i, <1>1 DEF FileConsistent, FileBounded, DownIsEmpty
  <1>9. TokenIdentity'
    BY <1>i, <1>0, <1>1 DEF TokenIdentity, Assign, TokenIndex, Join
  <1> QED
    BY <1>2, <1>3, <1>4, <1>5, <1>6, <1>7, <1>8, <1>9 DEF IInv, IndexConsistent

-----------------------------------------------------------------------------
(* Steps that leave every index alone.                                     *)

\* The indices depend on the dogs only through the set of dogs that exist.
LEMMA IndexFrame ==
    ASSUME IndexConsistent, UNCHANGED <<index, sessions>>, DOMAIN dogs' = DOMAIN dogs
    PROVE  IndexConsistent'
  BY DEF IndexConsistent, TokenIndex, NameIndex, MapIndex, DogIndex, FreshIds, index

\* A request that only commands a dog.
LEMMA MovePlayerInv ==
    ASSUME IInv, NEW token \in Tokens, NEW go \in BOOLEAN, MovePlayer(token, go)
    PROVE  IInv'
  <1>i. TypeOK /\ IndexConsistent /\ FileConsistent /\ TokenIdentity /\ FileBounded
    BY DEF IInv
  <1> DEFINE d == players[tokenToPlayer[token]].dog
  <1>1. /\ dogs' = [dogs EXCEPT ![d] = [moving |-> go, afk |-> 0]]
        /\ UNCHANGED <<pc, index, sessions, tick, conn, disk, run, owner, unsaved, saveThrew>>
        /\ pc = "idle"
    BY DEF MovePlayer
  <1>2. DOMAIN dogs' = DOMAIN dogs
    BY <1>1
  <1>3. IsMap(dogs', Nat, DogRec)
    <2>1. IsMap(dogs, Nat, DogRec) /\ 0 \in 0 .. MaxInactive
      BY <1>i DEF TypeOK
    <2>2. [moving |-> go, afk |-> 0] \in DogRec
      BY <2>1 DEF DogRec
    <2>3. \A x \in DOMAIN dogs : dogs'[x] = dogs[x] \/ dogs'[x] = [moving |-> go, afk |-> 0]
      BY <1>1
    <2>4. dogs' = [x \in DOMAIN dogs' |-> dogs'[x]]
      BY <1>1
    <2> QED
      BY <1>2, <2>1, <2>2, <2>3, <2>4 DEF IsMap
  <1>4. TypeOK'
    BY <1>i, <1>1, <1>3 DEF TypeOK, index, tick, disk
  <1>5. IndexConsistent'
    BY <1>i, <1>1, <1>2, IndexFrame
  <1>6. FileConsistent' /\ TokenIdentity' /\ FileBounded' /\ DownIsEmpty'
    BY <1>i, <1>1 DEF FileConsistent, TokenIdentity, FileBounded, DownIsEmpty, index, disk
  <1> QED
    BY <1>4, <1>5, <1>6 DEF IInv

\* The first part of the tick: dogs advance, afk_players is filled.
LEMMA TickInv ==
    ASSUME IInv, NEW dt \in Deltas, Tick(dt)
    PROVE  IInv'
  <1>i. TypeOK /\ IndexConsistent /\ FileConsistent /\ TokenIdentity /\ FileBounded
    BY DEF IInv
  <1>1. PICK halted \in SUBSET {d \in DOMAIN dogs : dogs[d].moving} :
          dogs' = [d \in DOMAIN dogs |->
                      IF d \in OnSomeMap THEN Advanced(dogs[d], dt, d \in halted)
                                         ELSE dogs[d]]
    BY DEF Tick
  <1>2. /\ UNCHANGED <<index, sessions, countdown, ticking, conn, disk, run, owner, saveThrew>>
        /\ afk' \subseteq DOMAIN players /\ delta' = dt /\ pc' = "retire"
        /\ unsaved' = IF unsaved + dt > SavePeriod THEN SavePeriod ELSE unsaved + dt
    BY DEF Tick
  <1>3. IsMap(dogs', Nat, DogRec)
    <2>1. IsMap(dogs, Nat, DogRec)
      BY <1>i DEF TypeOK
    <2>2. ASSUME NEW dog \in DogRec, NEW h \in BOOLEAN
          PROVE  Advanced(dog, dt, h) \in DogRec
      <3>1. dog.afk \in Nat /\ dt \in Nat /\ dog.afk + dt \in Nat /\ MaxInactive \in Nat
        BY DEF DogRec
      <3>2. Capped(dog.afk + dt) \in 0 .. MaxInactive /\ 0 \in 0 .. MaxInactive
        BY <3>1 DEF Capped
      <3>3. (dog.moving /\ ~h) \in BOOLEAN
        BY DEF DogRec
      <3> QED
        BY <3>2, <3>3 DEF Advanced, DogRec
    <2>3. \A d \in DOMAIN dogs : dogs'[d] \in DogRec
      <3>1. TAKE d \in DOMAIN dogs
      <3>2. dogs[d] \in DogRec /\ (d \in halted) \in BOOLEAN
        BY <2>1 DEF IsMap
      <3>3. Advanced(dogs[d], dt, d \in halted) \in DogRec
        BY <2>2, <3>2
      <3>4. dogs'[d] = IF d \in OnSomeMap THEN Advanced(dogs[d], dt, d \in halted) ELSE dogs[d]
        BY <1>1
      <3> QED
        BY <3>2, <3>3, <3>4
    <2> QED
      BY <1>1, <2>1, <2>3 DEF IsMap
  <1>4. TypeOK'
    <2>1. dt \in Nat /\ unsaved' \in 0 .. SavePeriod
      BY <1>i, <1>2 DEF TypeOK
    <2>2. afk' \subseteq DOMAIN players'
      BY <1>2 DEF index
    <2> QED
      BY <1>i, <1>2, <1>3, <2>1, <2>2 DEF TypeOK, index, disk
  <1>5. IndexConsistent'
    BY <1>i, <1>1, <1>2, IndexFrame
  <1>6. FileConsistent' /\ TokenIdentity' /\ FileBounded' /\ DownIsEmpty'
    BY <1>i, <1>2 DEF FileConsistent, TokenIdentity, FileBounded, DownIsEmpty, index, disk
  <1> QED
    BY <1>4, <1>5, <1>6 DEF IInv

\* A row is well formed.
LEMMA RecordType ==
    ASSUME TypeOK, TokenIndex, NEW i \in afk, NEW acked \in BOOLEAN
    PROVE  Append(retired, Record(i, acked)) \in Seq(RetiredRec)
  <1>1. i \in DOMAIN players /\ i \in DOMAIN tokens
    BY DEF TypeOK, TokenIndex
  <1>2. players[i] \in PlayerRec /\ tokens[i] \in Tokens /\ run \in 1 .. MaxRuns
    BY <1>1 DEF TypeOK, IsMap
  <1>3. Record(i, acked) \in RetiredRec
    BY <1>2 DEF Record, RetiredRec, PlayerRec
  <1> QED
    BY <1>3 DEF TypeOK

\* The row is committed.
LEMMA SaveRetiredPlayerInv ==
    ASSUME IInv, NEW i, SaveRetiredPlayer(i)
    PROVE  IInv'
  <1>i. TypeOK /\ IndexConsistent /\ FileConsistent /\ TokenIdentity /\ FileBounded
    BY DEF IInv
  <1>1. /\ UNCHANGED <<index, world, tick, conn, file, run, owner, unsaved, saveThrew>>
        /\ pc' = "erase"
        /\ i \in afk
        /\ retired' = Append(retired, Record(i, TRUE))
    BY DEF SaveRetiredPlayer, IsNextAfk
  <1>2. retired' \in Seq(RetiredRec)
    BY <1>i, <1>1, RecordType DEF IndexConsistent
  <1>4. TypeOK'
    BY <1>i, <1>1, <1>2 DEF TypeOK, index, world, tick
  <1>5. IndexConsistent'
    BY <1>i, <1>1, IndexFrame DEF world
  <1>6. FileConsistent' /\ TokenIdentity' /\ FileBounded' /\ DownIsEmpty'
    BY <1>i, <1>1 DEF FileConsistent, TokenIdentity, FileBounded, DownIsEmpty, index
  <1> QED
    BY <1>4, <1>5, <1>6 DEF IInv

\* The insert throws and the tick is broken off.
LEMMA SaveRetiredThrowsInv ==
    ASSUME IInv, NEW i, SaveRetiredThrows(i)
    PROVE  IInv'
  <1>i. TypeOK /\ IndexConsistent /\ FileConsistent /\ TokenIdentity /\ FileBounded
    BY DEF IInv
  <1>1. /\ UNCHANGED <<index, world, delta, countdown, file, run, owner, unsaved, saveThrew>>
        /\ pc' = "idle" /\ afk' = {} /\ ticking' = ~AutoTick
        /\ i \in afk
        /\ conn' \in {"failed", "broken"}
        /\ retired' = retired \/ retired' = Append(retired, Record(i, FALSE))
    BY DEF SaveRetiredThrows, InDoubt, LeaveTick, IsNextAfk
  <1>2. retired' \in Seq(RetiredRec)
    BY <1>i, <1>1, RecordType DEF IndexConsistent, TypeOK
  <1>3. ticking' \in BOOLEAN
    BY <1>1
  <1>4. TypeOK'
    BY <1>i, <1>1, <1>2, <1>3 DEF TypeOK, index, world
  <1>5. IndexConsistent'
    BY <1>i, <1>1, IndexFrame DEF world
  <1>6. FileConsistent' /\ TokenIdentity' /\ FileBounded' /\ DownIsEmpty'
    BY <1>i, <1>1 DEF FileConsistent, TokenIdentity, FileBounded, DownIsEmpty, index
  <1> QED
    BY <1>4, <1>5, <1>6 DEF IInv

\* The end of the tick: only the countdown changes.
LEMMA SaveGameStateInv == IInv /\ SaveGameState => IInv'
  <1> SUFFICES ASSUME IInv, SaveGameState PROVE IInv'
    OBVIOUS
  <1>i. TypeOK /\ IndexConsistent /\ FileConsistent /\ TokenIdentity /\ FileBounded
    BY DEF IInv
  <1>1. /\ UNCHANGED <<index, world, afk, delta, ticking, conn, disk, run, owner, unsaved, saveThrew>>
        /\ pc' \in {"idle", "save"}
    BY DEF SaveGameState
  <1>2. countdown' \in 0 .. SavePeriod
    BY <1>i DEF SaveGameState, SaveIsDue, TypeOK
  <1>4. TypeOK'
    BY <1>i, <1>1, <1>2 DEF TypeOK, index, world, disk
  <1>5. IndexConsistent'
    BY <1>i, <1>1, IndexFrame DEF world
  <1>6. FileConsistent' /\ TokenIdentity' /\ FileBounded' /\ DownIsEmpty'
    BY <1>i, <1>1 DEF FileConsistent, TokenIdentity, FileBounded, DownIsEmpty, index, disk
  <1> QED
    BY <1>4, <1>5, <1>6 DEF IInv

-----------------------------------------------------------------------------
(* A retired player leaves all seven containers.                           *)

LEMMA RemovePlayerInv ==
    ASSUME IInv, NEW i, RemovePlayer(i)
    PROVE  IInv'
  <1> DEFINE player == players[i]
             On(m)  == {j \in DOMAIN players : players[j].map = m}
             OnP(m) == {j \in DOMAIN players' : players'[j].map = m}
  <1>i. /\ TypeOK /\ TokenIndex /\ NameIndex /\ MapIndex /\ DogIndex /\ FreshIds
        /\ FileConsistent /\ TokenIdentity /\ FileBounded
    BY DEF IInv, IndexConsistent
  <1>1. /\ sessions' = [sessions EXCEPT ![player.map] = @ \ {player.dog}]
        /\ dogs' = Erase(dogs, player.dog)
        /\ tokenToPlayer' = Erase(tokenToPlayer, tokens[i])
        /\ tokens' = Erase(tokens, i)
        /\ players' = Erase(players, i)
        /\ mapToPlayers' = [mapToPlayers EXCEPT ![player.map] = @ \ {i}]
        /\ nameToId' = Erase(nameToId, player.name)
        /\ afk' = afk \ {i} /\ pc' = "retire" /\ i \in afk
        /\ UNCHANGED <<nextPlayer, nextDog, delta, countdown, ticking, conn, disk,
                       run, owner, unsaved, saveThrew>>
    BY DEF RemovePlayer, IsNextAfk
  <1>2. i \in DOMAIN players /\ i \in DOMAIN tokens
    BY <1>i, <1>1 DEF TypeOK, TokenIndex
  <1>3. /\ DOMAIN players' = DOMAIN players \ {i}
        /\ \A j \in DOMAIN players \ {i} : players'[j] = players[j]
    BY <1>1, EraseProp
  <1>4. /\ DOMAIN tokens' = DOMAIN tokens \ {i}
        /\ \A j \in DOMAIN tokens \ {i} : tokens'[j] = tokens[j]
    BY <1>1, EraseProp
  <1>5. /\ DOMAIN tokenToPlayer' = DOMAIN tokenToPlayer \ {tokens[i]}
        /\ \A t \in DOMAIN tokenToPlayer \ {tokens[i]} : tokenToPlayer'[t] = tokenToPlayer[t]
    BY <1>1, EraseProp
  <1>6. /\ DOMAIN nameToId' = DOMAIN nameToId \ {player.name}
        /\ \A n \in DOMAIN nameToId \ {player.name} : nameToId'[n] = nameToId[n]
    BY <1>1, EraseProp
  <1>7. TypeOK'
    <2>1. /\ IsMap(sessions, Maps, SUBSET Nat) /\ IsMap(mapToPlayers, Maps, SUBSET Nat)
          /\ IsMap(players, Nat, PlayerRec) /\ IsMap(tokens, Nat, Tokens)
          /\ IsMap(tokenToPlayer, Tokens, Nat) /\ IsMap(nameToId, Names, Nat)
          /\ IsMap(dogs, Nat, DogRec)
      BY <1>i DEF TypeOK
    <2>2. IsMap(sessions', Maps, SUBSET Nat)
      BY <1>1, <2>1 DEF IsMap
    <2>3. IsMap(mapToPlayers', Maps, SUBSET Nat)
      BY <1>1, <2>1 DEF IsMap
    <2>4. IsMap(players', Nat, PlayerRec) /\ IsMap(tokens', Nat, Tokens)
      BY <1>1, <2>1, EraseType
    <2>5. IsMap(tokenToPlayer', Tokens, Nat) /\ IsMap(nameToId', Names, Nat)
      BY <1>1, <2>1, EraseType
    <2>6. IsMap(dogs', Nat, DogRec)
      BY <1>1, <2>1, EraseType
    <2>7. afk' \subseteq DOMAIN players'
      BY <1>i, <1>1, <1>3 DEF TypeOK
    <2> QED
      BY <1>i, <1>1, <2>2, <2>3, <2>4, <2>5, <2>6, <2>7 DEF TypeOK, disk
  <1>8. TokenIndex'
    BY <1>i, <1>2, <1>3, <1>4, <1>5 DEF TokenIndex
  <1>9. NameIndex'
    BY <1>i, <1>2, <1>3, <1>6 DEF NameIndex
  <1>10. MapIndex'
    <2>1. DOMAIN mapToPlayers' = DOMAIN mapToPlayers
      BY <1>1
    <2>2. ASSUME NEW m \in DOMAIN mapToPlayers PROVE mapToPlayers'[m] = OnP(m)
      <3>1. mapToPlayers[m] = On(m) /\ OnP(m) = On(m) \ {i}
        BY <1>i, <1>3 DEF MapIndex
      <3>2. CASE m = player.map
        BY <3>1, <3>2, <1>1
      <3>3. CASE m # player.map
        BY <3>1, <3>3, <1>1
      <3> QED
        BY <3>2, <3>3
    <2> QED
      BY <1>i, <1>3, <2>1, <2>2 DEF MapIndex
  <1>11. DogIndex'
    <2>1. DOMAIN sessions' = DOMAIN sessions
      BY <1>1
    <2>2. ASSUME NEW m \in DOMAIN sessions
          PROVE  sessions'[m] = {players'[j].dog : j \in OnP(m)}
      <3>1. sessions[m] = {players[j].dog : j \in On(m)} /\ OnP(m) = On(m) \ {i}
        BY <1>i, <1>3 DEF DogIndex
      <3>2. \A j \in On(m) : j # i => players[j].dog # player.dog
        BY <1>i, <1>2 DEF DogIndex
      <3>3. {players'[j].dog : j \in OnP(m)} = {players[j].dog : j \in On(m) \ {i}}
        BY <1>3, <3>1
      <3>4. CASE m = player.map
        <4>1. sessions'[m] = sessions[m] \ {player.dog} /\ i \in On(m)
          BY <3>4, <1>1, <1>2
        <4> QED
          BY <4>1, <3>1, <3>2, <3>3
      <3>5. CASE m # player.map
        <4>1. sessions'[m] = sessions[m] /\ i \notin On(m)
          BY <3>5, <1>1
        <4> QED
          BY <4>1, <3>1, <3>3
      <3> QED
        BY <3>4, <3>5
    <2>3. DOMAIN dogs' = DOMAIN dogs \ {player.dog}
      BY <1>1, EraseProp
    <2>4. DOMAIN dogs' = {players'[j].dog : j \in DOMAIN players'}
      BY <1>i, <1>2, <1>3, <2>3 DEF DogIndex
    <2> QED
      BY <1>i, <1>3, <2>1, <2>2, <2>4 DEF DogIndex
  <1>12. FreshIds'
    BY <1>i, <1>1, <1>3 DEF FreshIds
  <1>13. FileConsistent' /\ FileBounded' /\ DownIsEmpty'
    BY <1>i, <1>1 DEF FileConsistent, FileBounded, DownIsEmpty, disk
  <1>14. TokenIdentity'
    <2>1. \A t \in DOMAIN tokenToPlayer' :
             /\ t \in DOMAIN tokenToPlayer /\ tokenToPlayer'[t] = tokenToPlayer[t]
             /\ tokenToPlayer[t] \in DOMAIN players \ {i}
      BY <1>i, <1>2, <1>5 DEF TokenIndex
    <2> QED
      BY <1>i, <1>1, <1>3, <2>1 DEF TokenIdentity, disk
  <1> QED
    BY <1>7, <1>8, <1>9, <1>10, <1>11, <1>12, <1>13, <1>14 DEF IInv, IndexConsistent

-----------------------------------------------------------------------------
(* Saving, stopping and restoring.                                         *)

\* What GameRepr writes can be restored: the file inherits the consistency
\* of the indices and the identity of the tokens.
LEMMA SnapshotProp ==
    ASSUME IInv, file' = Snapshot, UNCHANGED owner
    PROVE  /\ IsSavedGame(file') /\ FileConsistent' /\ FileBounded'
           /\ \A i \in DOMAIN file'.players :
                 /\ file'.tokens[i] \in DOMAIN owner'
                 /\ file'.players[i].name = owner'[file'.tokens[i]]
  <1>i. /\ TypeOK /\ TokenIndex /\ NameIndex /\ MapIndex /\ DogIndex /\ FreshIds
        /\ TokenIdentity
    BY DEF IInv, IndexConsistent
  <1> DEFINE dogIds == {players[i].dog : i \in DOMAIN players}
  <1>1. /\ file'.players = players /\ file'.tokens = tokens
        /\ file'.moving = [d \in dogIds |-> dogs[d].moving]
        /\ file'.maps = DOMAIN sessions
        /\ file'.run = run /\ file'.records = Len(retired)
    BY DEF Snapshot
  <1>2. IsSavedGame(file')
    <2>1. /\ IsMap(players, Nat, PlayerRec) /\ IsMap(tokens, Nat, Tokens)
          /\ IsMap(dogs, Nat, DogRec) /\ DOMAIN sessions \subseteq Maps
          /\ run \in 0 .. MaxRuns /\ Len(retired) \in Nat
      BY <1>i DEF TypeOK, IsMap
    <2>2. dogIds = DOMAIN dogs
      BY <1>i DEF DogIndex
    <2>3. IsMap(file'.moving, Nat, BOOLEAN)
      BY <1>1, <2>1, <2>2 DEF IsMap, DogRec
    <2>4. file' = [players |-> file'.players, tokens |-> file'.tokens,
                   moving |-> file'.moving, maps |-> file'.maps,
                   run |-> file'.run, records |-> file'.records]
      BY DEF Snapshot
    <2> QED
      BY <1>1, <2>1, <2>3, <2>4 DEF IsSavedGame
  <1>3. FileConsistent'
    <2>1. DOMAIN tokens = DOMAIN players /\ DOMAIN file'.moving = dogIds
      BY <1>i, <1>1 DEF TokenIndex
    <2>2. \A i \in DOMAIN players : players[i].map \in DOMAIN sessions
      BY <1>i DEF DogIndex
    <2>3. \A i, j \in DOMAIN players :
             \/ tokens[i] = tokens[j]
             \/ players[i].name = players[j].name
             \/ players[i].dog = players[j].dog
             => i = j
      BY <1>i DEF TokenIndex, NameIndex, DogIndex
    <2> QED
      BY <1>1, <2>1, <2>2, <2>3 DEF FileConsistent
  <1>4. FileBounded'
    <2> DEFINE b == IF nextPlayer < nextDog THEN nextDog ELSE nextPlayer
    <2>1. b \in Nat /\ nextPlayer \in Nat /\ nextDog \in Nat
      BY <1>i DEF TypeOK
    <2>2. \A i \in DOMAIN players : i \in Nat /\ players[i].dog \in Nat
      BY <1>i DEF TypeOK, IsMap, PlayerRec
    <2>3. \A i \in DOMAIN players : i < b /\ players[i].dog < b
      BY <1>i, <2>1, <2>2 DEF FreshIds
    <2> QED
      BY <1>1, <2>1, <2>3 DEF FileBounded
  <1>5. ASSUME NEW i \in DOMAIN players
        PROVE  tokens[i] \in DOMAIN owner /\ players[i].name = owner[tokens[i]]
    BY <1>i DEF TokenIndex, TokenIdentity
  <1> QED
    BY <1>1, <1>2, <1>3, <1>4, <1>5

\* A periodic save.
LEMMA SaveGameInv == IInv /\ SaveGame => IInv'
  <1> SUFFICES ASSUME IInv, SaveGame PROVE IInv'
    OBVIOUS
  <1>i. TypeOK /\ IndexConsistent /\ TokenIdentity
    BY DEF IInv
  <1>1. /\ UNCHANGED <<index, world, afk, delta, ticking, conn, retired, run, owner>>
        /\ file' = Snapshot /\ countdown' = SavePeriod /\ unsaved' = 0 /\ pc' = "idle"
        /\ saveThrew' = FALSE
    BY DEF SaveGame
  <1>2. /\ IsSavedGame(file') /\ FileConsistent' /\ FileBounded'
        /\ \A i \in DOMAIN file'.players :
              /\ file'.tokens[i] \in DOMAIN owner'
              /\ file'.players[i].name = owner'[file'.tokens[i]]
    BY <1>1, SnapshotProp
  <1>3. countdown' \in 0 .. SavePeriod /\ unsaved' \in 0 .. SavePeriod
    BY <1>1
  <1>4. TypeOK'
    BY <1>i, <1>1, <1>2, <1>3 DEF TypeOK, index, world
  <1>5. IndexConsistent'
    BY <1>i, <1>1, IndexFrame DEF world
  <1>6. TokenIdentity' /\ DownIsEmpty'
    BY <1>i, <1>1, <1>2 DEF TokenIdentity, DownIsEmpty, index
  <1> QED
    BY <1>2, <1>4, <1>5, <1>6 DEF IInv

\* A periodic save that throws changes nothing the game or the file knows.
LEMMA SaveGameThrowsInv == IInv /\ SaveGameThrows => IInv'
  <1> SUFFICES ASSUME IInv, SaveGameThrows PROVE IInv'
    OBVIOUS
  <1>i. TypeOK /\ IndexConsistent /\ FileConsistent /\ TokenIdentity /\ FileBounded
    BY DEF IInv
  <1>1. /\ UNCHANGED <<index, world, delta, countdown, conn, disk, run, owner, unsaved>>
        /\ pc' = "idle" /\ afk' = {} /\ ticking' = ~AutoTick /\ saveThrew' = TRUE
    BY DEF SaveGameThrows, LeaveTick
  <1>2. ticking' \in BOOLEAN
    BY <1>1
  <1>4. TypeOK'
    BY <1>i, <1>1, <1>2 DEF TypeOK, index, world, disk
  <1>5. IndexConsistent'
    BY <1>i, <1>1, IndexFrame DEF world
  <1>6. FileConsistent' /\ TokenIdentity' /\ FileBounded' /\ DownIsEmpty'
    BY <1>i, <1>1 DEF FileConsistent, TokenIdentity, FileBounded, DownIsEmpty, index, disk
  <1> QED
    BY <1>4, <1>5, <1>6 DEF IInv

\* A process that stops, with whatever file it leaves.
LEMMA StoppedInv ==
    ASSUME IInv, Stopped, IsSavedGame(file'), FileConsistent', FileBounded',
           \A i \in DOMAIN file'.players :
              /\ file'.tokens[i] \in DOMAIN owner'
              /\ file'.players[i].name = owner'[file'.tokens[i]]
    PROVE  IInv'
  <1> USE DEF Stopped, Nothing
  <1>1. TypeOK'
    <2>1. IsMap(Nothing, Nat, PlayerRec) /\ IsMap(Nothing, Nat, Tokens)
          /\ IsMap(Nothing, Tokens, Nat) /\ IsMap(Nothing, Names, Nat)
          /\ IsMap(Nothing, Maps, SUBSET Nat) /\ IsMap(Nothing, Nat, DogRec)
      BY DEF IsMap
    <2>2. countdown' \in 0 .. SavePeriod /\ unsaved' \in 0 .. SavePeriod
      BY RegistryAssumption
    <2>3. pc' = "down" /\ ticking' \in BOOLEAN /\ saveThrew' \in BOOLEAN
          /\ conn' \in {"ok", "failed", "broken"}
      OBVIOUS
    <2> QED
      BY <2>1, <2>2, <2>3 DEF IInv, TypeOK
  <1>2. IndexConsistent'
    BY DEF IndexConsistent, TokenIndex, NameIndex, MapIndex, DogIndex, FreshIds
  <1>3. TokenIdentity' /\ DownIsEmpty'
    BY DEF TokenIdentity, DownIsEmpty
  <1> QED
    BY <1>1, <1>2, <1>3 DEF IInv

\* Killed: the file is the old one.
LEMMA ServerDiesInv == IInv /\ ServerDies => IInv'
  <1> SUFFICES ASSUME IInv, ServerDies PROVE IInv'
    OBVIOUS
  <1>1. Stopped /\ UNCHANGED file /\ UNCHANGED owner
    BY DEF ServerDies, Stopped
  <1>2. /\ IsSavedGame(file') /\ FileConsistent' /\ FileBounded'
        /\ \A i \in DOMAIN file'.players :
              /\ file'.tokens[i] \in DOMAIN owner'
              /\ file'.players[i].name = owner'[file'.tokens[i]]
    BY <1>1 DEF IInv, TypeOK, FileConsistent, FileBounded, TokenIdentity
  <1> QED
    BY <1>1, <1>2, StoppedInv

\* Stopped by a signal with an idle strand: the file is a fresh one.
LEMMA ShutdownInv == IInv /\ Shutdown => IInv'
  <1> SUFFICES ASSUME IInv, Shutdown PROVE IInv'
    OBVIOUS
  <1>1. Stopped /\ file' = Snapshot /\ UNCHANGED owner
    BY DEF Shutdown, Stopped
  <1>2. /\ IsSavedGame(file') /\ FileConsistent' /\ FileBounded'
        /\ \A i \in DOMAIN file'.players :
              /\ file'.tokens[i] \in DOMAIN owner'
              /\ file'.players[i].name = owner'[file'.tokens[i]]
    BY <1>1, SnapshotProp
  <1> QED
    BY <1>1, <1>2, StoppedInv

\* RestoreGame rebuilds the indices of a game from a consistent file.
LEMMA RestartInv == IInv /\ Restart => IInv'
  <1> SUFFICES ASSUME IInv, Restart PROVE IInv'
    OBVIOUS
  <1> DEFINE ps     == file.players
             ids    == DOMAIN ps
             On(m)  == {i \in ids : ps[i].map = m}
             dogIds == {ps[i].dog : i \in ids}
  <1>i. TypeOK /\ FileConsistent /\ TokenIdentity /\ FileBounded /\ afk = {}
    BY DEF IInv, DownIsEmpty, Restart
  <1>1. /\ run < MaxRuns /\ run' = run + 1 /\ pc' = "idle"
        /\ UNCHANGED <<tick, conn, disk, owner, unsaved, saveThrew>>
    BY DEF Restart
  <1>2. /\ IsMap(ps, Nat, PlayerRec) /\ IsMap(file.tokens, Nat, Tokens)
        /\ IsMap(file.moving, Nat, BOOLEAN) /\ file.maps \subseteq Maps
        /\ DOMAIN file.tokens = ids /\ DOMAIN file.moving = dogIds
    BY <1>i DEF TypeOK, IsSavedGame, FileConsistent
  <1>3. /\ \A i \in ids : i \in Nat /\ ps[i] \in PlayerRec
        /\ \A i \in ids : ps[i].dog \in Nat /\ ps[i].map \in file.maps
        /\ \A i \in ids : file.tokens[i] \in Tokens
    BY <1>i, <1>2 DEF IsMap, PlayerRec, FileConsistent
  <1>4. /\ \A i, j \in ids : file.tokens[i] = file.tokens[j] => i = j
        /\ \A i, j \in ids : ps[i].name = ps[j].name => i = j
        /\ \A i, j \in ids : ps[i].dog = ps[j].dog => i = j
    BY <1>i DEF FileConsistent
  <1>5. players' = ps /\ tokens' = [i \in ids |-> file.tokens[i]]
    BY DEF Restart, RestoreGame
  <1>6. /\ DOMAIN tokenToPlayer' = {file.tokens[i] : i \in ids}
        /\ \A i \in ids : tokenToPlayer'[file.tokens[i]] = i
        /\ tokenToPlayer' = [t \in DOMAIN tokenToPlayer' |-> tokenToPlayer'[t]]
    <2>1. tokenToPlayer' = [t \in {file.tokens[i] : i \in ids} |->
               CHOOSE i \in ids : /\ file.tokens[i] = t
                                  /\ \A j \in ids : file.tokens[j] = t => i <= j]
      BY DEF Restart, RestoreGame
    <2>2. ASSUME NEW k \in ids
          PROVE  (CHOOSE i \in ids : /\ file.tokens[i] = file.tokens[k]
                                     /\ \A j \in ids : file.tokens[j] = file.tokens[k] => i <= j)
                 = k
      BY <1>3, <1>4
    <2>3. DOMAIN tokenToPlayer' = {file.tokens[i] : i \in ids}
      BY <2>1
    <2>4. ASSUME NEW k \in ids PROVE tokenToPlayer'[file.tokens[k]] = k
      <3>1. file.tokens[k] \in {file.tokens[i] : i \in ids}
        OBVIOUS
      <3> QED
        BY <2>1, <2>2, <3>1
    <2>5. tokenToPlayer' = [x \in DOMAIN tokenToPlayer' |-> tokenToPlayer'[x]]
      BY <2>1
    <2> QED
      BY <2>3, <2>4, <2>5
  <1>7. /\ DOMAIN nameToId' = {ps[i].name : i \in ids}
        /\ \A i \in ids : nameToId'[ps[i].name] = i
        /\ nameToId' = [n \in DOMAIN nameToId' |-> nameToId'[n]]
    <2>1. nameToId' = [n \in {ps[i].name : i \in ids} |->
               CHOOSE i \in ids : /\ ps[i].name = n
                                  /\ \A j \in ids : ps[j].name = n => j <= i]
      BY DEF Restart, RestoreGame
    <2>2. ASSUME NEW k \in ids
          PROVE  (CHOOSE i \in ids : /\ ps[i].name = ps[k].name
                                     /\ \A j \in ids : ps[j].name = ps[k].name => j <= i)
                 = k
      BY <1>3, <1>4
    <2>3. DOMAIN nameToId' = {ps[i].name : i \in ids}
      BY <2>1
    <2>4. ASSUME NEW k \in ids PROVE nameToId'[ps[k].name] = k
      <3>1. ps[k].name \in {ps[i].name : i \in ids}
        OBVIOUS
      <3> QED
        BY <2>1, <2>2, <3>1
    <2>5. nameToId' = [x \in DOMAIN nameToId' |-> nameToId'[x]]
      BY <2>1
    <2> QED
      BY <2>3, <2>4, <2>5
  <1>8. /\ mapToPlayers' = [m \in {ps[i].map : i \in ids} |-> On(m)]
        /\ sessions' = [m \in file.maps \cup {ps[i].map : i \in ids} |->
                           {ps[i].dog : i \in On(m)}]
        /\ dogs' = [d \in dogIds |-> [moving |-> file.moving[d], afk |-> 0]]
    BY DEF Restart, RestoreGame
  <1>9. /\ nextPlayer' \in Nat /\ \A i \in ids : i < nextPlayer'
        /\ nextDog' \in Nat /\ \A i \in ids : ps[i].dog < nextDog'
    <2>1. PICK b \in Nat : \A i \in ids : i < b /\ ps[i].dog < b
      BY <1>i DEF FileBounded
    <2>2. nextPlayer' = Bumped(0, ids) /\ nextDog' = Bumped(0, dogIds)
      BY DEF Restart, RestoreGame
    <2>3. ids \in SUBSET Nat /\ dogIds \in SUBSET Nat
      BY <1>3
    <2>4. \A d \in dogIds : d < b
      BY <2>1
    <2>5. Bumped(0, ids) \in Nat /\ \A i \in ids : i < Bumped(0, ids)
      BY <2>1, <2>3, BumpedProp
    <2>6. Bumped(0, dogIds) \in Nat /\ \A d \in dogIds : d < Bumped(0, dogIds)
      BY <2>3, <2>4, BumpedProp
    <2> QED
      BY <2>2, <2>5, <2>6
  <1>10. TypeOK'
    <2>1. IsMap(players', Nat, PlayerRec) /\ IsMap(tokens', Nat, Tokens)
      BY <1>2, <1>3, <1>5 DEF IsMap
    <2>2. IsMap(tokenToPlayer', Tokens, Nat)
      BY <1>3, <1>6 DEF IsMap
    <2>3. IsMap(nameToId', Names, Nat)
      BY <1>3, <1>7 DEF IsMap, PlayerRec
    <2>4. IsMap(mapToPlayers', Maps, SUBSET Nat)
      BY <1>3, <1>8 DEF IsMap, PlayerRec
    <2>5. IsMap(sessions', Maps, SUBSET Nat)
      <3>1. \A m : {ps[i].dog : i \in On(m)} \in SUBSET Nat
        BY <1>3
      <3> QED
        BY <1>2, <1>3, <1>8, <3>1 DEF IsMap
    <2>6. IsMap(dogs', Nat, DogRec)
      <3>1. \A d \in dogIds : [moving |-> file.moving[d], afk |-> 0] \in DogRec
        BY <1>2 DEF IsMap, DogRec
      <3> QED
        BY <1>3, <1>8, <3>1 DEF IsMap
    <2>7. run' \in 1 .. MaxRuns
      BY <1>i, <1>1 DEF TypeOK
    <2> QED
      BY <1>i, <1>1, <1>9, <2>1, <2>2, <2>3, <2>4, <2>5, <2>6, <2>7 DEF TypeOK, tick, disk
  <1>11. IndexConsistent'
    <2>1. TokenIndex'
      BY <1>5, <1>6 DEF TokenIndex
    <2>2. NameIndex'
      BY <1>5, <1>7 DEF NameIndex
    <2>3. MapIndex'
      BY <1>5, <1>8 DEF MapIndex
    <2>4. DogIndex'
      BY <1>4, <1>5, <1>8 DEF DogIndex
    <2>5. FreshIds'
      BY <1>5, <1>9 DEF FreshIds
    <2> QED
      BY <2>1, <2>2, <2>3, <2>4, <2>5 DEF IndexConsistent
  <1>12. FileConsistent' /\ FileBounded' /\ DownIsEmpty'
    BY <1>i, <1>1 DEF FileConsistent, FileBounded, DownIsEmpty, disk
  <1>13. TokenIdentity'
    <2>1. \A i \in ids : file.tokens[i] \in DOMAIN owner /\ ps[i].name = owner[file.tokens[i]]
      BY <1>i DEF TokenIdentity
    <2> QED
      BY <1>1, <1>5, <1>6, <2>1 DEF TokenIdentity, disk
  <1> QED
    BY <1>10, <1>11, <1>12, <1>13 DEF IInv

-----------------------------------------------------------------------------
(* The invariant.                                                          *)

\* Every step keeps the invariant.
LEMMA NextInv == IInv /\ [Next]_vars => IInv'
  <1> SUFFICES ASSUME IInv, [Next]_vars PROVE IInv'
    OBVIOUS
  <1>0. CASE UNCHANGED vars
    BY <1>0 DEF IInv, TypeOK, IndexConsistent, TokenIndex, NameIndex, MapIndex, DogIndex,
                FreshIds, FileConsistent, TokenIdentity, FileBounded, DownIsEmpty,
                vars, index, world, tick, disk
  <1>1. CASE \E name \in Names, map \in Maps : JoinGame(name, map)
    <2>1. PICK name \in Names, map \in Maps : JoinGame(name, map)
      BY <1>1
    <2>2. CASE Rejoin(name)
      BY <2>2, <1>0 DEF Rejoin
    <2>3. CASE pc = "idle" /\ \E token \in Tokens : Join(name, map, token)
      BY <2>3, JoinInv
    <2> QED
      BY <2>1, <2>2, <2>3 DEF JoinGame
  <1>2. CASE \E token \in Tokens, go \in BOOLEAN : MovePlayer(token, go)
    BY <1>2, MovePlayerInv
  <1>3. CASE StartTick
    BY <1>3, TickInv DEF StartTick
  <1>4. CASE RunTick
    BY <1>4, SaveRetiredPlayerInv, SaveRetiredThrowsInv, RemovePlayerInv,
       SaveGameStateInv, SaveGameInv, SaveGameThrowsInv DEF RunTick
  <1>5. CASE ServerDies \/ Shutdown \/ Restart
    BY <1>5, ServerDiesInv, ShutdownInv, RestartInv
  <1> QED
    BY <1>0, <1>1, <1>2, <1>3, <1>4, <1>5 DEF Next, Request

\* IInv is an invariant of the server.
THEOREM Invariance == Spec => []IInv
  <1>1. Init => IInv
    BY InitInv
  <1>2. IInv /\ [Next]_vars => IInv'
    BY NextInv
  <1> QED
    BY <1>1, <1>2, PTL DEF Spec

\* Type correctness, for every number of names, maps, tokens and runs.
THEOREM TypeCorrect == Spec => []TypeOK
  <1>1. IInv => TypeOK
    BY DEF IInv
  <1> QED
    BY <1>1, Invariance, PTL

\* The seven containers of Game, PlayerTokens and GameSession always agree,
\* through joins, retirements, failed inserts, crashes and restores.
THEOREM IndicesAgree == Spec => []IndexConsistent
  <1>1. IInv => IndexConsistent
    BY DEF IInv
  <1> QED
    BY <1>1, Invariance, PTL

\* The state file can always be restored into consistent indices.
THEOREM FileRestorable == Spec => []FileConsistent
  <1>1. IInv => FileConsistent
    BY DEF IInv
  <1> QED
    BY <1>1, Invariance, PTL

\* A token authenticates only the name it was issued to, across restarts.
THEOREM TokensKeepTheirName == Spec => []TokenIdentity
  <1>1. IInv => TokenIdentity
    BY DEF IInv
  <1> QED
    BY <1>1, Invariance, PTL

-----------------------------------------------------------------------------
(* Retirement.  Why a stay has one row per process: rows are written only  *)
(* while the connection works; until it breaks, every row of this process  *)
(* is acknowledged; and an acknowledged row's player is erased before      *)
(* anything else happens.  So the player whose row is written has none.    *)

\* Row k was written by the present process.
Ours(k) == k \in DOMAIN retired /\ retired[k].run = run

RetiredInv ==
    /\ \A k \in DOMAIN retired : retired[k].run <= run /\ retired[k].token \in DOMAIN owner
    /\ \A k : Ours(k) /\ ~retired[k].acked => conn = "broken" \/ pc = "down"
    /\ pc = "erase" => \A k : Ours(k) /\ retired[k].acked /\ retired[k].token \in DOMAIN tokenToPlayer
                          => \A i : IsNextAfk(i) => tokens[i] = retired[k].token
    /\ RecordedIsGone
    /\ OneRecordPerRun
    /\ file.records <= Len(retired)
    /\ SaveForgetsRetired

\* A step that leaves the table, the file and the tokens alone, outside the
\* loop body of RemoveAfkPlayers.
LEMMA RetiredFrame ==
    ASSUME TypeOK, RetiredInv, UNCHANGED <<retired, file, run, tokenToPlayer, conn>>,
           DOMAIN owner \subseteq DOMAIN owner', pc # "erase", pc' # "erase", pc # "down"
    PROVE  RetiredInv'
  BY DEF RetiredInv, RecordedIsGone, OneRecordPerRun, SaveForgetsRetired, Ours

\* The row of the next idle player is the first one of this stay and process.
LEMMA RowIsNew ==
    ASSUME IInv, RetiredInv, NEW i, IsNextAfk(i), pc = "retire", conn # "broken",
           NEW acked \in BOOLEAN, retired' = Append(retired, Record(i, acked)),
           UNCHANGED <<file, run, owner, tokenToPlayer, tokens>>,
           \/ acked /\ pc' = "erase" /\ UNCHANGED afk
           \/ ~acked /\ conn' = "broken" /\ pc' = "idle"
    PROVE  RetiredInv'
  <1> DEFINE n == Len(retired) + 1
  <1>i. TypeOK /\ TokenIndex /\ TokenIdentity
    BY DEF IInv, IndexConsistent
  <1>0. /\ retired \in Seq(RetiredRec) /\ Len(retired) \in Nat
        /\ DOMAIN retired = 1 .. Len(retired)
    BY <1>i DEF TypeOK
  <1>1. /\ DOMAIN retired' = 1 .. n /\ Len(retired') = n
        /\ retired'[n] = Record(i, acked)
        /\ \A k \in DOMAIN retired : retired'[k] = retired[k]
    BY <1>0
  <1>2. i \in DOMAIN tokens /\ tokens[i] \in DOMAIN tokenToPlayer /\ tokens[i] \in DOMAIN owner
    BY <1>i DEF IsNextAfk, TypeOK, TokenIndex, TokenIdentity
  <1>3. \A k \in DOMAIN retired :
           retired[k].run = run => retired[k].acked /\ retired[k].token # tokens[i]
    BY <1>2 DEF RetiredInv, Ours, RecordedIsGone
  <1>4. Record(i, acked).run = run /\ Record(i, acked).token = tokens[i]
        /\ Record(i, acked).acked = acked
    BY DEF Record
  <1>5. run \in Nat /\ \A k \in DOMAIN retired : k # n /\ retired[k].run \in Nat
    <2>1. run \in Nat
      BY <1>i DEF TypeOK
    <2>2. \A k \in DOMAIN retired : retired[k] \in RetiredRec
      BY <1>0
    <2>3. \A k \in DOMAIN retired : k # n
      BY <1>0
    <2> QED
      BY <2>1, <2>2, <2>3 DEF RetiredRec
  <1>6. \A k \in DOMAIN retired' : retired'[k].run <= run' /\ retired'[k].token \in DOMAIN owner'
    BY <1>0, <1>1, <1>2, <1>4, <1>5 DEF RetiredInv
  <1>7. \A k : Ours(k)' /\ ~retired'[k].acked => conn' = "broken" \/ pc' = "down"
    BY <1>0, <1>1, <1>3, <1>4, <1>5 DEF Ours
  <1>8. pc' = "erase" => \A k : Ours(k)' /\ retired'[k].acked /\ retired'[k].token \in DOMAIN tokenToPlayer'
                          => \A j : IsNextAfk(j)' => tokens'[j] = retired'[k].token
    <2> SUFFICES ASSUME pc' = "erase", NEW k, Ours(k)', retired'[k].acked, retired'[k].token \in DOMAIN tokenToPlayer',
                        NEW j, IsNextAfk(j)'
                 PROVE  tokens'[j] = retired'[k].token
      OBVIOUS
    <2>0. IsNextAfk(j) /\ UNCHANGED afk
      BY DEF IsNextAfk
    <2>1. j = i
      BY <1>i, <2>0 DEF IsNextAfk, TypeOK, IsMap
    <2>2. CASE k = n
      BY <2>1, <2>2, <1>1, <1>4
    <2>3. CASE k # n
      <3>1. k \in DOMAIN retired /\ retired'[k] = retired[k]
        BY <2>3, <1>0, <1>1 DEF Ours
      <3>2. retired[k].token \notin DOMAIN tokenToPlayer
        BY <3>1 DEF Ours, RetiredInv, RecordedIsGone
      <3> QED
        BY <3>1, <3>2
    <2> QED
      BY <2>2, <2>3
  <1>9. RecordedIsGone'
    <2> SUFFICES ASSUME NEW k \in DOMAIN retired', retired'[k].acked, retired'[k].run = run',
                        pc' # "erase"
                 PROVE  retired'[k].token \notin DOMAIN tokenToPlayer'
      BY DEF RecordedIsGone
    <2>1. k # n /\ k \in DOMAIN retired
      BY <1>0, <1>1, <1>4
    <2> QED
      BY <2>1, <1>1 DEF RetiredInv, RecordedIsGone
  <1>10. OneRecordPerRun'
    <2> SUFFICES ASSUME NEW j \in DOMAIN retired', NEW k \in DOMAIN retired',
                        retired'[j].token = retired'[k].token, retired'[j].run = retired'[k].run
                 PROVE  j = k
      BY DEF OneRecordPerRun
    <2>1. CASE j \in DOMAIN retired /\ k \in DOMAIN retired
      BY <2>1, <1>1 DEF RetiredInv, OneRecordPerRun
    <2>2. CASE j = n /\ k \in DOMAIN retired
      BY <2>2, <1>1, <1>3, <1>4
    <2>3. CASE k = n /\ j \in DOMAIN retired
      BY <2>3, <1>1, <1>3, <1>4
    <2> QED
      BY <2>1, <2>2, <2>3, <1>0, <1>1
  <1>11. file'.records <= Len(retired')
    BY <1>i, <1>0, <1>1 DEF RetiredInv, TypeOK, IsSavedGame
  <1>12. SaveForgetsRetired'
    <2> SUFFICES ASSUME NEW k \in DOMAIN retired', k <= file'.records, retired'[k].acked,
                        retired'[k].run = file'.run
                 PROVE  \A j \in DOMAIN file'.tokens : file'.tokens[j] # retired'[k].token
      BY DEF SaveForgetsRetired
    <2>1. file.records \in Nat /\ file.records <= Len(retired)
      BY <1>i DEF RetiredInv, TypeOK, IsSavedGame
    <2>2. k \in DOMAIN retired
      BY <2>1, <1>0, <1>1
    <2> QED
      BY <2>2, <1>1 DEF RetiredInv, SaveForgetsRetired
  <1> QED
    BY <1>6, <1>7, <1>8, <1>9, <1>10, <1>11, <1>12 DEF RetiredInv

\* A save made between handlers has none of this process's retired players.
LEMMA RetiredSnapshot ==
    ASSUME IInv, RetiredInv, pc \in {"idle", "save"}, file' = Snapshot,
           UNCHANGED <<retired, run>>
    PROVE  SaveForgetsRetired' /\ file'.records <= Len(retired')
  <1>1. TypeOK /\ TokenIndex
    BY DEF IInv, IndexConsistent
  <1>2. file'.tokens = tokens /\ file'.run = run /\ file'.records = Len(retired)
    BY DEF Snapshot
  <1>3. \A i \in DOMAIN tokens : tokens[i] \in DOMAIN tokenToPlayer
    BY <1>1 DEF TokenIndex
  <1>4. \A k \in DOMAIN retired : retired[k].acked /\ retired[k].run = run
            => retired[k].token \notin DOMAIN tokenToPlayer
    BY DEF RetiredInv, RecordedIsGone
  <1>5. Len(retired) \in Nat
    BY <1>1 DEF TypeOK
  <1> QED
    BY <1>2, <1>3, <1>4, <1>5 DEF SaveForgetsRetired

\* The loop body ends with the retired player's token unknown.
LEMMA RetiredRemove ==
    ASSUME IInv, RetiredInv, NEW i, RemovePlayer(i)
    PROVE  RetiredInv'
  <1>1. /\ tokenToPlayer' = Erase(tokenToPlayer, tokens[i])
        /\ pc = "erase" /\ pc' = "retire" /\ IsNextAfk(i)
        /\ UNCHANGED <<conn, file, retired, run, owner>>
    BY DEF RemovePlayer, disk
  <1>2. DOMAIN tokenToPlayer' = DOMAIN tokenToPlayer \ {tokens[i]}
    BY <1>1, EraseProp
  <1>3. RecordedIsGone'
    <2> SUFFICES ASSUME NEW k \in DOMAIN retired, retired[k].acked, retired[k].run = run
                 PROVE  retired[k].token \notin DOMAIN tokenToPlayer'
      BY <1>1 DEF RecordedIsGone
    <2>1. retired[k].token \in DOMAIN tokenToPlayer => tokens[i] = retired[k].token
      BY <1>1 DEF RetiredInv, Ours
    <2> QED
      BY <2>1, <1>2
  <1> QED
    BY <1>1, <1>3 DEF RetiredInv, OneRecordPerRun, SaveForgetsRetired, Ours

\* Every step keeps RetiredInv.
LEMMA NextRetired == IInv /\ RetiredInv /\ [Next]_vars => RetiredInv'
  <1> SUFFICES ASSUME IInv, RetiredInv, [Next]_vars PROVE RetiredInv'
    OBVIOUS
  <1>i. TypeOK /\ TokenIdentity
    BY DEF IInv
  <1>0. CASE UNCHANGED vars
    BY <1>0 DEF RetiredInv, RecordedIsGone, OneRecordPerRun, SaveForgetsRetired, Ours, IsNextAfk,
                vars, index, world, tick, disk
  <1>1. CASE \E name \in Names, map \in Maps : JoinGame(name, map)
    <2>1. PICK name \in Names, map \in Maps : JoinGame(name, map)
      BY <1>1
    <2>2. CASE Rejoin(name)
      BY <2>2, <1>0 DEF Rejoin
    <2>3. CASE pc = "idle" /\ \E token \in Tokens : Join(name, map, token)
      <3>1. PICK token \in Tokens : Join(name, map, token)
        BY <2>3
      <3>2. /\ UNCHANGED <<pc, conn, file, retired, run>> /\ pc = "idle"
            /\ token \notin DOMAIN owner /\ owner' = Assign(owner, token, name)
        BY <2>3, <3>1 DEF Join, disk
      <3>3. DOMAIN tokenToPlayer' \subseteq DOMAIN tokenToPlayer \cup {token}
        BY <3>1 DEF Join, Emplace, Assign
      <3>4. DOMAIN owner' = DOMAIN owner \cup {token}
        BY <3>2 DEF Assign
      <3>5. \A k \in DOMAIN retired : retired[k].token # token
        BY <3>2 DEF RetiredInv
      <3>6. RecordedIsGone'
        BY <3>2, <3>3, <3>5 DEF RetiredInv, RecordedIsGone
      <3> QED
        BY <3>2, <3>4, <3>6 DEF RetiredInv, OneRecordPerRun, SaveForgetsRetired, Ours
    <2> QED
      BY <2>1, <2>2, <2>3 DEF JoinGame
  <1>2. CASE \E token \in Tokens, go \in BOOLEAN : MovePlayer(token, go)
    BY <1>2, <1>i, RetiredFrame DEF MovePlayer, index, disk
  <1>3. CASE StartTick
    BY <1>3, <1>i, RetiredFrame DEF StartTick, Tick, index, disk
  <1>4. CASE \E i \in DOMAIN players : SaveRetiredPlayer(i)
    <2>1. PICK i \in DOMAIN players : SaveRetiredPlayer(i)
      BY <1>4
    <2>2. /\ IsNextAfk(i) /\ pc = "retire" /\ conn # "broken" /\ pc' = "erase"
          /\ retired' = Append(retired, Record(i, TRUE))
          /\ UNCHANGED <<file, run, owner, tokenToPlayer, tokens, afk>>
      BY <2>1 DEF SaveRetiredPlayer, index, tick
    <2> QED
      BY <2>2, RowIsNew
  <1>5. CASE \E i \in DOMAIN players : SaveRetiredThrows(i)
    <2>1. PICK i \in DOMAIN players : SaveRetiredThrows(i)
      BY <1>5
    <2>2. CASE UNCHANGED retired
      <3>1. /\ UNCHANGED <<retired, file, run, tokenToPlayer, owner>>
            /\ pc = "retire" /\ pc' = "idle" /\ (conn = "broken" => conn' = "broken")
        BY <2>1, <2>2 DEF SaveRetiredThrows, InDoubt, LeaveTick, index
      <3> QED
        BY <3>1 DEF RetiredInv, RecordedIsGone, OneRecordPerRun, SaveForgetsRetired, Ours
    <2>3. CASE conn' = "broken" /\ conn # "broken" /\ retired' = Append(retired, Record(i, FALSE))
      <3>1. /\ IsNextAfk(i) /\ pc = "retire" /\ pc' = "idle"
            /\ UNCHANGED <<file, run, owner, tokenToPlayer, tokens>>
        BY <2>1 DEF SaveRetiredThrows, InDoubt, LeaveTick, index
      <3> QED
        BY <2>3, <3>1, RowIsNew
    <2> QED
      BY <2>1, <2>2, <2>3 DEF SaveRetiredThrows, InDoubt, LeaveTick
  <1>6. CASE \E i \in DOMAIN players : RemovePlayer(i)
    BY <1>6, RetiredRemove
  <1>7. CASE SaveGameState
    BY <1>7, <1>i, RetiredFrame DEF SaveGameState, index, disk
  <1>8. CASE SaveGame
    <2>1. /\ pc = "save" /\ pc' = "idle" /\ file' = Snapshot
          /\ UNCHANGED <<retired, run, tokenToPlayer, conn, owner>>
      BY <1>8 DEF SaveGame, index
    <2>2. SaveForgetsRetired' /\ file'.records <= Len(retired')
      BY <2>1, RetiredSnapshot
    <2> QED
      BY <2>1, <2>2 DEF RetiredInv, RecordedIsGone, OneRecordPerRun, Ours
  <1>s. CASE SaveGameThrows
    BY <1>s, <1>i, RetiredFrame DEF SaveGameThrows, LeaveTick, index, disk
  <1>9. CASE ServerDies \/ Shutdown
    <2>1. /\ pc' = "down" /\ DOMAIN tokenToPlayer' = {}
          /\ UNCHANGED <<retired, run, owner>>
      BY <1>9 DEF ServerDies, Shutdown, Stopped, Nothing
    <2>2. SaveForgetsRetired' /\ file'.records <= Len(retired')
      <3>1. CASE ServerDies
        BY <3>1, <2>1 DEF ServerDies, RetiredInv, SaveForgetsRetired
      <3>2. CASE Shutdown
        BY <3>2, <2>1, RetiredSnapshot DEF Shutdown
      <3> QED
        BY <1>9, <3>1, <3>2
    <2> QED
      BY <2>1, <2>2 DEF RetiredInv, RecordedIsGone, OneRecordPerRun, Ours
  <1>10. CASE Restart
    <2>1. /\ run' = run + 1 /\ pc' = "idle" /\ UNCHANGED <<retired, file, owner>>
      BY <1>10 DEF Restart, disk
    <2>2. run \in Nat /\ \A k \in DOMAIN retired : retired[k].run \in Nat
      <3>1. run \in Nat /\ retired \in Seq(RetiredRec)
        BY <1>i DEF TypeOK
      <3>2. \A k \in DOMAIN retired : retired[k] \in RetiredRec
        BY <3>1
      <3> QED
        BY <3>1, <3>2 DEF RetiredRec
    <2>3. \A k \in DOMAIN retired : retired[k].run < run'
      BY <2>1, <2>2 DEF RetiredInv
    <2> QED
      BY <2>1, <2>2, <2>3 DEF RetiredInv, RecordedIsGone, OneRecordPerRun, SaveForgetsRetired, Ours
  <1> QED
    BY <1>0, <1>1, <1>2, <1>3, <1>4, <1>5, <1>6, <1>7, <1>8, <1>s, <1>9, <1>10 DEF Next, Request, RunTick

\* RetiredInv is an invariant of the server.
THEOREM RetirementInvariance == Spec => []RetiredInv
  <1>1. Init => RetiredInv
    BY DEF Init, RetiredInv, RecordedIsGone, OneRecordPerRun, SaveForgetsRetired, Ours,
           EmptyGame, Nothing
  <1>2. IInv /\ RetiredInv /\ [Next]_vars => RetiredInv'
    BY NextRetired
  <1> QED
    BY <1>1, <1>2, Invariance, PTL DEF Spec

\* One process writes at most one row for a stay.
THEOREM RowsAreUnique == Spec => []OneRecordPerRun
  <1>1. RetiredInv => OneRecordPerRun
    BY DEF RetiredInv
  <1> QED
    BY <1>1, RetirementInvariance, PTL

\* A player whose row is committed is gone when the next handler runs.
THEOREM RecordedPlayersAreGone == Spec => []RecordedIsGone
  <1>1. RetiredInv => RecordedIsGone
    BY DEF RetiredInv
  <1> QED
    BY <1>1, RetirementInvariance, PTL

\* A completed save brings back nobody its process had retired before.
THEOREM SavesForgetRetired == Spec => []SaveForgetsRetired
  <1>1. RetiredInv => SaveForgetsRetired
    BY DEF RetiredInv
  <1> QED
    BY <1>1, RetirementInvariance, PTL

-----------------------------------------------------------------------------
(* The loop over afk_players and the countdown.  Whoever was collected     *)
(* stands idle until the row is written, and has a row until the erasing;  *)
(* while the database answers, every tick is counted down, and the count   *)
(* stays at 0 only after a save that threw.                                *)

Countdown ==
    conn = "ok" =>
        /\ pc \in {"idle", "down"} => unsaved + countdown = SavePeriod
        /\ pc \in {"retire", "erase"} =>
              \/ countdown <= delta /\ unsaved = SavePeriod
              \/ unsaved + countdown = SavePeriod + delta
        /\ pc = "save" => unsaved + countdown = SavePeriod
        /\ pc # "save" /\ countdown = 0 => saveThrew

IdleStand == \A d \in DOMAIN dogs : dogs[d].moving => dogs[d].afk = 0

StandsIdle(i) == ~dogs[players[i].dog].moving /\ IsAfk(dogs[players[i].dog])

HasRow(i) ==
    \E k \in DOMAIN retired :
        retired[k].token = tokens[i] /\ retired[k].run = run /\ retired[k].acked

LoopInv ==
    /\ Countdown
    /\ IdleStand
    /\ pc \in {"retire", "erase"} => \A i \in afk : StandsIdle(i)
    /\ pc = "erase" => \A i : IsNextAfk(i) => HasRow(i)
    /\ pc = "down" => DOMAIN players = {}

\* The row appended is the last one.
LEMMA AppendProp ==
    ASSUME NEW S, NEW s \in Seq(S), NEW x
    PROVE  Len(s) + 1 \in DOMAIN Append(s, x) /\ Append(s, x)[Len(s) + 1] = x
  <1>1. Len(s) \in Nat /\ DOMAIN Append(s, x) = 1 .. Len(s) + 1
    OBVIOUS
  <1>2. Append(s, x)[Len(s) + 1] = x
    OBVIOUS
  <1> QED
    BY <1>1, <1>2

LEMMA InitLoop == Init => LoopInv
  BY DEF Init, LoopInv, Countdown, IdleStand, Nothing

\* Requests run between ticks.
LEMMA RequestLoop ==
    ASSUME IInv, LoopInv, Request
    PROVE  LoopInv'
  <1>i. TypeOK
    BY DEF IInv
  <1>1. CASE UNCHANGED vars
    BY <1>1 DEF LoopInv, Countdown, IdleStand, StandsIdle, IsAfk, IsNextAfk, HasRow,
                vars, index, world, tick, disk
  <1>2. CASE \E name \in Names, map \in Maps, token \in Tokens : pc = "idle" /\ Join(name, map, token)
    <2>1. /\ pc = "idle" /\ UNCHANGED <<pc, tick, conn, unsaved, saveThrew>>
          /\ dogs' = Assign(dogs, nextDog, [moving |-> FALSE, afk |-> 0])
      BY <1>2 DEF Join
    <2>2. IdleStand'
      BY <2>1 DEF LoopInv, IdleStand, Assign
    <2> QED
      BY <2>1, <2>2 DEF LoopInv, Countdown, tick
  <1>3. CASE \E token \in Tokens, go \in BOOLEAN : MovePlayer(token, go)
    <2>1. PICK token \in Tokens, go \in BOOLEAN : MovePlayer(token, go)
      BY <1>3
    <2>2. /\ pc = "idle" /\ UNCHANGED <<pc, tick, conn, unsaved, saveThrew>>
          /\ dogs' = [dogs EXCEPT ![players[tokenToPlayer[token]].dog] = [moving |-> go, afk |-> 0]]
      BY <2>1 DEF MovePlayer
    <2>3. IdleStand'
      BY <2>2 DEF LoopInv, IdleStand
    <2> QED
      BY <2>2, <2>3 DEF LoopInv, Countdown, tick
  <1> QED
    BY <1>1, <1>2, <1>3 DEF Request, JoinGame, Rejoin

\* Whoever is collected has collected idle time, so the dog stands.
LEMMA TickLoop ==
    ASSUME IInv, LoopInv, NEW dt \in Deltas, Tick(dt)
    PROVE  LoopInv'
  <1>i. /\ unsaved \in 0 .. SavePeriod /\ countdown \in 0 .. SavePeriod /\ dt \in Nat
        /\ SavePeriod \in Nat /\ MaxInactive \in Nat \ {0}
        /\ IsMap(dogs, Nat, DogRec)
        /\ \A i \in DOMAIN players : players[i].dog \in DOMAIN dogs
    BY DEF IInv, TypeOK, IndexConsistent, DogIndex
  <1>1. PICK halted \in SUBSET {d \in DOMAIN dogs : dogs[d].moving} :
          dogs' = [d \in DOMAIN dogs |->
                      IF d \in OnSomeMap THEN Advanced(dogs[d], dt, d \in halted)
                                         ELSE dogs[d]]
    BY DEF Tick
  <1>2. /\ pc = "idle" /\ pc' = "retire" /\ delta' = dt
        /\ UNCHANGED <<countdown, conn, players, saveThrew>>
        /\ afk' = {i \in DOMAIN players : IsAfk(dogs'[players[i].dog])}
        /\ unsaved' = IF unsaved + dt > SavePeriod THEN SavePeriod ELSE unsaved + dt
    BY DEF Tick, index
  <1>3. Countdown'
    BY <1>i, <1>2 DEF LoopInv, Countdown
  <1>4. IdleStand'
    <2> SUFFICES ASSUME NEW d \in DOMAIN dogs, dogs'[d].moving PROVE dogs'[d].afk = 0
      BY <1>1 DEF IdleStand
    <2>1. CASE d \in OnSomeMap
      BY <1>1, <2>1 DEF Advanced
    <2>2. CASE d \notin OnSomeMap
      BY <1>1, <2>2 DEF LoopInv, IdleStand
    <2> QED
      BY <2>1, <2>2
  <1>5. \A i \in afk' : StandsIdle(i)'
    <2> SUFFICES ASSUME NEW i \in afk' PROVE StandsIdle(i)'
      OBVIOUS
    <2>1. i \in DOMAIN players /\ IsAfk(dogs'[players[i].dog])
      BY <1>2
    <2>2. players[i].dog \in DOMAIN dogs'
      BY <1>i, <1>1, <2>1
    <2>3. ~dogs'[players[i].dog].moving
      BY <1>i, <1>4, <2>1, <2>2 DEF IdleStand, IsAfk
    <2> QED
      BY <1>2, <2>1, <2>3 DEF StandsIdle, IsAfk
  <1> QED
    BY <1>2, <1>3, <1>4, <1>5 DEF LoopInv

\* The loop body: the row is there before the player goes.
LEMMA RetireLoop ==
    ASSUME IInv, LoopInv, NEW i \in DOMAIN players,
           SaveRetiredPlayer(i) \/ SaveRetiredThrows(i) \/ RemovePlayer(i)
    PROVE  LoopInv'
  <1>i. /\ TypeOK /\ DogIndex /\ afk \subseteq DOMAIN players
    BY DEF IInv, TypeOK, IndexConsistent
  <1>1. CASE SaveRetiredPlayer(i)
    <2>1. /\ pc = "retire" /\ pc' = "erase" /\ IsNextAfk(i)
          /\ retired' = Append(retired, Record(i, TRUE))
          /\ UNCHANGED <<index, world, tick, conn, run, unsaved, saveThrew>>
      BY <1>1 DEF SaveRetiredPlayer
    <2>2. UNCHANGED <<players, tokens, dogs, afk, delta, countdown>>
      BY <2>1 DEF index, world, tick
    <2>3. HasRow(i)'
      <3>1. retired \in Seq(RetiredRec)
        BY <1>i DEF TypeOK
      <3>2. Len(retired) + 1 \in DOMAIN retired' /\ retired'[Len(retired) + 1] = Record(i, TRUE)
        BY <2>1, <3>1, AppendProp
      <3> QED
        BY <2>1, <2>2, <3>2 DEF HasRow, Record
    <2>4. \A j : IsNextAfk(j)' => j = i
      BY <1>i, <2>1, <2>2 DEF IsNextAfk, TypeOK, IsMap
    <2> QED
      BY <2>1, <2>2, <2>3, <2>4 DEF LoopInv, Countdown, IdleStand, StandsIdle, IsAfk
  <1>2. CASE SaveRetiredThrows(i)
    <2>1. /\ pc' = "idle" /\ conn' # "ok" /\ UNCHANGED dogs
      BY <1>2 DEF SaveRetiredThrows, LeaveTick, InDoubt, world
    <2> QED
      BY <2>1 DEF LoopInv, Countdown, IdleStand
  <1>3. CASE RemovePlayer(i)
    <2>1. /\ pc = "erase" /\ pc' = "retire" /\ afk' = afk \ {i}
          /\ dogs' = Erase(dogs, players[i].dog) /\ players' = Erase(players, i)
          /\ UNCHANGED <<delta, countdown, conn, unsaved, saveThrew>>
      BY <1>3 DEF RemovePlayer
    <2>2. /\ \A d \in DOMAIN dogs' : d \in DOMAIN dogs /\ dogs'[d] = dogs[d]
          /\ \A d \in DOMAIN dogs \ {players[i].dog} : dogs'[d] = dogs[d]
          /\ \A j \in DOMAIN players \ {i} : players'[j] = players[j]
      BY <2>1 DEF Erase, Restrict
    <2>3. ASSUME NEW j \in afk' PROVE StandsIdle(j)'
      <3>1. j \in DOMAIN players /\ j # i /\ j \in afk
        BY <1>i, <2>1
      <3>2. players[j].dog \in DOMAIN dogs /\ players[j].dog # players[i].dog
        BY <1>i, <3>1 DEF DogIndex
      <3>3. players'[j] = players[j] /\ dogs'[players[j].dog] = dogs[players[j].dog]
        BY <2>2, <3>1, <3>2
      <3> QED
        BY <2>1, <3>1, <3>3 DEF LoopInv, StandsIdle, IsAfk
    <2> QED
      BY <2>1, <2>2, <2>3 DEF LoopInv, Countdown, IdleStand
  <1> QED
    BY <1>1, <1>2, <1>3

LEMMA SaveLoop ==
    ASSUME IInv, LoopInv, SaveGameState \/ SaveGame \/ SaveGameThrows
    PROVE  LoopInv'
  <1>i. /\ unsaved \in 0 .. SavePeriod /\ countdown \in 0 .. SavePeriod /\ delta \in Nat
        /\ SavePeriod \in Nat \ {0}
    BY DEF IInv, TypeOK
  <1>1. CASE SaveGameState
    BY <1>1, <1>i DEF SaveGameState, SaveIsDue, LoopInv, Countdown, IdleStand, world
  <1>2. CASE SaveGame
    BY <1>2, <1>i DEF SaveGame, LoopInv, Countdown, IdleStand, world
  <1>3. CASE SaveGameThrows
    BY <1>3, <1>i DEF SaveGameThrows, LeaveTick, LoopInv, Countdown, IdleStand, world
  <1> QED
    BY <1>1, <1>2, <1>3

LEMMA ProcessLoop ==
    ASSUME IInv, LoopInv, ServerDies \/ Shutdown \/ Restart
    PROVE  LoopInv'
  <1>1. CASE ServerDies \/ Shutdown
    <2>1. /\ pc' = "down" /\ players' = Nothing /\ dogs' = Nothing
          /\ countdown' = SavePeriod /\ unsaved' = 0
      BY <1>1 DEF ServerDies, Shutdown, Stopped
    <2> QED
      BY <2>1 DEF LoopInv, Countdown, IdleStand, Nothing
  <1>2. CASE Restart
    <2>1. pc = "down" /\ pc' = "idle" /\ UNCHANGED <<tick, conn, unsaved, saveThrew>>
      BY <1>2 DEF Restart
    <2>2. \A d \in DOMAIN dogs' : dogs'[d].afk = 0
      BY <1>2 DEF Restart, RestoreGame
    <2> QED
      BY <2>1, <2>2 DEF LoopInv, Countdown, IdleStand, tick
  <1> QED
    BY <1>1, <1>2

LEMMA NextLoop == IInv /\ LoopInv /\ [Next]_vars => LoopInv'
  <1> SUFFICES ASSUME IInv, LoopInv, [Next]_vars PROVE LoopInv'
    OBVIOUS
  <1>1. CASE UNCHANGED vars
    BY <1>1 DEF LoopInv, Countdown, IdleStand, StandsIdle, IsAfk, IsNextAfk, HasRow,
                vars, index, world, tick, disk
  <1>2. CASE Next
    BY <1>2, RequestLoop, TickLoop, RetireLoop, SaveLoop, ProcessLoop DEF Next, StartTick, RunTick
  <1> QED
    BY <1>1, <1>2

\* LoopInv is an invariant of the server.
THEOREM LoopInvariance == Spec => []LoopInv
  BY InitLoop, NextLoop, Invariance, PTL DEF Spec

\* While the database answers and the last save has not thrown, a crash costs
\* less than a save period, for every period and all tick lengths.  A save that
\* is tried again after one that threw ends the exception.
THEOREM LossIsBounded == Spec => []BoundedLoss
  <1>1. IInv /\ LoopInv => BoundedLoss
    BY DEF IInv, TypeOK, LoopInv, Countdown, BoundedLoss
  <1> QED
    BY <1>1, Invariance, LoopInvariance, PTL

\* A row is only written for a player whose dog stands idle at that moment.
THEOREM OnlyIdleAreRetired == Spec => OnlyIdleRetire
  <1>1. IInv /\ LoopInv /\ [Next]_vars => [RecordedWasIdle]_vars
    <2> SUFFICES ASSUME IInv, LoopInv, Next,
                        NEW k \in DOMAIN retired' \ DOMAIN retired
                 PROVE  LET dog == dogs[players[tokenToPlayer[retired'[k].token]].dog]
                        IN  ~dog.moving /\ IsAfk(dog)
      BY DEF RecordedWasIdle
    <2>1. PICK i \in DOMAIN players, acked \in BOOLEAN :
             /\ pc = "retire" /\ IsNextAfk(i)
             /\ retired' = Append(retired, Record(i, acked))
      <3>1. CASE \E i \in DOMAIN players : SaveRetiredPlayer(i) \/ SaveRetiredThrows(i)
        BY <3>1 DEF SaveRetiredPlayer, SaveRetiredThrows, InDoubt
      <3>2. CASE ~\E i \in DOMAIN players : SaveRetiredPlayer(i) \/ SaveRetiredThrows(i)
        <4>1. retired' = retired
          BY <3>2 DEF Next, Request, JoinGame, Rejoin, Join, MovePlayer, StartTick, Tick, RunTick,
                      RemovePlayer, SaveGameState, SaveGame, SaveGameThrows, ServerDies, Shutdown, Stopped, Restart,
                      vars, disk
        <4> QED
          BY <4>1
      <3> QED
        BY <3>1, <3>2
    <2>2. retired \in Seq(RetiredRec)
      BY DEF IInv, TypeOK
    <2>3. retired'[k].token = tokens[i]
      BY <2>1, <2>2 DEF Record
    <2>4. i \in afk /\ i \in DOMAIN tokens /\ tokenToPlayer[tokens[i]] = i
      BY <2>1 DEF IsNextAfk, IInv, IndexConsistent, TokenIndex
    <2> QED
      BY <2>1, <2>3, <2>4 DEF LoopInv, StandsIdle
  <1> QED
    BY <1>1, Invariance, LoopInvariance, PTL DEF Spec, OnlyIdleRetire

\* Nobody leaves a running server without a row of this process.
THEOREM LeaversAreRecorded == Spec => NobodyVanishes
  <1>1. IInv /\ LoopInv /\ [Next]_vars => [LeaverIsRecorded]_vars
    <2> SUFFICES ASSUME IInv, LoopInv, Next,
                        NEW i \in DOMAIN players, i \notin DOMAIN players', pc' # "down"
                 PROVE  HasRow(i)
      BY DEF LeaverIsRecorded, HasRow
    <2>1. CASE \E j \in DOMAIN players : RemovePlayer(j)
      <3>1. PICK j \in DOMAIN players : RemovePlayer(j)
        BY <2>1
      <3>2. pc = "erase" /\ IsNextAfk(j) /\ players' = Erase(players, j)
        BY <3>1 DEF RemovePlayer
      <3>3. i = j
        BY <3>2 DEF Erase, Restrict
      <3> QED
        BY <3>2, <3>3 DEF LoopInv
    <2>2. CASE ~\E j \in DOMAIN players : RemovePlayer(j)
      <3>1. CASE Restart
        BY <3>1 DEF Restart, LoopInv
      <3>2. CASE ServerDies \/ Shutdown
        BY <3>2 DEF ServerDies, Shutdown, Stopped
      <3>3. CASE Request \/ StartTick \/ RunTick
        <4>1. DOMAIN players \subseteq DOMAIN players'
          BY <2>2, <3>3 DEF Request, JoinGame, Rejoin, Join, Assign, MovePlayer, StartTick, Tick, RunTick,
                            SaveRetiredPlayer, SaveRetiredThrows, SaveGameState, SaveGame, SaveGameThrows,
                            vars, index
        <4> QED
          BY <4>1
      <3> QED
        BY <3>1, <3>2, <3>3 DEF Next
    <2> QED
      BY <2>1, <2>2
  <1> QED
    BY <1>1, Invariance, LoopInvariance, PTL DEF Spec, NobodyVanishes
-----------------------------------------------------------------------------
(* The promptness of retirement: idle players do not outstay the tick in   *)
(* which they reach the limit.                                             *)

Idles(i) == IsAfk(dogs[players[i].dog])

\* Nobody a request can meet has been idle for as long as the limit.
NobodyOverstays ==
    pc = "idle" /\ conn = "ok" => \A i \in DOMAIN players : ~Idles(i)

\* The loop over afk_players has all who idle before it.
PromptInv ==
    conn = "ok" =>
        /\ pc \in {"idle", "save"} => \A i \in DOMAIN players : ~Idles(i)
        /\ pc \in {"retire", "erase"} => \A i \in DOMAIN players \ afk : ~Idles(i)

LEMMA RequestPrompt ==
    ASSUME IInv, PromptInv, Request
    PROVE  PromptInv'
  <1>i. /\ MaxInactive \in Nat \ {0}
        /\ \A i \in DOMAIN players : i < nextPlayer /\ players[i].dog < nextDog
        /\ \A i \in DOMAIN players : i \in Nat /\ players[i].dog \in Nat
        /\ \A i \in DOMAIN players : players[i].dog \in DOMAIN dogs
        /\ nextPlayer \in Nat /\ nextDog \in Nat
    BY DEF IInv, TypeOK, IsMap, PlayerRec, IndexConsistent, FreshIds, DogIndex
  <1>1. CASE UNCHANGED vars
    BY <1>1 DEF PromptInv, Idles, IsAfk, vars, index, world, tick
  <1>2. CASE \E name \in Names, map \in Maps, token \in Tokens : pc = "idle" /\ Join(name, map, token)
    <2>1. PICK name \in Names, map \in Maps, token \in Tokens : pc = "idle" /\ Join(name, map, token)
      BY <1>2
    <2>2. /\ pc = "idle" /\ UNCHANGED <<pc, conn>>
          /\ dogs' = Assign(dogs, nextDog, [moving |-> FALSE, afk |-> 0])
          /\ players' = Assign(players, nextPlayer, [name |-> name, map |-> map, dog |-> nextDog])
      BY <2>1 DEF Join
    <2>3. ASSUME conn = "ok", NEW i \in DOMAIN players' PROVE ~Idles(i)'
      <3>1. CASE i = nextPlayer
        <4>1. players'[i].dog = nextDog /\ dogs'[nextDog].afk = 0
          BY <2>2, <3>1 DEF Assign
        <4> QED
          BY <1>i, <4>1 DEF Idles, IsAfk
      <3>2. CASE i # nextPlayer
        <4>1. i \in DOMAIN players /\ players'[i] = players[i]
          BY <2>2, <2>3, <3>2 DEF Assign
        <4>2. dogs'[players[i].dog] = dogs[players[i].dog]
          BY <1>i, <2>2, <4>1 DEF Assign
        <4> QED
          BY <2>2, <2>3, <4>1, <4>2 DEF PromptInv, Idles, IsAfk
      <3> QED
        BY <3>1, <3>2
    <2> QED
      BY <2>2, <2>3 DEF PromptInv
  <1>3. CASE \E token \in Tokens, go \in BOOLEAN : MovePlayer(token, go)
    <2>1. PICK token \in Tokens, go \in BOOLEAN : MovePlayer(token, go)
      BY <1>3
    <2>2. /\ pc = "idle" /\ UNCHANGED <<pc, conn, players>>
          /\ dogs' = [dogs EXCEPT ![players[tokenToPlayer[token]].dog] = [moving |-> go, afk |-> 0]]
      BY <2>1 DEF MovePlayer, index
    <2>3. \A d \in DOMAIN dogs : dogs'[d] = dogs[d] \/ dogs'[d].afk = 0
      BY <2>2
    <2>4. ASSUME conn = "ok", NEW i \in DOMAIN players PROVE ~Idles(i)'
      BY <1>i, <2>2, <2>3, <2>4 DEF PromptInv, Idles, IsAfk
    <2> QED
      BY <2>2, <2>4 DEF PromptInv
  <1> QED
    BY <1>1, <1>2, <1>3 DEF Request, JoinGame, Rejoin

\* One player less to retire, and none more who idles.
LEMMA RemovePrompt ==
    ASSUME IInv, PromptInv, NEW i \in DOMAIN players, RemovePlayer(i)
    PROVE  PromptInv'
  <1>1. /\ pc = "erase" /\ pc' = "retire" /\ afk' = afk \ {i} /\ conn' = conn
        /\ dogs' = Erase(dogs, players[i].dog) /\ players' = Erase(players, i)
    BY DEF RemovePlayer
  <1>2. ASSUME conn = "ok", NEW j \in DOMAIN players' \ afk' PROVE ~Idles(j)'
    <2>1. j \in DOMAIN players \ {i} /\ players'[j] = players[j]
      BY <1>1 DEF Erase, Restrict
    <2>2. players[j].dog \in DOMAIN dogs /\ players[j].dog # players[i].dog
      BY <2>1 DEF IInv, IndexConsistent, DogIndex
    <2>3. dogs'[players[j].dog] = dogs[players[j].dog]
      BY <1>1, <2>2 DEF Erase, Restrict
    <2>4. j \notin afk
      BY <1>1, <1>2, <2>1
    <2> QED
      BY <1>1, <1>2, <2>1, <2>3, <2>4 DEF PromptInv, Idles, IsAfk
  <1> QED
    BY <1>1, <1>2 DEF PromptInv

LEMMA NextPrompt == IInv /\ LoopInv /\ PromptInv /\ [Next]_vars => PromptInv'
  <1> SUFFICES ASSUME IInv, LoopInv, PromptInv, [Next]_vars PROVE PromptInv'
    OBVIOUS
  <1>1. CASE UNCHANGED vars
    BY <1>1 DEF PromptInv, Idles, IsAfk, vars, index, world, tick
  <1>2. ASSUME NEW dt \in Deltas, Tick(dt) PROVE PromptInv'
    <2>1. /\ pc' = "retire" /\ players' = players
          /\ afk' = {i \in DOMAIN players : IsAfk(dogs'[players[i].dog])}
      BY <1>2 DEF Tick, index
    <2> QED
      BY <2>1 DEF PromptInv, Idles, IsAfk
  <1>3. ASSUME NEW i \in DOMAIN players, SaveRetiredPlayer(i) PROVE PromptInv'
    <2>1. pc = "retire" /\ pc' = "erase" /\ UNCHANGED <<players, dogs, afk, conn>>
      BY <1>3 DEF SaveRetiredPlayer, index, world, tick
    <2> QED
      BY <2>1 DEF PromptInv, Idles, IsAfk
  <1>4. ASSUME NEW i \in DOMAIN players, SaveRetiredThrows(i) PROVE PromptInv'
    <2>1. conn' # "ok"
      BY <1>4 DEF SaveRetiredThrows, InDoubt
    <2> QED
      BY <2>1 DEF PromptInv
  <1>5. CASE SaveGameState
    <2>1. /\ pc = "retire" /\ afk = {} /\ pc' \in {"idle", "save"}
          /\ UNCHANGED <<players, dogs, conn>>
      BY <1>5 DEF SaveGameState, index, world
    <2> QED
      BY <2>1 DEF PromptInv, Idles, IsAfk
  <1>6. CASE SaveGame
    <2>1. pc = "save" /\ pc' = "idle" /\ UNCHANGED <<players, dogs, conn>>
      BY <1>6 DEF SaveGame, index, world
    <2> QED
      BY <2>1 DEF PromptInv, Idles, IsAfk
  <1>s. CASE SaveGameThrows
    <2>1. pc = "save" /\ pc' = "idle" /\ UNCHANGED <<players, dogs, conn>>
      BY <1>s DEF SaveGameThrows, LeaveTick, index, world
    <2> QED
      BY <2>1 DEF PromptInv, Idles, IsAfk
  <1>7. CASE ServerDies \/ Shutdown
    <2>1. pc' = "down"
      BY <1>7 DEF ServerDies, Shutdown, Stopped
    <2> QED
      BY <2>1 DEF PromptInv
  <1>8. CASE Restart
    <2>1. pc' = "idle" /\ players' = file.players
          /\ dogs' = [d \in {file.players[i].dog : i \in DOMAIN file.players} |->
                         [moving |-> file.moving[d], afk |-> 0]]
      BY <1>8 DEF Restart, RestoreGame
    <2>2. \A i \in DOMAIN players' : dogs'[players'[i].dog].afk = 0
      BY <2>1
    <2>3. \A i \in DOMAIN players' : ~Idles(i)'
      BY <2>2 DEF Idles, IsAfk
    <2> QED
      BY <2>1, <2>3 DEF PromptInv
  <1> QED
    BY <1>1, <1>2, <1>3, <1>4, <1>5, <1>6, <1>s, <1>7, <1>8, RequestPrompt, RemovePrompt
       DEF Next, StartTick, RunTick

\* The safe half of the promise that idle players are retired: while the
\* database answers, between two handlers nobody plays who has been idle for
\* the limit, for every limit, all tick lengths and any number of players who
\* reach it in one tick.
THEOREM IdleAreGoneInTime == Spec => []NobodyOverstays
  <1>1. Init => PromptInv
    BY DEF Init, PromptInv, Nothing
  <1>2. PromptInv => NobodyOverstays
    BY DEF PromptInv, NobodyOverstays
  <1> QED
    BY <1>1, <1>2, NextPrompt, Invariance, LoopInvariance, PTL DEF Spec

-----------------------------------------------------------------------------
(* Saving and restoring.                                                   *)

\* A counter chosen over some ids is no further than one ahead of them all.
LEMMA BumpedLeast ==
    ASSUME NEW ids \in SUBSET Nat, NEW b \in Nat, \A i \in ids : i < b
    PROVE  Bumped(0, ids) <= b
  <1> DEFINE C == {0} \cup {i + 1 : i \in ids}
             Ahead(n) == n >= 0 /\ \A i \in ids : n > i
  <1>1. \E n \in C : Ahead(n)
    <2>1. Bumped(0, ids) \in Nat /\ \A i \in ids : i < Bumped(0, ids)
      BY BumpedProp
    <2> DEFINE T == {n \in Nat : \A i \in ids : i < n}
    <2>2. PICK n \in T : \A y \in T : <<y, n>> \notin OpToRel(<, Nat)
      <3>1. T \subseteq Nat /\ T # {}
        BY <2>1
      <3> QED
        BY <3>1, NatLessThanWellFounded, WFMin
    <2>3. n \in Nat /\ (\A i \in ids : i < n) /\ \A y \in T : ~(y < n)
      BY <2>2 DEF OpToRel
    <2>0. Ahead(n)
      BY <2>3
    <2>4. CASE n = 0
      BY <2>0, <2>4
    <2>5. CASE n # 0
      <3>1. n - 1 \in Nat /\ n - 1 \notin T
        BY <2>3, <2>5
      <3>2. PICK i \in ids : ~(i < n - 1)
        BY <3>1
      <3> HIDE DEF T
      <3>3. i \in Nat /\ i < n
        BY <2>3, <3>2
      <3>4. n = i + 1
        BY <2>3, <3>1, <3>2, <3>3
      <3>5. n \in C
        BY <3>2, <3>4
      <3> QED
        BY <2>0, <3>5
    <2> QED
      BY <2>4, <2>5
  <1>2. Bumped(0, ids) = CHOOSE n \in C : Ahead(n)
    BY DEF Bumped
  <1>3. Bumped(0, ids) \in C
    <2> HIDE DEF C, Ahead
    <2> QED
      BY <1>1, <1>2
  <1>4. \A n \in C : n <= b
    OBVIOUS
  <1> QED
    BY <1>3, <1>4

\* What a save writes is all a restart needs: every lookup by token, name and
\* map, every session and every direction comes back as it was; only idle
\* times start anew, empty lists of a map are gone, and the counters may be lower,
\* but never low enough to meet an id in use (IndicesAgree).
THEOREM RestoreUndoesSave ==
    ASSUME IInv, file = Snapshot, RestoreGame
    PROVE  /\ players' = players /\ tokens' = tokens
           /\ tokenToPlayer' = tokenToPlayer /\ nameToId' = nameToId
           /\ sessions' = sessions
           /\ \A m \in Maps : SetAt(mapToPlayers', m) = SetAt(mapToPlayers, m)
           /\ dogs' = [d \in DOMAIN dogs |-> [moving |-> dogs[d].moving, afk |-> 0]]
           /\ nextPlayer' <= nextPlayer /\ nextDog' <= nextDog
  <1> DEFINE ids    == DOMAIN players
             dogIds == {players[i].dog : i \in ids}
  <1>i. /\ TokenIndex /\ NameIndex /\ MapIndex /\ DogIndex /\ FreshIds
        /\ IsMap(players, Nat, PlayerRec) /\ IsMap(tokens, Nat, Tokens)
        /\ IsMap(tokenToPlayer, Tokens, Nat) /\ IsMap(nameToId, Names, Nat)
        /\ IsMap(mapToPlayers, Maps, SUBSET Nat) /\ IsMap(sessions, Maps, SUBSET Nat)
        /\ IsMap(dogs, Nat, DogRec) /\ nextPlayer \in Nat /\ nextDog \in Nat
    BY DEF IInv, IndexConsistent, TypeOK
  <1>1. /\ file.players = players /\ file.tokens = tokens
        /\ file.moving = [d \in dogIds |-> dogs[d].moving] /\ file.maps = DOMAIN sessions
    BY DEF Snapshot
  <1>2. /\ DOMAIN tokens = ids
        /\ \A i \in ids : i \in Nat /\ players[i].dog \in Nat /\ players[i].map \in Maps
        /\ dogIds = DOMAIN dogs
    BY <1>i DEF TokenIndex, IsMap, PlayerRec, DogIndex
  <1>3. players' = players /\ tokens' = tokens
    <2>1. players' = players /\ tokens' = [i \in ids |-> tokens[i]]
      BY <1>1 DEF RestoreGame
    <2>2. tokens = [i \in ids |-> tokens[i]]
      BY <1>i, <1>2 DEF IsMap
    <2> QED
      BY <2>1, <2>2
  <1>4. tokenToPlayer' = tokenToPlayer
    <2> DEFINE first(t) == CHOOSE i \in ids : /\ tokens[i] = t
                                              /\ \A j \in ids : tokens[j] = t => i <= j
    <2>1. tokenToPlayer' = [t \in {tokens[i] : i \in ids} |-> first(t)]
      BY <1>1 DEF RestoreGame
    <2>2. ASSUME NEW t \in {tokens[i] : i \in ids} PROVE first(t) = tokenToPlayer[t]
      <3>1. PICK k \in ids : tokens[k] = t
        BY <2>2
      <3>2. \A i \in ids : tokens[i] = t => i = k
        BY <1>i, <1>2, <3>1 DEF TokenIndex
      <3>3. tokenToPlayer[t] = k /\ k <= k
        BY <1>i, <1>2, <3>1 DEF TokenIndex
      <3> QED
        BY <3>1, <3>2, <3>3
    <2>3. tokenToPlayer = [t \in {tokens[i] : i \in ids} |-> tokenToPlayer[t]]
      BY <1>i, <1>2 DEF TokenIndex, IsMap
    <2> HIDE DEF first
    <2> QED
      BY <2>1, <2>2, <2>3
  <1>5. nameToId' = nameToId
    <2> DEFINE last(n) == CHOOSE i \in ids : /\ players[i].name = n
                                             /\ \A j \in ids : players[j].name = n => j <= i
    <2>1. nameToId' = [n \in {players[i].name : i \in ids} |-> last(n)]
      BY <1>1 DEF RestoreGame
    <2>2. ASSUME NEW n \in {players[i].name : i \in ids} PROVE last(n) = nameToId[n]
      <3>1. PICK k \in ids : players[k].name = n
        BY <2>2
      <3>2. \A i \in ids : players[i].name = n => i = k
        BY <1>i, <3>1 DEF NameIndex
      <3>3. nameToId[n] = k /\ k <= k
        BY <1>i, <1>2, <3>1 DEF NameIndex
      <3> QED
        BY <3>1, <3>2, <3>3
    <2>3. nameToId = [n \in {players[i].name : i \in ids} |-> nameToId[n]]
      BY <1>i DEF NameIndex, IsMap
    <2> HIDE DEF last
    <2> QED
      BY <2>1, <2>2, <2>3
  <1>6. sessions' = sessions
    <2> DEFINE On(m) == {players[i].dog : i \in {j \in ids : players[j].map = m}}
    <2>1. sessions' = [m \in DOMAIN sessions \cup {players[i].map : i \in ids} |-> On(m)]
      BY <1>1 DEF RestoreGame
    <2>2. DOMAIN sessions \cup {players[i].map : i \in ids} = DOMAIN sessions
      <3>1. \A i \in ids : players[i].map \in DOMAIN sessions
        BY <1>i DEF DogIndex
      <3> QED
        BY <3>1
    <2>3. \A m \in DOMAIN sessions : sessions[m] = On(m)
      BY <1>i, Zenon DEF DogIndex
    <2>4. sessions = [m \in DOMAIN sessions |-> sessions[m]]
      BY <1>i DEF IsMap
    <2> HIDE DEF On
    <2> QED
      BY <2>1, <2>2, <2>3, <2>4
  <1>7. \A m \in Maps : SetAt(mapToPlayers', m) = SetAt(mapToPlayers, m)
    <2> DEFINE On(m) == {i \in ids : players[i].map = m}
    <2>1. mapToPlayers' = [m \in {players[i].map : i \in ids} |-> On(m)]
      BY <1>1 DEF RestoreGame
    <2>2. \A m : SetAt(mapToPlayers', m) = On(m)
      BY <2>1 DEF SetAt
    <2>3. \A m : SetAt(mapToPlayers, m) = On(m)
      BY <1>i DEF MapIndex, SetAt
    <2> QED
      BY <2>2, <2>3
  <1>8. dogs' = [d \in DOMAIN dogs |-> [moving |-> dogs[d].moving, afk |-> 0]]
    <2>1. dogs' = [d \in dogIds |-> [moving |-> file.moving[d], afk |-> 0]]
      BY <1>1 DEF RestoreGame
    <2> QED
      BY <1>1, <1>2, <2>1
  <1>9. nextPlayer' <= nextPlayer /\ nextDog' <= nextDog
    <2>1. nextPlayer' = Bumped(0, ids) /\ nextDog' = Bumped(0, dogIds)
      BY <1>1 DEF RestoreGame
    <2>2. ids \in SUBSET Nat /\ dogIds \in SUBSET Nat
      BY <1>2
    <2>3. \A i \in ids : i < nextPlayer
      BY <1>i DEF FreshIds
    <2>4. \A d \in dogIds : d < nextDog
      BY <1>i DEF FreshIds
    <2>5. Bumped(0, ids) <= nextPlayer
      BY <1>i, <2>2, <2>3, BumpedLeast
    <2>6. Bumped(0, dogIds) <= nextDog
      BY <1>i, <2>2, <2>4, BumpedLeast
    <2> QED
      BY <2>1, <2>5, <2>6
  <1> QED
    BY <1>3, <1>4, <1>5, <1>6, <1>7, <1>8, <1>9
-----------------------------------------------------------------------------
(* The server implements StayLedger.  Every step of a tick that touches    *)
(* nothing durable and no token is a stutter of the ledger.                *)

\* The rows of a stay by the present process.
LEMMA LedgerRow ==
    ASSUME NEW t, NEW known
    PROVE  Ledger!Row(t, known) \in Rows <=>
              \E k \in DOMAIN retired :
                  retired[k].token = t /\ retired[k].run = run /\ retired[k].acked = known
  BY DEF Ledger!Row, Rows

LEMMA LedgerStays ==
    ASSUME UNCHANGED <<owner, tokenToPlayer, retired, file, run>>, pc # "down", pc' # "down"
    PROVE  UNCHANGED Ledger!ledger
  <1>1. Rows' = Rows /\ SavedStays' = SavedStays
    BY DEF Rows, SavedStays
  <1> QED
    BY <1>1 DEF Ledger!ledger

LEMMA LedgerBegins ==
    ASSUME IInv, pc = "idle", NEW name \in Names, NEW map \in Maps, NEW token \in Tokens,
           Join(name, map, token)
    PROVE  Ledger!Next
  <1>1. /\ token \notin DOMAIN owner /\ owner' = Assign(owner, token, name)
        /\ tokenToPlayer' = Emplace(tokenToPlayer, token, nextPlayer)
        /\ UNCHANGED <<pc, retired, file, run>>
    BY DEF Join, disk
  <1>2. token \notin DOMAIN tokenToPlayer
    BY <1>1 DEF IInv, TokenIdentity
  <1>3. /\ DOMAIN owner' = DOMAIN owner \cup {token}
        /\ DOMAIN tokenToPlayer' = DOMAIN tokenToPlayer \cup {token}
    <2>1. tokenToPlayer' = Assign(tokenToPlayer, token, nextPlayer)
      BY <1>1, <1>2, EmplaceNew
    <2> QED
      BY <1>1, <2>1, AssignProp
  <1>4. Rows' = Rows /\ SavedStays' = SavedStays
    BY <1>1 DEF Rows, SavedStays
  <1>5. Ledger!Begin(token)
    BY <1>1, <1>3, <1>4 DEF Ledger!Begin
  <1> QED
    BY <1>5 DEF Ledger!Next

\* A row, known to be there or not, is the first one of its stay and process.
LEMMA LedgerEnters ==
    ASSUME IInv, RetiredInv, NEW i \in DOMAIN players, NEW acked \in BOOLEAN,
           pc = "retire", pc' # "down", conn # "broken",
           retired' = Append(retired, Record(i, acked)),
           UNCHANGED <<owner, tokenToPlayer, file, run>>
    PROVE  Ledger!Next
  <1>1. tokens[i] \in Tokens /\ tokens[i] \in DOMAIN tokenToPlayer
    BY DEF IInv, IndexConsistent, TokenIndex, TypeOK, IsMap
  <1>2. \A k \in DOMAIN retired : retired[k].token = tokens[i] => retired[k].run # run
    BY <1>1 DEF RetiredInv, RecordedIsGone, Ours
  <1>3. \A known \in BOOLEAN : Ledger!Row(tokens[i], known) \notin Rows
    BY <1>2, LedgerRow
  <1>4. Rows' = Rows \cup {Ledger!Row(tokens[i], acked)}
    <2>1. retired \in Seq(RetiredRec)
      BY DEF IInv, TypeOK
    <2>2. /\ DOMAIN retired' = 1 .. Len(retired) + 1 /\ DOMAIN retired = 1 .. Len(retired)
          /\ Len(retired) \in Nat
          /\ retired'[Len(retired) + 1] = Record(i, acked)
          /\ \A k \in DOMAIN retired : retired'[k] = retired[k]
      BY <2>1
    <2>3. DOMAIN retired' = DOMAIN retired \cup {Len(retired) + 1}
      BY <2>2
    <2> DEFINE row(r) == [token |-> r.token, run |-> r.run, acked |-> r.acked]
    <2>4. row(Record(i, acked)) = Ledger!Row(tokens[i], acked)
      BY DEF Record, Ledger!Row
    <2>5. Rows' = {row(retired'[k]) : k \in DOMAIN retired'} /\ Rows = {row(retired[k]) : k \in DOMAIN retired}
      BY DEF Rows
    <2> HIDE DEF row
    <2> QED
      BY <2>2, <2>3, <2>4, <2>5
  <1>5. SavedStays' = SavedStays
    BY DEF SavedStays
  <1>6. Ledger!Enter(tokens[i], acked)
    BY <1>1, <1>3, <1>4, <1>5 DEF Ledger!Enter
  <1> QED
    BY <1>1, <1>6 DEF Ledger!Next

LEMMA LedgerEnds ==
    ASSUME IInv, LoopInv, NEW i \in DOMAIN players, RemovePlayer(i)
    PROVE  Ledger!Next
  <1>1. /\ pc = "erase" /\ pc' = "retire" /\ IsNextAfk(i)
        /\ tokenToPlayer' = Erase(tokenToPlayer, tokens[i])
        /\ UNCHANGED <<owner, retired, file, run>>
    BY DEF RemovePlayer, disk
  <1>2. tokens[i] \in Tokens /\ tokens[i] \in DOMAIN tokenToPlayer
    BY DEF IInv, IndexConsistent, TokenIndex, TypeOK, IsMap
  <1>3. Ledger!Row(tokens[i], TRUE) \in Rows
    <2>1. HasRow(i)
      BY <1>1 DEF LoopInv
    <2>2. \A k \in DOMAIN retired : retired[k].acked => retired[k].acked = TRUE
      <3>1. \A k \in DOMAIN retired : retired[k] \in RetiredRec
        BY DEF IInv, TypeOK
      <3> QED
        BY <3>1 DEF RetiredRec
    <2> QED
      BY <2>1, <2>2, LedgerRow DEF HasRow
  <1>4. DOMAIN tokenToPlayer' = DOMAIN tokenToPlayer \ {tokens[i]}
    BY <1>1, EraseProp
  <1>5. Rows' = Rows /\ SavedStays' = SavedStays
    BY <1>1 DEF Rows, SavedStays
  <1>6. Ledger!End(tokens[i])
    BY <1>1, <1>2, <1>3, <1>4, <1>5 DEF Ledger!End
  <1> QED
    BY <1>2, <1>6 DEF Ledger!Next

\* A saved stay is one that goes on, and none of these has ended.
LEMMA LedgerSaves ==
    ASSUME IInv, RetiredInv, pc \in {"idle", "save"}, file' = Snapshot
    PROVE  SavedStays' = DOMAIN tokenToPlayer /\ Ledger!Settled
  <1>1. SavedStays' = {tokens[i] : i \in DOMAIN tokens}
    BY DEF SavedStays, Snapshot
  <1>2. DOMAIN tokenToPlayer = {tokens[i] : i \in DOMAIN tokens}
    BY DEF IInv, IndexConsistent, TokenIndex
  <1>3. \A t \in DOMAIN tokenToPlayer : Ledger!Row(t, TRUE) \notin Rows
    <2> SUFFICES ASSUME NEW t \in DOMAIN tokenToPlayer, Ledger!Row(t, TRUE) \in Rows
                 PROVE  FALSE
      OBVIOUS
    <2>1. PICK k \in DOMAIN retired : /\ retired[k].token = t /\ retired[k].run = run
                                      /\ retired[k].acked = TRUE
      BY Zenon DEF Ledger!Row, Rows
    <2> QED
      BY <2>1 DEF RetiredInv, RecordedIsGone
  <1> QED
    BY <1>1, <1>2, <1>3 DEF Ledger!Settled

LEMMA LedgerStops ==
    ASSUME IInv, RetiredInv, ServerDies \/ Shutdown
    PROVE  Ledger!Next
  <1>1. /\ pc # "down" /\ pc' = "down" /\ tokenToPlayer' = Nothing
        /\ UNCHANGED <<owner, retired, run>>
    BY DEF ServerDies, Shutdown, Stopped
  <1>2. DOMAIN tokenToPlayer' = {} /\ Rows' = Rows
    BY <1>1 DEF Nothing, Rows
  <1>3. \/ UNCHANGED SavedStays
        \/ Ledger!Settled /\ SavedStays' = DOMAIN tokenToPlayer
    <2>1. CASE ServerDies
      BY <2>1 DEF ServerDies, SavedStays
    <2>2. CASE Shutdown
      <3>1. pc = "idle" /\ file' = Snapshot
        BY <2>2 DEF Shutdown
      <3> QED
        BY <3>1, LedgerSaves
    <2> QED
      BY <2>1, <2>2
  <1>4. Ledger!Stop
    BY <1>1, <1>2, <1>3 DEF Ledger!Stop
  <1> QED
    BY <1>4 DEF Ledger!Next

LEMMA LedgerStarts ==
    ASSUME IInv, Restart
    PROVE  Ledger!Next
  <1>1. /\ pc = "down" /\ pc' = "idle" /\ run' = run + 1
        /\ UNCHANGED <<owner, retired, file>>
    BY DEF Restart, disk
  <1>2. DOMAIN tokenToPlayer' = {file.tokens[i] : i \in DOMAIN file.players}
    BY DEF Restart, RestoreGame
  <1>3. DOMAIN tokenToPlayer' = SavedStays
    BY <1>2 DEF IInv, FileConsistent, SavedStays
  <1>4. Rows' = Rows /\ SavedStays' = SavedStays
    BY <1>1 DEF Rows, SavedStays
  <1>5. Ledger!Start
    BY <1>1, <1>3, <1>4 DEF Ledger!Start
  <1> QED
    BY <1>5 DEF Ledger!Next

LEMMA LedgerStep ==
    IInv /\ RetiredInv /\ LoopInv /\ [Next]_vars => [Ledger!Next]_(Ledger!ledger)
  <1> SUFFICES ASSUME IInv, RetiredInv, LoopInv, [Next]_vars
               PROVE  Ledger!Next \/ UNCHANGED Ledger!ledger
    OBVIOUS
  <1>1. CASE UNCHANGED vars
    <2>1. UNCHANGED <<owner, tokenToPlayer, retired, file, run, pc>>
      BY <1>1 DEF vars, index, disk
    <2>2. Rows' = Rows /\ SavedStays' = SavedStays
      BY <2>1 DEF Rows, SavedStays
    <2> QED
      BY <2>1, <2>2 DEF Ledger!ledger
  <1>2. CASE Request
    <2>1. CASE \E name \in Names, map \in Maps, token \in Tokens : pc = "idle" /\ Join(name, map, token)
      BY <2>1, LedgerBegins
    <2>2. CASE \E token \in Tokens, go \in BOOLEAN : MovePlayer(token, go)
      <3>1. /\ pc = "idle" /\ pc' = pc
            /\ UNCHANGED <<owner, tokenToPlayer, retired, file, run>>
        BY <2>2 DEF MovePlayer, index, disk
      <3> QED
        BY <3>1, LedgerStays
    <2> QED
      BY <1>1, <1>2, <2>1, <2>2 DEF Request, JoinGame, Rejoin
  <1>3. CASE StartTick
    <2>1. /\ pc = "idle" /\ pc' = "retire"
          /\ UNCHANGED <<owner, tokenToPlayer, retired, file, run>>
      BY <1>3 DEF StartTick, Tick, index, disk
    <2> QED
      BY <2>1, LedgerStays
  <1>4. ASSUME NEW i \in DOMAIN players, SaveRetiredPlayer(i) PROVE Ledger!Next
    <2>1. /\ pc = "retire" /\ pc' = "erase" /\ conn # "broken"
          /\ retired' = Append(retired, Record(i, TRUE))
          /\ UNCHANGED <<owner, tokenToPlayer, file, run>>
      BY <1>4 DEF SaveRetiredPlayer, index
    <2> QED
      BY <2>1, LedgerEnters
  <1>5. ASSUME NEW i \in DOMAIN players, SaveRetiredThrows(i) PROVE Ledger!Next \/ UNCHANGED Ledger!ledger
    <2>1. /\ pc = "retire" /\ pc' = "idle"
          /\ UNCHANGED <<owner, tokenToPlayer, file, run>>
      BY <1>5 DEF SaveRetiredThrows, LeaveTick, index
    <2>2. CASE InDoubt(i)
      <3>1. conn # "broken" /\ retired' = Append(retired, Record(i, FALSE))
        BY <2>2 DEF InDoubt
      <3> QED
        BY <2>1, <3>1, LedgerEnters
    <2>3. CASE ~InDoubt(i)
      <3>1. retired' = retired
        BY <1>5, <2>3 DEF SaveRetiredThrows
      <3> QED
        BY <2>1, <3>1, LedgerStays
    <2> QED
      BY <2>2, <2>3
  <1>6. CASE SaveGameState
    <2>1. /\ pc = "retire" /\ pc' # "down"
          /\ UNCHANGED <<owner, tokenToPlayer, retired, file, run>>
      BY <1>6 DEF SaveGameState, index, disk
    <2> QED
      BY <2>1, LedgerStays
  <1>7. CASE SaveGame
    <2>1. /\ pc = "save" /\ pc' = "idle" /\ file' = Snapshot
          /\ UNCHANGED <<owner, tokenToPlayer, retired, run>>
      BY <1>7 DEF SaveGame, index
    <2>2. SavedStays' = DOMAIN tokenToPlayer /\ Ledger!Settled
      BY <2>1, LedgerSaves
    <2>3. Rows' = Rows
      BY <2>1 DEF Rows
    <2>4. Ledger!Save
      BY <2>1, <2>2, <2>3 DEF Ledger!Save
    <2> QED
      BY <2>4 DEF Ledger!Next
  <1>8. CASE SaveGameThrows
    <2>1. /\ pc = "save" /\ pc' = "idle"
          /\ UNCHANGED <<owner, tokenToPlayer, retired, file, run>>
      BY <1>8 DEF SaveGameThrows, LeaveTick, index, disk
    <2> QED
      BY <2>1, LedgerStays
  <1> QED
    BY <1>1, <1>2, <1>3, <1>4, <1>5, <1>6, <1>7, <1>8, LedgerEnds, LedgerStops, LedgerStarts
       DEF Next, RunTick

\* The server keeps the ledger of the stays, for any players, tokens, tick
\* lengths, failures of the database, crashes and restarts.
THEOREM ImplementsStayLedger == Spec => KeepsLedger
  <1>1. Init => Ledger!Init
    <2> SUFFICES ASSUME Init PROVE Ledger!Init
      OBVIOUS
    <2>1. /\ owner = Nothing /\ tokenToPlayer = Nothing /\ retired = <<>>
          /\ file.tokens = Nothing /\ run = 1 /\ pc = "idle" /\ DOMAIN Nothing = {}
      BY DEF Init, EmptyGame, Nothing
    <2>2. Rows = {} /\ SavedStays = {}
      BY <2>1 DEF Rows, SavedStays
    <2> QED
      BY <2>1, <2>2 DEF Ledger!Init
  <1> QED
    BY <1>1, LedgerStep, Invariance, RetirementInvariance, LoopInvariance, PTL
       DEF Spec, KeepsLedger, Ledger!Spec
=============================================================================
