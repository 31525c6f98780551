---------------------------- MODULE GameRegistry ----------------------------
(***************************************************************************)
(* Who is playing, and what survives the server: model::Game, its          *)
(* PlayerTokens and the dog lists of its GameSessions, the retirement of   *)
(* idle players into the PostgreSQL table, and the state file that         *)
(* Application writes and restores.                                        *)
(*                                                                         *)
(* Every API handler and both tickers run on one asio strand, so a handler *)
(* is one step here.  The tick is the exception: it talks to the database  *)
(* and to the disk, and the process can die, or a database call can throw, *)
(* between any two of those effects.  The tick is therefore split at each  *)
(* durable effect, with pc naming the place the strand is in.              *)
(*                                                                         *)
(* Players and dogs are created by the same counter in lock step, but the  *)
(* code keeps two counters and two kinds of id, and so does the model.     *)
(*                                                                         *)
(* A definition placed before another and named after a slip (SaveIsLate   *)
(* before SaveIsDue) is a plausible bug of it.  It is used nowhere here:   *)
(* PROJECT.json says which property notices it.                            *)
(***************************************************************************)
EXTENDS Naturals, Sequences, Functions

CONSTANTS
    Names,          \* player names
    Maps,           \* ids of the maps in the configuration
    Tokens,         \* what the two 64-bit generators may draw
    Deltas,         \* tick lengths
    MaxInactive,    \* dogRetirementTime of the configuration
    SavePeriod,     \* --save-state-period
    MaxRuns,        \* bound: how often the process is started
    AutoTick        \* TRUE: --tick-period is given, FALSE: ticks come by API

ASSUME RegistryAssumption ==
    /\ Deltas \subseteq Nat
    /\ MaxInactive \in Nat \ {0}
    /\ SavePeriod \in Nat \ {0}
    /\ MaxRuns \in Nat \ {0}
    /\ AutoTick \in BOOLEAN

VARIABLES
    pc,             \* where the strand is: "idle", "retire", "erase", "save", or "down"
    players,        \* PlayerTokens::players_      id -> player
    tokens,         \* PlayerTokens::tokens_       id -> token
    tokenToPlayer,  \* PlayerTokens::tokenToPlayer_
    nameToId,       \* Game::name_to_id_
    mapToPlayers,   \* Game::map_id_to_player_id_
    sessions,       \* Game::map_id_to_session_    map -> ids of the session's dogs_
    dogs,           \* the Dog objects shared by players and sessions
    nextPlayer,     \* Player::next_id
    nextDog,        \* Dog::next_id
    afk,            \* afk_players still to be handled by RemoveAfkPlayers
    delta,          \* argument of the tick being executed
    countdown,      \* the static period of SaveGameState; 0 stands for all below
    ticking,        \* somebody still calls the tick
    conn,           \* the pooled connection: "ok", "failed" an insert threw, "broken"
    file,           \* the state file (durable)
    retired,        \* the retired_players table (durable)
    \* history, read by properties only (run also bounds the restarts)
    run,            \* how often the process was started
    owner,          \* token -> the name it was issued to
    unsaved,        \* tick time since the last save or restore, up to SavePeriod
    saveThrew       \* the last save of this process threw

index  == <<players, tokens, tokenToPlayer, nameToId, mapToPlayers, nextPlayer, nextDog>>
world  == <<sessions, dogs>>
tick   == <<afk, delta, countdown, ticking>>
disk   == <<file, retired>>
vars   == <<pc, index, world, tick, conn, disk, run, owner, unsaved, saveThrew>>

-----------------------------------------------------------------------------
(* std::map and std::unordered_map as functions.                           *)

Nothing == [x \in {} |-> x]

\* m[k] = v
Assign(m, k, v) == [x \in DOMAIN m \cup {k} |-> IF x = k THEN v ELSE m[x]]

\* m.emplace(k, v): an existing entry stays
EmplaceSwapped(m, k, v) == IF k \in DOMAIN m THEN Assign(m, k, v) ELSE m
Emplace(m, k, v) == IF k \in DOMAIN m THEN m ELSE Assign(m, k, v)

\* m.erase(k)
EraseNothing(m, k) == m
Erase(m, k) == Restrict(m, DOMAIN m \ {k})

\* m[k] of a map of sets: a missing entry is created empty
SetAtOverwritten(m, k) == {}
SetAt(m, k) == IF k \in DOMAIN m THEN m[k] ELSE {}

\* a static next_id after constructing objects with the given ids
BumpedNever(next, ids) == next
Bumped(next, ids) ==
    CHOOSE n \in {next} \cup {i + 1 : i \in ids} :
        n >= next /\ \A i \in ids : n > i

Capped(t) == IF t > MaxInactive THEN MaxInactive ELSE t

EmptyGame == [players |-> Nothing, tokens |-> Nothing, moving |-> Nothing,
              maps |-> {}, run |-> 0, records |-> 0]

-----------------------------------------------------------------------------
(* Init: the first start of the server, no state file and an empty table.  *)

Init ==
    /\ pc = "idle"
    /\ players = Nothing /\ tokens = Nothing /\ tokenToPlayer = Nothing
    /\ nameToId = Nothing /\ mapToPlayers = Nothing
    /\ sessions = Nothing /\ dogs = Nothing
    /\ nextPlayer = 0 /\ nextDog = 0
    /\ afk = {} /\ delta = 0 /\ countdown = SavePeriod
    /\ ticking = TRUE /\ conn = "ok" /\ unsaved = 0 /\ saveThrew = FALSE
    /\ file = EmptyGame
    /\ retired = <<>>
    /\ run = 1
    /\ owner = Nothing

-----------------------------------------------------------------------------
(* Requests.                                                               *)

\* A player with this name plays already, on whatever map: the handler looks
\* its token up and changes nothing.
Rejoin(name) == name \in DOMAIN nameToId /\ UNCHANGED vars

\* JoinGame for a new name: FindSession creates the session, AddDog the dog
\* (standing, with no idle time), then Player, the indices and the token.
Join(name, map, token) ==
    /\ name \notin DOMAIN nameToId
    /\ token \notin DOMAIN owner
    /\ sessions' = Assign(sessions, map, SetAt(sessions, map) \cup {nextDog})
    /\ dogs' = Assign(dogs, nextDog, [moving |-> FALSE, afk |-> 0])
    /\ nextDog' = nextDog + 1
    /\ nextPlayer' = nextPlayer + 1
    /\ nameToId' = Assign(nameToId, name, nextPlayer)
    /\ mapToPlayers' = Assign(mapToPlayers, map, SetAt(mapToPlayers, map) \cup {nextPlayer})
    /\ tokenToPlayer' = Emplace(tokenToPlayer, token, nextPlayer)
    /\ tokens' = Emplace(tokens, nextPlayer, token)
    /\ players' = Assign(players, nextPlayer, [name |-> name, map |-> map, dog |-> nextDog])
    /\ owner' = Assign(owner, token, name)
    /\ UNCHANGED <<pc, tick, conn, disk, run, unsaved, saveThrew>>

JoinGame(name, map) ==
    /\ pc = "idle"
    /\ \/ Rejoin(name)
       \/ \E token \in Tokens : Join(name, map, token)

\* MovePlayer: FindPlayerByToken, then Dog::SetDirection, which forgets the
\* idle time; the empty direction stops the dog.
MovePlayerAnytime(token, go) ==
    /\ pc # "down"
    /\ token \in DOMAIN tokenToPlayer
    /\ LET dog == players[tokenToPlayer[token]].dog
       IN  dogs' = [dogs EXCEPT ![dog] = [moving |-> go, afk |-> 0]]
    /\ UNCHANGED <<pc, index, sessions, tick, conn, disk, run, owner, unsaved, saveThrew>>

MovePlayer(token, go) ==
    /\ pc = "idle"
    /\ token \in DOMAIN tokenToPlayer
    /\ LET dog == players[tokenToPlayer[token]].dog
       IN  dogs' = [dogs EXCEPT ![dog] = [moving |-> go, afk |-> 0]]
    /\ UNCHANGED <<pc, index, sessions, tick, conn, disk, run, owner, unsaved, saveThrew>>

-----------------------------------------------------------------------------
(* The tick.                                                               *)

OnSomeMap == UNION {sessions[m] : m \in DOMAIN sessions}

\* UpdateTimeInSessions and the collecting half of RemoveAfkPlayers.  Whether
\* a moving dog meets the edge of its road is the road network's business.
AdvancedForgetful(dog, dt, halted) ==
    LET moving == dog.moving /\ ~halted
    IN  [moving |-> moving, afk |-> IF moving THEN 0 ELSE Capped(dt)]

Advanced(dog, dt, halted) ==
    LET moving == dog.moving /\ ~halted
    IN  [moving |-> moving, afk |-> IF moving THEN 0 ELSE Capped(dog.afk + dt)]

IsAfk(dog) == dog.afk >= MaxInactive

Tick(dt) ==
    /\ pc = "idle"
    /\ ticking
    /\ \E halted \in SUBSET {d \in DOMAIN dogs : dogs[d].moving} :
          dogs' = [d \in DOMAIN dogs |->
                      IF d \in OnSomeMap THEN Advanced(dogs[d], dt, d \in halted)
                                         ELSE dogs[d]]
    /\ afk' = {i \in DOMAIN players : IsAfk(dogs'[players[i].dog])}
    /\ delta' = dt
    /\ unsaved' = IF unsaved + dt > SavePeriod THEN SavePeriod ELSE unsaved + dt
    /\ pc' = "retire"
    /\ UNCHANGED <<index, sessions, countdown, ticking, conn, disk, run, owner, saveThrew>>

\* afk_players is filled from a std::map, so it is handled in id order.
IsNextAfk(i) == i \in afk /\ \A j \in afk : i <= j

Record(i, acked) ==
    [name |-> players[i].name, token |-> tokens[i], run |-> run, acked |-> acked]

\* db::SaveRetiredPlayer returned: the row is committed.
SaveRetiredPlayer(i) ==
    /\ pc = "retire" /\ IsNextAfk(i)
    /\ conn # "broken"
    /\ retired' = Append(retired, Record(i, TRUE))
    /\ pc' = "erase"
    /\ UNCHANGED <<index, world, tick, conn, file, run, owner, unsaved, saveThrew>>

\* The connection is lost while committing: the row is there all the same.
\* The pool keeps the connection, and nothing reconnects it.
InDoubtReconnected(i) ==
    conn # "broken" /\ conn' = "failed" /\ retired' = Append(retired, Record(i, FALSE))
InDoubt(i) ==
    conn # "broken" /\ conn' = "broken" /\ retired' = Append(retired, Record(i, FALSE))

\* Nothing in the tick catches what a database call or a save throws: the rest
\* of the tick is skipped, and an automatic ticker is not scheduled again.
GoOnErasing == pc' = "erase" /\ UNCHANGED <<afk, ticking>>
LeaveTick == pc' = "idle" /\ afk' = {} /\ ticking' = ~AutoTick

\* db::SaveRetiredPlayer threw: the statement failed, or the connection was
\* or is now lost.  On a worker thread the process ends (ServerDies); on
\* the main thread ioc.run() is left and the other threads serve on.
SaveRetiredThrows(i) ==
    /\ pc = "retire" /\ IsNextAfk(i)
    /\ \/ conn' \in {"failed", "broken"} /\ conn # "broken" /\ UNCHANGED retired
       \/ conn' = "broken" /\ conn = "broken" /\ UNCHANGED retired
       \/ InDoubt(i)
    /\ LeaveTick
    /\ UNCHANGED <<index, world, delta, countdown, file, run, owner, unsaved, saveThrew>>

\* The rest of the loop body: PlayerTokens::RemovePlayer with RemoveDog, and
\* the two indices of Game.
RemovePlayer(i) ==
    /\ pc = "erase" /\ IsNextAfk(i)
    /\ LET player == players[i]
       IN  /\ sessions' = [sessions EXCEPT ![player.map] = @ \ {player.dog}]
           /\ dogs' = Erase(dogs, player.dog)
           /\ tokenToPlayer' = Erase(tokenToPlayer, tokens[i])
           /\ tokens' = Erase(tokens, i)
           /\ players' = Erase(players, i)
           /\ mapToPlayers' = [mapToPlayers EXCEPT ![player.map] = @ \ {i}]
           /\ nameToId' = Erase(nameToId, player.name)
    /\ afk' = afk \ {i}
    /\ pc' = "retire"
    /\ UNCHANGED <<nextPlayer, nextDog, delta, countdown, ticking, conn, disk, run, owner, unsaved, saveThrew>>

\* SaveGameState: count the tick's time down; SaveGame when the period is over.
\* Once it is over it stays so until a save has reset it.
SaveIsLate == countdown < delta
SaveIsDue == countdown <= delta

SaveGameState ==
    /\ pc = "retire" /\ afk = {}
    /\ IF SaveIsDue
       THEN pc' = "save" /\ countdown' = 0
       ELSE pc' = "idle" /\ countdown' = countdown - delta
    /\ UNCHANGED <<index, world, afk, delta, ticking, conn, disk, run, owner, unsaved, saveThrew>>

\* GameRepr: players with their dogs, tokens, and the sessions that exist.
\* Idle times are not part of DogRepr.  run and records are history.
Snapshot ==
    [players |-> players,
     tokens  |-> tokens,
     moving  |-> [d \in {players[i].dog : i \in DOMAIN players} |-> dogs[d].moving],
     maps    |-> DOMAIN sessions,
     run     |-> run,
     records |-> Len(retired)]

\* SaveGame: the rename is what makes the new state durable, before it the
\* old file is whole.
SaveGame ==
    /\ pc = "save"
    /\ file' = Snapshot
    /\ countdown' = SavePeriod
    /\ unsaved' = 0 /\ saveThrew' = FALSE
    /\ pc' = "idle"
    /\ UNCHANGED <<index, world, afk, delta, ticking, conn, retired, run, owner>>

\* The archive or the rename throws: the old file stays as it was, the period
\* is not reset, and the tick is left like after a failed insert.
SaveGameThrows ==
    /\ pc = "save"
    /\ saveThrew' = TRUE
    /\ LeaveTick
    /\ UNCHANGED <<index, world, delta, countdown, conn, disk, run, owner, unsaved>>

-----------------------------------------------------------------------------
(* Process start and end.                                                  *)

\* A process that is not running has no game.
Stopped ==
    /\ pc' = "down"
    /\ players' = Nothing /\ tokens' = Nothing /\ tokenToPlayer' = Nothing
    /\ nameToId' = Nothing /\ mapToPlayers' = Nothing
    /\ sessions' = Nothing /\ dogs' = Nothing
    /\ nextPlayer' = 0 /\ nextDog' = 0
    /\ afk' = {} /\ delta' = 0 /\ countdown' = SavePeriod
    /\ ticking' = TRUE /\ conn' = "ok" /\ unsaved' = 0 /\ saveThrew' = FALSE
    /\ UNCHANGED <<retired, run, owner>>

\* Killed, terminated by an exception on a worker thread, or stopped by a
\* signal while the strand was busy: nothing more is written.
ServerDies == pc # "down" /\ Stopped /\ UNCHANGED file

\* SIGINT or SIGTERM with an idle strand: ForceSave saves before ioc.stop().
\* A save that throws here kills the process (ServerDies) or, on the main
\* thread, changes nothing: ioc.stop() is not reached.
Shutdown == pc = "idle" /\ Stopped /\ file' = Snapshot

\* Game::RestoreGame on a new Game: sessions, then every player in id order.
RestoreGame ==
    LET ps   == file.players
        ids  == DOMAIN ps
        On(m) == {i \in ids : ps[i].map = m}
        dogIds == {ps[i].dog : i \in ids}
    IN  /\ players' = ps
        /\ tokens' = [i \in ids |-> file.tokens[i]]
        /\ tokenToPlayer' = [t \in {file.tokens[i] : i \in ids} |->
               CHOOSE i \in ids : /\ file.tokens[i] = t
                                  /\ \A j \in ids : file.tokens[j] = t => i <= j]
        /\ nameToId' = [n \in {ps[i].name : i \in ids} |->
               CHOOSE i \in ids : /\ ps[i].name = n
                                  /\ \A j \in ids : ps[j].name = n => j <= i]
        /\ mapToPlayers' = [m \in {ps[i].map : i \in ids} |-> On(m)]
        /\ sessions' = [m \in file.maps \cup {ps[i].map : i \in ids} |->
                           {ps[i].dog : i \in On(m)}]
        /\ dogs' = [d \in dogIds |-> [moving |-> file.moving[d], afk |-> 0]]
        /\ nextPlayer' = Bumped(0, ids)
        /\ nextDog' = Bumped(0, dogIds)

Restart ==
    /\ pc = "down"
    /\ run < MaxRuns
    /\ RestoreGame
    /\ run' = run + 1
    /\ pc' = "idle"
    /\ UNCHANGED <<tick, conn, disk, owner, unsaved, saveThrew>>

-----------------------------------------------------------------------------
Request ==
    \/ \E name \in Names, map \in Maps : JoinGame(name, map)
    \/ \E token \in Tokens, go \in BOOLEAN : MovePlayer(token, go)

StartTick == \E dt \in Deltas : Tick(dt)

RunTick ==
    \/ \E i \in DOMAIN players :
          SaveRetiredPlayer(i) \/ SaveRetiredThrows(i) \/ RemovePlayer(i)
    \/ SaveGameState
    \/ SaveGame \/ SaveGameThrows

Next == Request \/ StartTick \/ RunTick \/ ServerDies \/ Shutdown \/ Restart

Spec == Init /\ [][Next]_vars

\* The ticker re-arms itself (or clients keep sending ticks), and a handler
\* that has the strand runs to its end.
FairSpec == Spec /\ WF_vars(StartTick) /\ WF_vars(RunTick)
-----------------------------------------------------------------------------
(* Types.                                                                  *)

IsMap(f, K, V) ==
    f = [x \in DOMAIN f |-> f[x]] /\ DOMAIN f \subseteq K /\ \A x \in DOMAIN f : f[x] \in V

PlayerRec == [name : Names, map : Maps, dog : Nat]
DogRec    == [moving : BOOLEAN, afk : 0 .. MaxInactive]
RetiredRec == [name : Names, token : Tokens, run : 1 .. MaxRuns, acked : BOOLEAN]

IsSavedGame(f) ==
    /\ f = [players |-> f.players, tokens |-> f.tokens, moving |-> f.moving,
            maps |-> f.maps, run |-> f.run, records |-> f.records]
    /\ IsMap(f.players, Nat, PlayerRec)
    /\ IsMap(f.tokens, Nat, Tokens)
    /\ IsMap(f.moving, Nat, BOOLEAN)
    /\ f.maps \subseteq Maps
    /\ f.run \in 0 .. MaxRuns
    /\ f.records \in Nat

\* Every variable has the type its C++ member has.
TypeOK ==
    /\ pc \in {"idle", "retire", "erase", "save", "down"}
    /\ IsMap(players, Nat, PlayerRec)
    /\ IsMap(tokens, Nat, Tokens)
    /\ IsMap(tokenToPlayer, Tokens, Nat)
    /\ IsMap(nameToId, Names, Nat)
    /\ IsMap(mapToPlayers, Maps, SUBSET Nat)
    /\ IsMap(sessions, Maps, SUBSET Nat)
    /\ IsMap(dogs, Nat, DogRec)
    /\ nextPlayer \in Nat /\ nextDog \in Nat
    /\ afk \subseteq DOMAIN players
    /\ delta \in Nat
    /\ countdown \in 0 .. SavePeriod
    /\ ticking \in BOOLEAN
    /\ conn \in {"ok", "failed", "broken"}
    /\ IsSavedGame(file)
    /\ retired \in Seq(RetiredRec)
    /\ run \in 1 .. MaxRuns
    /\ IsMap(owner, Tokens, Names)
    /\ unsaved \in 0 .. SavePeriod
    /\ saveThrew \in BOOLEAN

-----------------------------------------------------------------------------
(* Consistency of the indices.  The seven containers are updated one after *)
(* the other in JoinGame, RemoveAfkPlayers and RestoreGame; the lookups    *)
(* use them in chains (name to id to token to player to session to dog)    *)
(* and throw something no handler catches when a link is missing.          *)

\* tokens_ and tokenToPlayer_ are inverse to each other and cover players_.
TokenIndex ==
    /\ DOMAIN tokens = DOMAIN players
    /\ DOMAIN tokenToPlayer = {tokens[i] : i \in DOMAIN tokens}
    /\ \A i \in DOMAIN tokens : tokenToPlayer[tokens[i]] = i

\* name_to_id_ knows exactly the names that play, so a name plays once.
NameIndex ==
    /\ DOMAIN nameToId = {players[i].name : i \in DOMAIN players}
    /\ \A i \in DOMAIN players : nameToId[players[i].name] = i

\* map_id_to_player_id_ lists exactly the players of each map.
MapIndex ==
    /\ \A i \in DOMAIN players : players[i].map \in DOMAIN mapToPlayers
    /\ \A m \in DOMAIN mapToPlayers :
          mapToPlayers[m] = {i \in DOMAIN players : players[i].map = m}

\* A session runs exactly the dogs of its players, and nobody shares a dog.
DogIndex ==
    /\ \A i \in DOMAIN players : players[i].map \in DOMAIN sessions
    /\ \A m \in DOMAIN sessions :
          sessions[m] = {players[i].dog : i \in {j \in DOMAIN players : players[j].map = m}}
    /\ DOMAIN dogs = {players[i].dog : i \in DOMAIN players}
    /\ \A i, j \in DOMAIN players : players[i].dog = players[j].dog => i = j

\* The static counters are ahead of every id in use, after a restore too.
FreshIds ==
    \A i \in DOMAIN players : i < nextPlayer /\ players[i].dog < nextDog

\* Whatever the strand has finished or broken off, the indices agree.
IndexConsistent == TokenIndex /\ NameIndex /\ MapIndex /\ DogIndex /\ FreshIds

\* The state file always holds a game that can be restored into consistent
\* indices: RestoreGame calls at() on the tokens and overwrites by name.
FileConsistent ==
    LET ps == file.players
        ids == DOMAIN ps
    IN  /\ DOMAIN file.tokens = ids
        /\ DOMAIN file.moving = {ps[i].dog : i \in ids}
        /\ \A i \in ids : ps[i].map \in file.maps
        /\ \A i, j \in ids :
              \/ file.tokens[i] = file.tokens[j]
              \/ ps[i].name = ps[j].name
              \/ ps[i].dog = ps[j].dog
              => i = j

\* A token handed to a name never authenticates anybody else, whatever is
\* retired, restored, or issued again under the same player id after a crash.
TokenIdentity ==
    /\ \A t \in DOMAIN tokenToPlayer :
          t \in DOMAIN owner /\ players[tokenToPlayer[t]].name = owner[t]
    /\ \A i \in DOMAIN file.players :
          file.tokens[i] \in DOMAIN owner /\ file.players[i].name = owner[file.tokens[i]]

-----------------------------------------------------------------------------
(* Retirement.  The token stands for one stay of one player.               *)

\* One process writes at most one row for a stay, even if an insert throws
\* and the next tick tries again.
OneRecordPerRun ==
    \A j, k \in DOMAIN retired :
        retired[j].token = retired[k].token /\ retired[j].run = retired[k].run => j = k

\* Between two handlers nobody plays whose row this process has committed.
RecordedIsGone ==
    \A k \in DOMAIN retired :
        retired[k].acked /\ retired[k].run = run /\ pc # "erase"
            => retired[k].token \notin DOMAIN tokenToPlayer

\* A completed save forgets everyone its process had retired before, so only
\* a crash between the row and the next save can bring a retired player back.
SaveForgetsRetired ==
    \A k \in DOMAIN retired :
        k <= file.records /\ retired[k].acked /\ retired[k].run = file.run
            => \A i \in DOMAIN file.tokens : file.tokens[i] # retired[k].token

\* Nobody disappears from a running server without a row of this process.
LeaverIsRecorded ==
    \A i \in DOMAIN players :
        i \notin DOMAIN players' /\ pc' # "down"
            => \E k \in DOMAIN retired :
                  retired[k].token = tokens[i] /\ retired[k].run = run
NobodyVanishes == [][LeaverIsRecorded]_vars

\* When a row is written its player is still standing idle: no request can
\* move the dog between the collection of afk_players and the row.
RecordedWasIdle ==
    \A k \in DOMAIN retired' \ DOMAIN retired :
        LET dog == dogs[players[tokenToPlayer[retired'[k].token]].dog]
        IN  ~dog.moving /\ IsAfk(dog)
OnlyIdleRetire == [][RecordedWasIdle]_vars

\* The server keeps the ledger of the stays: joining, retirement, saves, crashes
\* and restarts together are the life of a stay that StayLedger describes.
SavedStays == {file.tokens[i] : i \in DOMAIN file.tokens}
Rows == {[token |-> retired[k].token, run |-> retired[k].run, acked |-> retired[k].acked] :
            k \in DOMAIN retired}
Ledger == INSTANCE StayLedger WITH
    begun <- DOMAIN owner, playing <- DOMAIN tokenToPlayer,
    rows <- Rows, saved <- SavedStays, up <- pc # "down"
KeepsLedger == Ledger!Spec

\* As long as the database answers and the last save, if there was one, has not
\* thrown, a crash costs less than a save period: whatever the lengths of ticks,
\* and after a save that was tried again.
BoundedLoss == pc = "idle" /\ conn = "ok" /\ ~saveThrew => unsaved < SavePeriod

\* A player who stays while the database answers, and while no save has ended
\* the ticker by an exception, keeps moving: whoever goes idle for good is
\* retired, however ticks, saves and requests interleave.
Playing(t) == t \in DOMAIN tokenToPlayer /\ conn = "ok" /\ ~(AutoTick /\ saveThrew)
Active(t) == t \in DOMAIN tokenToPlayer /\ dogs[players[tokenToPlayer[t]].dog].afk = 0
IdleIsRetired == \A t \in Tokens : <>[]Playing(t) => []<>Active(t)
=============================================================================
