# Dog Story: a verification project

Dog Story is a multiplayer game server in C++ (Boost.Asio and Beast, libpqxx)
with a browser client. Players join a map with a dog, walk it along roads,
collect lost objects, bring them to offices for points, and are retired into a
PostgreSQL table when they stay idle. This directory models the server and the
page of the browser in TLA+: TLC checks the modules on small instances, TLAPS
proves the most important properties for every value of the constants.

`tlc -config MCRegistryIndices.cfg MCGameRegistry.tla` runs one of the checks,
`tlapm GameRegistryProofs.tla` one of the proofs.

## The system

| Component | State it keeps | Operations | Talks to |
|---|---|---|---|
| Game registry (`game.cpp`, `player_tokens.cpp`, `player.cpp`) | `players_`, `tokens_`, `tokenToPlayer_`, `name_to_id_`, `map_id_to_player_id_`, `map_id_to_session_`, static `next_id`s | JoinGame, the lookups by token, id and name, RemoveAfkPlayers, RestoreGame | sessions and dogs (shared pointers), the database |
| Game session (`game_session.cpp`, `loot.cpp`) | `dogs_`, `lost_objects_`, the loot id counter | AddDog, RemoveDog, UpdateTime with HandleLoot, GenerateLoot | dogs, map, collision detector, loot generator |
| Dog and road network (`dog.cpp`, `map.cpp`) | position, speed, bag, score, idle and live time, swept way; roads | SetDirection, movement of a tick, collect and drop | |
| Loot generator (`loot_generator.h`) | `time_without_loot_` | Generate | |
| Collision detector (`collision_detector.cpp`) | none | FindGatherEvents | |
| Application (`application.cpp`) | the save countdown, the two tickers | SaveGame, SaveGameState, ForceSave, RestoreGame, StartTicker | registry, state file |
| State file (`serialization/*.h`) | one file, replaced by rename | GameRepr and its parts | disk |
| Retirement records (`db_functions.cpp`, `postgres.cpp`) | the table `retired_players` | SaveRetired, GetRecordsTable | PostgreSQL |
| Connection pool (`connection_pool.cpp`) | connections, used count, mutex, condition variable | GetConnection, ReturnConnection | PostgreSQL |
| Strand, tickers, process (`main.cpp`, `ticker.cpp`, `request_handler.h`) | worker threads, the API strand's queue, timers | start, signal, exception, stop | everything |
| HTTP sessions (`http_server.*`) | one request and one answer at a time per connection | Read, OnRead, Write, OnWrite, Close | strand |
| API handlers (`api_handler.cpp`) | none | one per endpoint | registry, records |
| Client: game state (`static/js/game.js`, class `GameState`) | `desiredState`, `currentState`, `players`, `lostObjects`, `disappearingLoot`, each player's bag of objects, the scene | tick, the callbacks of state and players list | HTTP |
| Client: keyboard (class `KeyState`, `setupKeyEvents`) | `pressedKeys`, requests under way | keyDown, keyUp, `_pressKey` | HTTP |
| Client: loading (`loadActor`, `loadLootTypes`, `THREE.FileLoader`) | who waits for which file, `loadedLootTypes`, the counter | load, done, failed | static files |
| Static files, configuration, logging | none after the start | | |

How they interact: HTTP sessions run on worker threads; every API request is
dispatched to **one strand**, and so are both tickers and the save at shutdown.
Within the strand a handler is atomic towards every other handler. What is not
atomic is the tick: it commits rows in the database and replaces the state file
while the process may die, a database call may throw, or the machine may stop.
The database and the file are two durable stores that are never written
together.

### What is hard, and what makes each component correct

* **Registry.** Seven containers hold overlapping knowledge. They must agree
  after every handler, after a tick broken off by an exception, and after a
  restart; ids are drawn again after a crash, and no token may ever reach another
  player. Lookups with a missing link throw what no handler catches.
* **Retirement.** Row first, erase second, save later: a player must get a row
  before leaving, at most one per process, must not play on after it, and must
  not be saved after it. Only idle dogs retire, and idle dogs do retire.
* **State file.** What is saved can be restored, and the loss after a crash is
  bounded by the save period.
* **Loot.** Gathering events are computed from one copy of the items and applied
  later; an item must not be doubled or lost, bags must not overflow.
* **Movement.** The choice between two roads compares values that are often
  equal; the dog must stay on the roads and must not be stopped, turned or
  retired by a crossing; the swept way must be the way gone.
* **Strand, tickers, shutdown.** A signal while the strand is busy loses the
  save; an exception ends a ticker while other threads serve on.
* **Pool, sessions.** Lost wakeups, one answer per request.
* **Client.** Several requests are under way at once and nothing orders their
  answers. The objects of the scene are only moved from where one answer left
  them to where the next one wants them; they must be neither doubled, shared nor
  forgotten, and a late answer must not have the last word. A page must begin
  when its files are there, and the dog must do what the last key says.

`PROJECT.json` lists the hazards with the lines where they bite and the
properties that would notice.

## The modules

| Module | Models | State and actions |
|---|---|---|
| `GameRegistry` | `game.cpp`, `player_tokens.cpp`, `application.cpp`, `db_functions.cpp`, the player part of `serialization/` | each container is a variable of its name; `JoinGame`, `MovePlayer` are API handlers; a tick is `Tick` (movement and collection of `afk_players`), then per player `SaveRetiredPlayer` or `SaveRetiredThrows`, `RemovePlayer`, then `SaveGameState` and `SaveGame` or `SaveGameThrows`; `ServerDies`, `Shutdown`, `Restart` |
| `StayLedger` | what players, and readers of the table of records, may expect | the life of a stay: `Begin`, `Enter` into the table, `End`, and `Save`, `Stop`, `Start` of a process; `GameRegistry` implements it |
| `GameSession` | `game_session.cpp`, the bag of `dog.cpp`, `loot.cpp`, the loot part of `serialization/` | `UpdateTime` computes the events, `CollectLoot`, `DropLoot`, `PassBy` apply one each; `GenerateLoot`, `AddDog`, `RemoveDog`, `SaveGame`, `GetGameState`, `Restart` |
| `DogMovement` | the movement part of `dog.cpp`, `map.cpp`, `GameSession::UpdateDogPosition` | `SetDirection`, `Tick`, `Restore` of one dog on a road network given as a constant |
| `ServerRuntime` | `main.cpp`, `ticker.cpp`, `request_handler.h`, `http_server.*`, the strand as a library class | each thread has a place (`pc`); the strand has its turn, its ready and its waiting jobs; `OnTick`, `OnAccept`, `OnRead`, `OnWrite`, `OnSignal` are the handlers, `EndJob`, `JobThrows`, `LeaveTurn`, `TakeTurn` the strand, `Unwind`, `LeaveRun`, `Exit` the ends of threads and process |
| `JobQueue` | what the game expects of the strand | one queue, served in order; `ServerRuntime` implements it |
| `ConnectionPool` | `connection_pool.cpp` | slots, used count, wrappers; `Take`, `Sleep`, `WakeUp`, `ReturnConnection`, `Notify` |
| `Lending` | what `db_functions.cpp` expects of the pool | each connection lent to one user; `ConnectionPool` implements it |
| `LootGenerator` | `loot_generator.h` with the loot ticker and `AddDog` | time, loot and dogs as numbers; `Generated` is the formula of `Generate`, `Power` its powers of the probability |
| `CollisionDetector` | `collision_detector.*`, `geom.h` | the functions as operators; `Tick` gives every dog a way and sorts the events |
| `GameClient` | `GameState` of `game.js`, with the server as its requests see it | `Frame` is `tick()`; `StateDone`, `ListDone`, `ListDenied` are the callbacks; `ApplyState` is `_applyDesiredState` with `_processLostObjects` and `_attachLootToPlayers`; `Joins`, `Appears`, `PicksUp`, `HandsIn`, `Retires`, `Answer*`, `*Fails` the server and the network |
| `ActorTurning` | `_interpolateRotation`, `moveActor` for one actor | `DogTurns`, `StateDone`, `Frame`; the angles of the code as whole steps |
| `KeyState` | `KeyState`, `setupKeyEvents`, `_pressKey`, `MovePlayer` | `KeyPressed`, `KeyReleased`, `KeyRepeated` and the missed events; `PostHandled`, `PostFails` |
| `AssetLoading` | `loadActor`, `loadLootTypes`, `FileLoader.load` | `MapLoaded` asks for all files, `ActorArrives`, `LootArrives`, `FileFails`, `FileStalls` |
| `ClientPage` | `game.html`, `gameserverMain` | composes `AssetLoading` and `KeyState`; `CreateGame` is the frame that finds everything loaded |
| `MC*` | | symmetry sets, a small road network, places of items, loot types |
| `GameRegistryProofs`, `GameSessionProofs`, `DogMovementProofs`, `ServerRuntimeProofs`, `ConnectionPoolProofs`, `CollisionDetectorProofs`, `GameClientProofs`, `ClientPageProofs` | | the theorems |

How they fit together. `ServerRuntime` shows that handlers run one at a time and
in order (`OneAtATime`, `InOrder`); that is what lets `GameRegistry`,
`GameSession` and `DogMovement` take a handler as one step. `GameRegistry` takes
from `DogMovement` that a tick may stop a moving dog. `GameSession` takes from
`LootGenerator` that no more than the shortage appears, and from
`CollisionDetector` that events are pairs of a dog and an item in some order.
`CollisionDetector` takes from `DogMovement` that ways follow an axis
(`TicksAreStraight`) and join (`SweepIsWay`). `ClientPage` ends where `GameClient` begins, at the
creation of the `GameState`. The server of `GameClient` does to players and loot what
`GameRegistry` and `GameSession` do, without what a page cannot see.

Abstractions worth knowing:

* `GameRegistry` splits the tick at its durable effects (`pc`) and keeps
  everything else atomic, because everything runs on the strand. A dog is only
  moving or standing with an idle time; whether a moving dog is stopped by the
  edge of a road is free. `Capped` stops counting idle time at the limit, since
  the code only compares with it.
* An insert into the database may succeed, fail, or fail with the row committed
  (`InDoubt`). A broken connection stays broken: the pool hands it out again and
  nothing reconnects it.
* A save inside a tick may throw (`SaveGameThrows`: the archive or the rename,
  `application.cpp:71`-`76`). The old file stays, the period is not reset
  (`application.cpp:87`), so the next tick saves again; an automatic ticker is
  not armed again (`ticker.cpp:34`). A save that throws at shutdown changes
  nothing the registry has: the process ends (`ServerDies`) or serves on.
  A save that returns is taken as whole, although the code does not look at the
  stream.
* After an exception the process may go on (main thread left `ioc.run()`, the
  others serve on) or die (`ServerDies` follows).
* `GameSession` replaces the geometry by any set of events in any order. That is
  more than `FindGatherEvents` produces; every property proved or checked under
  it holds under any geometry and any treatment of equal times.
* `DogMovement` has integer coordinates in a unit that makes the border, speed
  and tick exact. The C++ uses doubles; the comparisons in
  `FindRoadByPosition` and the clamping are the same on exact values.
* `ServerRuntime` models the strand as the library implements it: a free strand
  runs a dispatched job inside the call, a busy one lets it wait, the next turn
  is posted when one ends, and an exception gives the rest of the turn to the
  next. What a job does is left to the other modules. A connection has no
  contents; a request for a file is answered at once, by the thread that read it.
* `ConnectionPool` is more general than its use: today all users run on one
  strand and there is one connection (`connection_pool.cpp:52`), so its two
  properties are about the class and none of the program's hazards.
* `LootGenerator` and `CollisionDetector` do the arithmetic of the code on whole
  numbers: powers of a fraction, and quotients compared by cross-multiplying.
  The first way of a dog, which starts at the origin, is left out of
  `CollisionDetector`. All dogs of a map have one speed, so in a tick each goes the
  same `stride`, unless it stands or the edge of a road stops it.
* A page has one thread, so a frame and a callback are one step each. A request
  is asked, answered (with what the server knows at that moment) or denied, and
  delivered later, in any order. Objects of the scene are numbered copies, so that
  an object handed on can be told from a new one for the same item.
* `GameClient` leaves out positions, headings, scores and animations: they are
  computed from the state that is modelled and feed nothing back. Time is left
  out too: what fades may be gone in any later frame.
* `ActorTurning` counts angles in whole steps, one per unit of time, and does not
  reduce them to one turn, as the code does not.
* The page loads `three.min.js`; `map` names the lines of `three.js`, the readable build.
* Data that no property reads (coordinates in the session, loot types, JSON,
  live time, scores in the registry) is left out.

## The runs

| Run | Instance | Shows |
|---|---|---|
| `registry_indices` | 2 names, 2 maps, 3 stays, 2 process runs, ticks by requests, which go on after a failure | `IndexConsistent`, `FileConsistent`, `TokenIdentity`, `BoundedLoss`, `OneRecordPerRun`, `KeepsLedger` (the server implements `StayLedger`) |
| `registry_retirement` | 2 names, 1 map, 2 stays, 3 process runs, ticks of 1 and 2 by the ticker, idle limit 3, save every 2; fair ticks | `RecordedIsGone`, `SaveForgetsRetired`, `OnlyIdleRetire`, `IdleIsRetired` |
| `session_loot` | 2 dogs, 1 office, bags of 2, 3 items, 1 restart | `OnePlace`, `FreshLoot`, `BagFits`, `NothingLost` |
| `session_null_bag` | the same with 2 items | `BagsSerializable` is violated (finding) |
| `dog_movement` | two joining roads, one crossing, one separate; a spawn off the roads | `StaysOnRoads`, `TicksAreStraight`, `StopsOnlyAtEdges`, `SweepIsWay` |
| `server_runtime` | 3 threads, 2 connections, both tickers, the save; fair threads | `OneAtATime`, `TickersLive`, `InOrder`, `RequestsAnswered`, `SignalEnds` |
| `connection_pool` | 4 users, 3 connections; fair users | `LendsExclusively`, `SleepersServed` |
| `loot_generator` | 3 dogs, a period of 2, a ticker up to 1 late, a map with loot types | `NoDrought`, `LootLimited` |
| `collision_detector` | 2 dogs on a square of 4 by 4 points, an item at the edge and a wider office, ticks of 1 and 2 | `NothingMissed`, `FirstComeFirst` |
| `game_client` | the page's player and another, 1 item, 2 requests for the state and 1 for the list under way | `OwnedOnce`, `MirrorsState`, `LeaksHaveCause`, `BagsShown`, `SettlesDown` |
| `client_page` | 3 loot types of which 2 share a file, 3 keys, 3 requests under way | `ModelsComplete`, `MoveIsLastKey`, `GameBegins` |
| `actor_turning` | 4 directions, a quarter turn of 2 steps, 2 requests under way | `TurnIsShortest`, `NeverTurnsAway`, `ActorFollows` |

The type invariants, `IdleIsStanding` (only a standing dog collects idle time),
`NobodyVanishes` (nobody leaves without a row, which `KeepsLedger` implies),
`NobodyOverstays`, `JobsMatch`, `PoolConsistent`, `NoLostWakeup`, `TurnIsFinished` and
`NeverBroken` (no frame of a page fails) are proved for every instance and are in no run.

Why the bounds are enough to be interesting. Two names with three tokens let a
name retire and come back on the other map while another plays. Two process
runs let ids be drawn again after a crash; three let a retired player be brought
back twice. A save period of two ticks puts a tick between a row and the save; `BoundedLoss`
is checked where clients tick, because there the next tick tries a save that threw
again, and its proof covers ticks that do not divide the period.
Two dogs and three items, with room for two, let a bag fill up within one tick,
and let both dogs reach for one item. The movement network has an overlap of
three roads, a collinear joint, and a gap a long tick can pass.
Three threads are the main one, a second one to meet it on the strand, and a
third one that goes on when the main one has left by an exception. Four users of
three connections let one sleep while two give back and a third one takes. A
single missing item needs two ticks of the loot ticker, and three dogs let an
item come while others are still missing. The square of the dogs holds ways of
two ticks in every direction, and both items can be met by both dogs in one tick.
The item at the edge is met by a dog that is stopped there in mid-tick: without the
exception for such dogs TLC finds `FirstComeFirst` violated.
On the page two answers for the state can overtake each other, and a list can be
late by any number of states; one item goes through the map, a bag and
the fading ones, and comes back by a late answer while its object still fades.
An item comes once and leaves once, so two items would only repeat what one does.
Both players are on the page's map in this instance; players of other maps, whose
objects stay behind when they leave, are covered by the proofs.
With three keys the last can be released between two others; with three posts
the newest can be overtaken, lost or last. A quarter turn of two steps can be
interrupted half way, so that angles leave the circle.
`MaxRuns`, `MaxLoot`, `MaxPosts`, `LongAgo`, `Tokens`, `StateSlots` and `ListSlots` bound the
models and nothing else.
`CHECK_DEADLOCK FALSE` stands where the system may stop: the last process run
may end, a crashed session may stay down, a page may have been left or have lost a file.

Fairness. `registry_retirement` assumes weak fairness of `StartTick` (the ticker
re-arms its timer after every tick, `ticker.cpp:36`; clients tick otherwise) and
of `RunTick` (a handler on the strand runs to its end). Nothing is assumed about
requests, crashes or restarts. `server_runtime` assumes that handlers end
and that the `io_context` passes no due handler over for ever (weak fairness of a
thread's own steps and of taking the strand's turn, strong fairness of the
signal's handler, which threads busy with other handlers disable again and
again); nothing about clients, timers and signals. `connection_pool` assumes that
the mutex is given to who asks for it and that users give connections back.
`IdleIsRetired` only speaks of players who stay while the database answers and
while no save has ended an automatic ticker by an exception; where clients tick,
a save that threw is no excuse. The exceptions of inserts and saves are steps of
the model, so the fairness of `StartTick` says nothing of a ticker they ended: it
is disabled then. The pages assume that frames go on
(`requestAnimationFrame`), that requests which are repeated for ever are
answered at last (strong fairness: each may fail), and that of the answers that have
come one is taken at last; nothing about a particular answer, which may come
arbitrarily late, and nothing about keys and players. `client_page` assumes
that a file arrives to which nothing happens.

Every property of a passing run has a mutant in `PROJECT.json`: a plausible slip
in the code (a dropped guard, an insert that overwrites, an off-by-one in the
countdown) under which TLC finds the property violated.

What the runtime module shows without a property to violate: a signal while the
strand is busy stops the server before its save has run (`OnSignal` with
`Dispatch` on a locked strand, then `Stop`); a save that throws in the signal
handler on the main thread leaves a server that no further signal stops (the
exception `SaveLeftMain` in `SignalEnds`); an exception from a ticker's handler on
the main thread leaves a server that serves on without that ticker until a signal,
which is why `TickersLive` is about the other threads; one failed accept ends listening.
Nothing in the repository promises otherwise.

### Findings

* **An empty pointer in a bag** (`game_session.cpp:129`). Two dogs that pass one
  item in the same tick both have an event for it. The second lookup
  `lost_objects_[id]` creates an empty pointer, which is put into the bag; the
  next save, state request or office dereferences it.

Other disagreements met on the way, for which no run was made:

* `game.cpp:90` asserts that a tick period is configured, the API handler that
  calls it (`api_handler.cpp:230`) that none is.
* `loot_generator.h:35` documents `time_delta` as the time since the previous call;
  a join passes a whole period at once, and calls are left out while there is
  enough loot (`game_session.cpp:17`, `:38`).
* The field by which events are sorted is called `time` (`collision_detector.h:74`), but holds
  the share of a way, which ends early where the edge of a road stops the dog
  (`map.cpp:75`). Such a dog may be served after one that came later. The tests
  of the detector expect the share, so it is taken for meant, and `FirstComeFirst` says
  how far the order of the meetings is kept all the same.
* `data/config.json:25` names `assets/wallet.obj`, which `static/assets` does not
  have; with `FileFails` for it, the page of such a map never begins.
* `updateInProgress` and `playersSuncInProgress` (`game.js:186`, `:282`) are never true when
  `tick()` looks at them.

What the client shows without a property to violate: a page of which one of the
first two requests was lost never starts; objects of players who were never on
its list stay in the scene (`disorder` in `LeaksHaveCause`); a key released
while another window has the focus goes on counting as pressed.

## The proofs

`GameRegistryProofs` proves, for any number of names, maps, tokens, runs, tick
lengths and periods (`RegistryAssumption`), that `Spec` implies the type
invariant, `IndexConsistent`, `FileConsistent`, `TokenIdentity`,
`OneRecordPerRun`, `RecordedIsGone` and `SaveForgetsRetired`. The inductive
invariant `IInv` adds to the properties what they need from each other:
`FileBounded` (the ids in the file are bounded, so the counters after a restore
exist) and `DownIsEmpty` (a stopped process has no game). `IndexConsistent` is
preserved by a restart only because of `FileConsistent`, and that by a save only
because of `IndexConsistent`, so both are proved together. `RetiredInv` adds the
facts about rows: which tokens may have one in which `pc`.
`LoopInv` is about the loop over `afk_players` and the countdown, which stays at
its end until a save has returned; from it follow
`BoundedLoss` (between handlers, while the database answers and the last save has
not thrown), `OnlyIdleRetire` and `NobodyVanishes`.

Three more results about the registry go beyond what its runs can say.

* `IdleAreGoneInTime` (`NobodyOverstays`): between two handlers nobody plays who has
  been idle for the limit while the database answers. It is the safe half of
  `IdleIsRetired`. `PromptInv` says who may still have reached the limit: within
  a tick those in `afk_players`, and nobody once the loop is through.
* `RestoreUndoesSave`: a restart from a snapshot brings back players, tokens,
  names, sessions and directions as they were. Only idle times start anew, and the
  counters may be lower, though above every id in use (`BumpedLeast`).
* `ImplementsStayLedger`: the server implements `StayLedger`. A stay that began goes
  on until its row is committed or its process ends; what is saved are the stays
  that go on. Most steps of a tick are stutters of the ledger. An insert is
  `Enter`, an in-doubt commit one whose row is not known; `End` needs
  `LoopInv` (the player erased has a row), `Enter` and `Save` need
  `RetiredInv` (who plays on has none).

`DogMovementProofs` proves all properties of `DogMovement` for every road
network, border, speed and tick length (`MovementAssumption`). `TickLemma`
states the outcome of one tick; it rests on `TickCases` (which of the two roads
is followed), `CurrentProp` and `OtherProp` (what a road allows), and on
monotonicity of squares for comparing distances.

`ServerRuntimeProofs` proves, for any number of threads, connections and tickers
(`RuntimeAssumption`), that handlers exclude each other, that jobs match what
waits for them, that no worker thread leaves a server without its ticker behind, and that the strand implements
`JobQueue`. The inductive invariant adds that the strand is locked exactly while
its turn is posted or run by one thread. Each of the two queues may be rearranged by an
exception or the end of a turn, but never their concatenation, which is the queue
of `JobQueue`.

`ConnectionPoolProofs` proves, for any number of users and connections
(`PoolAssumption`), that slots and wrappers agree, that no wakeup is lost, and
that the pool implements `Lending`. It counts: the free connections beside a
sleeper never outnumber those about to test or to notify.

`CollisionDetectorProofs` proves, for any items, widths, dogs and tick lengths
(`DetectorAssumption`), that a dog meets exactly the items beside its straight
way however it is cut (`CollectedBeside` for one tick, `BesideParts` for joining
two), and that events come in the order of the meetings but for dogs stopped at
an edge: shares are cross-multiplied lengths (`CollectedRatio`, `RatioOrder`), no way is
longer than the tick's stride (`StepWithin`, `WithinStride`), and of two shares the
smaller one is the shorter way where the later way is not cut short
(`EarlierShare`).

The same module has the proofs about `LootGenerator`, for every probability, period,
delay and number of dogs (`GeneratorAssumption`): more items than missing never come
(`LootLimited`), and while one is missing on a map that has loot types one comes in
bounded time (`NoDrought`). The
formula is a power of a fraction, `Power`, a recursive function. That it obeys its
equation is shown by the least number at which it might not; after
that powers only fall (`PartStaysReached`), so once everything missing comes it comes at
any later time too (`AllCome`, `EnoughIsEnough`), and the clocks of the model may stop
at `Enough`.

`GameSessionProofs` proves, for any dogs, offices, bag sizes, items and process
runs (`SessionAssumption`), the type invariant, `OnePlace`, `FreshLoot`, `BagFits`
and `NothingLost`. The inductive invariant `IInv` has these, restated for any
items and bags (`Placed`), of the running session and of the file (`FileSound`),
because a restart makes one from the other; and that no event is left over
between two ticks. Bags are sequences in which an item is distinct and an empty
pointer (the finding above) is not an item. The counter after a restore exists
because a bounded set of ids has a highest one (`Highest`, by well-founded
descent over finite sets). `NullsNeedTwoDogs` bounds the finding: in a behaviour in
which no tick has events of two dogs for one item (`MetByOne`) no bag ever has an
empty pointer (`BagsSerializable`) and nothing crashes. Its invariant `CleanInv`
adds that the items of the events still to come are on the map; that a file has no
empty pointer is part of `IInv`, since a save that meets one ends the process.

`GameClientProofs` proves, for any players, items, requests under way and polling
interval (`ClientAssumption`), the type invariant, `OwnedOnce`, `MirrorsState`,
`BagsShown`, `LeaksHaveCause`, and that no frame fails (`FramesGoOn`): after the
start desired and current state are one. `SceneInv` adds to the properties that
every answer is a possible game (an item in one place) and that objects in use
have lower numbers than the next copy. For
`LeaksHaveCause` that is not enough: an object leaks if an item comes back into
play whose last object still fades. `Story` excludes it for answers that were not
overtaken: of all games still around, whoever is in an earlier and a later one is
in those between, and an item in a bag stays there while it is in play
(`Chronicle`); so what has left the game shown is in no later one.

`ClientPageProofs` proves `ModelsComplete` for any loot types, files and ways of
sharing them (`PageAssumption`): the counter of `loadLootTypes` is the number of
types without a model, because a type waits for its own file only, and only until
it is called.

It also proves `MoveIsLastKey`, for any keys and any number of posts under way. The
page's `pressedKeys` and the keys really held are two sequences; `KeysInv` says that
they agree in order on all keys of which no event was missed (`KeysAgree`), and that
the newest post carries the last of them (`LastPosted`). The order of a
sequence from which one key is taken (`RemoveFirstOrder`) is all that is needed of it.

Of an actor it proves `TurnIsShortest` and `NeverTurnsAway` for any step of the
circle (`TurningAssumption`). The angle shown is always one the present turn passes
through, at the time of the last frame or earlier (`TurningInv`), although it is
never reduced: it stays within two turns of zero (`AnglesStayNear`). So a turn whose
time is over ends at the wanted angle (`TurnsAreFinished`), and the model may stop
its clock at `LongAgo` (`LongAgoIsEnough`).

Only model-checked is liveness, which needs fairness and ENABLED and is beyond the
prover: `IdleIsRetired`, `RequestsAnswered`, `SignalEnds`, `SleepersServed`, `SettlesDown`,
`GameBegins` and `ActorFollows`. Of two of them the safe half is proved
(`IdleAreGoneInTime`, `TurnsAreFinished`).

## What could follow

In the order in which it seems worth doing:

1. `GameSession` with the events that `CollisionDetector` computes in place of any
   events. Everything proved holds under any events; the join would show which
   double events really happen, and bound the finding to dogs that meet.
2. Writes of the state file that fail half way (`application.cpp:74` does not look
   at the stream), with the exception they cause at the next restore.
3. The pages of the records table (`postgres.cpp:26`): rows of equal score and
   play time have no fixed order between two requests.
4. Ticks of a negative length, which the API accepts (`api_handler.cpp:242`).
5. The tiles of `game_map.js`.

## Not modelled and why

* Static files (`file_handler.cpp`): input and output without state.
* Configuration and command line: run once before the server starts; their results
  are the constants of the modules.
* Logging: pure output.
* The table of records, camera, positions, animations and score table of the
  page: functions of the state that is modelled, which nothing reads back.
* `game_map.js`: computes tiles once from a map that never changes.
* Vendored code. `three.js` and its loaders are 47 000 of the 48 000 lines of
  JavaScript in the repository; of them only the sharing of requests in
  `FileLoader` and the callbacks of the two loaders in use are modelled, because
  the start of a page depends on them. The rest is geometry, parsing and drawing
  of a third party: modelling it would say nothing about this program. The share
  of JavaScript lines that `map` covers therefore stays small, while of `game.js`
  the classes `GameState` and `KeyState` and the start of the page are covered. The C++
  of the server is covered file by file, see the table of modules.

