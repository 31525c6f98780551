----------------------------- MODULE GameClient -----------------------------
(***************************************************************************)
(* The browser's side of a game: the class GameState of static/js/game.js. *)
(* It polls the server for the state of the game and for the list of the   *)
(* players, and keeps the objects of the scene in step with the answers:   *)
(* an actor for every listed player, an object for every item, wherever    *)
(* the item is.                                                            *)
(*                                                                         *)
(* A page runs on one thread, so a frame and the callback of an answer are *)
(* one step each.  Nothing orders the answers: several requests of a kind  *)
(* are under way at once, because updateInProgress and                     *)
(* playersSuncInProgress are both false again before any answer can        *)
(* arrive, and the guards on them in tick() never hold a request back.     *)
(*                                                                         *)
(* The server is what the requests see of it: who plays, what is in the    *)
(* bags and what lies around.  The list names the players of the page's    *)
(* own map, the state covers the players and the items of all maps.        *)
(*                                                                         *)
(* An object of the scene is the n-th copy made for an item.  The maps     *)
(* from item ids to objects are sets of objects.  A player's bag of        *)
(* objects hangs on currentState.players[p].data and on players[p].data;   *)
(* while a player is in both, both are one object, so there is one bag.    *)
(* Positions, headings and scores are left out.                            *)
(***************************************************************************)
EXTENDS Naturals, FiniteSets

CONSTANTS
    Players,            \* player ids
    Me,                 \* the player of this page
    Locals,             \* the players who join the page's map
    Items,              \* ids of items
    StateSlots,         \* bound: how many requests for the state are under way
    ListSlots,          \* bound: how many requests for the list are under way
    PlayersInterval     \* playersUpdateInterval / posUpdateInterval

ASSUME ClientAssumption ==
    /\ Me \in Locals
    /\ Locals \subseteq Players
    /\ PlayersInterval \in Nat \ {0}

VARIABLES
    game,           \* the server's game, with the number of its changes
    absent,         \* players who have not joined yet
    unborn,         \* items that have not appeared yet
    stateNet,       \* requests for the state under way, and their answers
    listNet,        \* requests for the list under way, and their answers
    page,           \* "open", "left" for the records, "broken" by an exception
    stateLoaded,    \* GameState::stateLoaded
    playersLoaded,  \* GameState::playersLoaded
    ticks,          \* GameState::ticks, counted in posUpdateIntervals
    desired,        \* GameState::desiredState
    current,        \* GameState::currentState
    listed,         \* GameState::players, each with its actor in the scene
    lostObjects,    \* GameState::lostObjects, the objects of items on the map
    carried,        \* data.bag of each player, the objects of items in bags
    fading,         \* GameState::disappearingLoot
    scene,          \* the item objects in the scene
    copies,         \* how many objects were made for each item
    \* history, read by properties only
    disorder        \* an answer was overtaken, or somebody left the view
                    \* who was not listed, or the list while in the view

server == <<game, absent, unborn>>
net    == <<stateNet, listNet>>
loading == <<stateLoaded, playersLoaded>>
view   == <<desired, current, lostObjects, carried, fading, scene, copies>>
vars   == <<server, net, page, loading, ticks, view, listed, disorder>>

-----------------------------------------------------------------------------
Game == [no : Nat, in : SUBSET Players, bag : [Players -> SUBSET Items], lost : SUBSET Items]

EmptyGame == [no |-> 0, in |-> {}, bag |-> [p \in Players |-> {}], lost |-> {}]

\* A request: not under way, waiting for the server, or answered; somebody
\* who does not play any more is denied with status 401.
Call    == [phase : {"free", "asked", "answered", "denied"}, body : Game]
Free    == [phase |-> "free", body |-> EmptyGame]
Asked   == [phase |-> "asked", body |-> EmptyGame]
Denied  == [phase |-> "denied", body |-> EmptyGame]
Answered(g) == [phase |-> "answered", body |-> g]

Object  == Items \X Nat
ItemOf(o) == o[1]
ItemsOf(objects) == {ItemOf(o) : o \in objects}

\* Another request, unless the bound is reached; it does not matter which slot.
Send(calls) ==
    LET free == {c \in DOMAIN calls : calls[c].phase = "free"}
    IN  IF free = {} THEN calls ELSE [calls EXCEPT ![CHOOSE c \in free : TRUE] = Asked]

started == stateLoaded /\ playersLoaded

Init ==
    /\ game = [EmptyGame EXCEPT !.in = {Me}]
    /\ absent = Players \ {Me}
    /\ unborn = Items
    /\ stateNet = Send([c \in StateSlots |-> Free])
    /\ listNet = Send([c \in ListSlots |-> Free])
    /\ page = "open"
    /\ stateLoaded = FALSE /\ playersLoaded = FALSE
    /\ ticks = 0
    /\ desired = EmptyGame /\ current = EmptyGame
    /\ listed = {} /\ lostObjects = {} /\ fading = {} /\ scene = {}
    /\ carried = [p \in Players |-> {}]
    /\ copies = [i \in Items |-> 0]
    /\ disorder = FALSE

-----------------------------------------------------------------------------
(* The server.                                                             *)

\* What happens after the page was left does not matter.
Becomes(g) == page = "open" /\ game' = [g EXCEPT !.no = game.no + 1]
ClientIdle == UNCHANGED <<net, page, loading, ticks, view, listed, disorder>>

Joins(p) ==
    /\ p \in absent
    /\ absent' = absent \ {p}
    /\ Becomes([game EXCEPT !.in = @ \cup {p}])
    /\ UNCHANGED unborn /\ ClientIdle

Appears(i) ==
    /\ i \in unborn
    /\ unborn' = unborn \ {i}
    /\ Becomes([game EXCEPT !.lost = @ \cup {i}])
    /\ UNCHANGED absent /\ ClientIdle

PicksUp(p, i) ==
    /\ p \in game.in /\ i \in game.lost
    /\ Becomes([game EXCEPT !.lost = @ \ {i}, !.bag[p] = @ \cup {i}])
    /\ UNCHANGED <<absent, unborn>> /\ ClientIdle

HandsIn(p) ==
    /\ p \in game.in /\ game.bag[p] # {}
    /\ Becomes([game EXCEPT !.bag[p] = {}])
    /\ UNCHANGED <<absent, unborn>> /\ ClientIdle

\* RemoveAfkPlayers: the dog goes, with its bag.
Retires(p) ==
    /\ p \in game.in
    /\ Becomes([game EXCEPT !.in = @ \ {p}, !.bag[p] = {}])
    /\ UNCHANGED <<absent, unborn>> /\ ClientIdle

\* GetGameState and GetPlayersOnMap.
ListOf(g) == [EmptyGame EXCEPT !.in = g.in \cap Locals]

AnswerState(c) ==
    /\ stateNet[c].phase = "asked"
    /\ Me \in game.in
    /\ stateNet' = [stateNet EXCEPT ![c] = Answered(game)]
    /\ UNCHANGED <<server, listNet, page, loading, ticks, view, listed, disorder>>

AnswerList(c) ==
    /\ listNet[c].phase = "asked"
    /\ listNet' = [listNet EXCEPT ![c] = IF Me \in game.in THEN Answered(ListOf(game)) ELSE Denied]
    /\ UNCHANGED <<server, stateNet, page, loading, ticks, view, listed, disorder>>

-----------------------------------------------------------------------------
(* The scene.                                                              *)

\* The objects a player in the view had before an answer is applied.
Before(p) == IF p \in current.in THEN carried[p] ELSE {}

\* _processLostObjects for a state g: items on the map without an object get
\* one, and the objects of items that are not there any more are abandoned.
Uncovered(g) == g.lost \ ItemsOf(lostObjects)
Abandoned(g) == {o \in lostObjects : ItemOf(o) \notin g.lost}

\* _attachLootToPlayers: what a player carries keeps its object, takes an
\* abandoned one or gets a new one; what is not carried any more is dropped,
\* and so is what nobody took.
KeptAll(g, p) == Before(p)
Kept(g, p) == {o \in Before(p) : ItemOf(o) \in g.bag[p]}
Taken(g, p) == {o \in Abandoned(g) : ItemOf(o) \in g.bag[p] \ ItemsOf(Before(p))}
Missing(g, p) == g.bag[p] \ ItemsOf(Before(p) \cup Abandoned(g))
DroppedTakenToo(g) == (UNION {Before(p) \ Kept(g, p) : p \in g.in}) \cup Abandoned(g)
DroppedBagsOnly(g) == UNION {Before(p) \ Kept(g, p) : p \in g.in}
Dropped(g) ==
    (UNION {Before(p) \ Kept(g, p) : p \in g.in}) \cup (Abandoned(g) \ UNION {Taken(g, p) : p \in g.in})

Created(g) == Uncovered(g) \cup UNION {Missing(g, p) : p \in g.in}
Copies(is) == {<<i, copies[i]>> : i \in is}

\* _applyDesiredState, beside the players ls of the list.  Who is in neither
\* loses his data; an entry of disappearingLoot is overwritten.
ApplyState(g, ls) ==
    /\ lostObjects' = (lostObjects \ Abandoned(g)) \cup Copies(Uncovered(g))
    /\ carried' = [p \in Players |->
           IF p \in g.in THEN Kept(g, p) \cup Taken(g, p) \cup Copies(Missing(g, p))
           ELSE IF p \in ls THEN carried[p] ELSE {}]
    /\ fading' = {o \in fading : ItemOf(o) \notin ItemsOf(Dropped(g))} \cup Dropped(g)
    /\ scene' = scene \cup Copies(Created(g))
    /\ copies' = [i \in Items |-> IF i \in Created(g) THEN copies[i] + 1 ELSE copies[i]]
    /\ current' = g
    /\ disorder' = (disorder \/ g.no < current.no \/ ~(current.in \ g.in \subseteq ls))

NothingApplied ==
    UNCHANGED <<current, lostObjects, carried, fading, copies, disorder>>

-----------------------------------------------------------------------------
(* Callbacks of the requests.                                              *)

\* _updateState's done: after the start the state is applied at once, before
\* it the last piece starts the game.
StateDone(c) ==
    /\ page = "open"
    /\ stateNet[c].phase = "answered"
    /\ stateNet' = [stateNet EXCEPT ![c] = Free]
    /\ LET g == stateNet[c].body
       IN  /\ desired' = g
           /\ IF playersLoaded THEN ApplyState(g, listed) ELSE NothingApplied /\ UNCHANGED scene
    /\ stateLoaded' = TRUE
    /\ UNCHANGED <<server, listNet, page, playersLoaded, ticks, listed>>

\* _deletePlayer takes the actor and the objects of the bag out of the scene.
DeletedAll(ls) == UNION {carried[p] : p \in listed}
Deleted(ls) == UNION {carried[p] : p \in listed \ ls}

\* _syncPlayers' done: _updatePlayersList adds and deletes players, then the
\* last piece starts the game.
ListDone(c) ==
    /\ page = "open"
    /\ listNet[c].phase = "answered"
    /\ listNet' = [listNet EXCEPT ![c] = Free]
    /\ LET ls == listNet[c].body.in
       IN  /\ listed' = ls
           /\ IF stateLoaded /\ ~playersLoaded
              THEN ApplyState(desired, ls)
              ELSE /\ scene' = scene \ Deleted(ls)
                   /\ carried' = [p \in Players |->
                          IF p \in ls \cup current.in THEN carried[p] ELSE {}]
                   /\ disorder' = (disorder \/ (listed \ ls) \cap current.in # {})
                   /\ UNCHANGED <<current, lostObjects, fading, copies>>
    /\ playersLoaded' = TRUE
    /\ UNCHANGED <<server, stateNet, page, stateLoaded, ticks, desired>>

\* Status 401: only the list's callback looks at it and leaves the page.
IsDeniedNever(call) == FALSE
IsDenied(call) == call.phase = "denied"
ListDenied(c) ==
    /\ page = "open"
    /\ IsDenied(listNet[c])
    /\ listNet' = [listNet EXCEPT ![c] = Free]
    /\ page' = "left"
    /\ UNCHANGED <<server, stateNet, loading, ticks, view, listed, disorder>>

\* _updateState has no fail callback, and _syncPlayers' only knows 401:
\* whatever else goes wrong with a request or its answer is not noticed.
StateFails(c) ==
    /\ page = "open"
    /\ stateNet[c].phase = "asked"
    /\ stateNet' = [stateNet EXCEPT ![c] = Free]
    /\ UNCHANGED <<server, listNet, page, loading, ticks, view, listed, disorder>>

ListFails(c) ==
    /\ page = "open"
    /\ listNet[c].phase = "asked"
    /\ listNet' = [listNet EXCEPT ![c] = Free]
    /\ UNCHANGED <<server, stateNet, page, loading, ticks, view, listed, disorder>>

-----------------------------------------------------------------------------
(* A frame.                                                                *)

\* _interpolateState reads currentState.players[id] for every id of
\* desiredState; an exception here ends the chain of requestAnimationFrame.
Readable == desired.in \subseteq current.in

\* What has been fading for a second: anything, since time is left out.
Faded == SUBSET fading

\* tick() every posUpdateInterval: poll, then _processDisappearingLoot takes
\* out what has faded.
Frame ==
    /\ page = "open" /\ started
    /\ ticks' = (ticks + 1) % PlayersInterval
    /\ stateNet' = Send(stateNet)
    /\ IF ticks' = 0 THEN listNet' = Send(listNet) ELSE UNCHANGED listNet
    /\ IF Readable
       THEN \E expired \in Faded :
               /\ fading' = fading \ expired
               /\ scene' = scene \ expired
               /\ UNCHANGED page
       ELSE page' = "broken" /\ UNCHANGED <<fading, scene>>
    /\ UNCHANGED <<server, loading, desired, current, listed, lostObjects, carried, copies, disorder>>

-----------------------------------------------------------------------------
ServerStep ==
    \/ \E p \in Players : Joins(p) \/ HandsIn(p) \/ Retires(p)
    \/ \E i \in Items : Appears(i)
    \/ \E p \in Players, i \in Items : PicksUp(p, i)

ClientStep ==
    \/ \E c \in StateSlots : StateDone(c)
    \/ \E c \in ListSlots : ListDone(c) \/ ListDenied(c)
    \/ Frame

NetStep ==
    \/ \E c \in StateSlots : AnswerState(c) \/ StateFails(c)
    \/ \E c \in ListSlots : AnswerList(c) \/ ListFails(c)

Next == ServerStep \/ ClientStep \/ NetStep

Spec == Init /\ [][Next]_vars

\* Frames go on and time passes in them; requests that are repeated are
\* answered at last, and of the answers that have come one is taken at last.
\* Nobody on the server need do anything, and an answer may come arbitrarily
\* late.
Fairness ==
    /\ WF_vars(Frame /\ fading' = {})
    /\ SF_vars(\E c \in StateSlots : AnswerState(c))
    /\ SF_vars(\E c \in ListSlots : AnswerList(c))
    /\ WF_vars(\E c \in StateSlots : StateDone(c))
    /\ WF_vars(\E c \in ListSlots : ListDone(c) \/ ListDenied(c))

FairSpec == Spec /\ Fairness

-----------------------------------------------------------------------------
TypeOK ==
    /\ game \in Game /\ desired \in Game /\ current \in Game
    /\ absent \subseteq Players /\ unborn \subseteq Items
    /\ stateNet \in [StateSlots -> Call] /\ listNet \in [ListSlots -> Call]
    /\ page \in {"open", "left", "broken"}
    /\ stateLoaded \in BOOLEAN /\ playersLoaded \in BOOLEAN
    /\ ticks \in 0 .. PlayersInterval - 1
    /\ listed \subseteq Players
    /\ lostObjects \subseteq Object /\ fading \subseteq Object /\ scene \subseteq Object
    /\ carried \in [Players -> SUBSET Object]
    /\ copies \in [Items -> Nat]
    /\ disorder \in BOOLEAN

\* No object belongs to two places: on its way from the map into a bag and out
\* of it, whatever order the answers come in, an object is handed on and never
\* shared, so nobody takes away what somebody else still shows.
Keyed(objects) == \A o, q \in objects : ItemOf(o) = ItemOf(q) => o = q
OwnedOnce ==
    /\ Keyed(lostObjects) /\ Keyed(fading)
    /\ lostObjects \cap fading = {}
    /\ \A p \in Players :
          /\ Keyed(carried[p])
          /\ carried[p] \cap (lostObjects \cup fading) = {}
          /\ \A q \in Players \ {p} : carried[p] \cap carried[q] = {}

\* What is shown is what the last answer said: an object in the scene for every
\* item on the map and in every bag the right ones, although the objects are
\* only moved from where the answer before had put them.
MirrorsState ==
    started =>
        /\ ItemsOf(lostObjects) = current.lost
        /\ lostObjects \subseteq scene
        /\ \A p \in current.in : ItemsOf(carried[p]) = current.bag[p]

\* An object stays in the scene for good, with nothing left that would take it
\* away, only if an answer was overtaken by a later one, or if somebody went
\* who was not on the list: a player of another map, one who came and went
\* between two lists, or one whom a list took off before a state without the
\* player came.
LeaksHaveCause ==
    ~disorder => scene \subseteq lostObjects \cup fading \cup UNION {carried[p] : p \in Players}

\* The loot of a player with an actor is visible, unless a list that was
\* overtaken, or came before the state, had taken the player off.
BagsShown ==
    ~disorder => \A p \in listed \cap current.in : carried[p] \subseteq scene

\* Once the game stops changing the page shows it, with its players on the list,
\* and nothing fades any more: no late answer stays and no frame fails.
InStep ==
    /\ current = game
    /\ listed = game.in \cap Locals
    /\ fading = {}
SettlesDown == <>[](started => page = "left" \/ InStep)
=============================================================================
