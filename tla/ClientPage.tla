----------------------------- MODULE ClientPage -----------------------------
(***************************************************************************)
(* A page of the game from its request to play: game.html loads the map,   *)
(* gameserverMain asks for the models, the render loop creates the         *)
(* GameState once they are there, and only then setupKeyEvents listens to  *)
(* the keyboard.  What the GameState does with the answers of the server   *)
(* is the subject of GameClient.                                           *)
(***************************************************************************)
EXTENDS Naturals, FiniteSets

CONSTANTS LootTypes, Objs, FileOf, Pug, None, Keys, MaxPosts

\* GameBegins is promised for a map with loot types, all of type 'obj': of
\* another map no page ever begins.
ASSUME PageAssumption ==
    /\ IsFiniteSet(LootTypes) /\ LootTypes # {}
    /\ Objs = LootTypes
    /\ {Pug, None} \cap {FileOf[t] : t \in LootTypes} = {}
    /\ MaxPosts \in Nat \ {0}

VARIABLES
    asked, loading, broken, loadedActor, loadedLootTypes, objectsToLoad, lootTypesLoaded,
    pressedKeys, posts, move, held, unseen, newest,
    gameState       \* gameState exists and the page listens to the keyboard

Assets == INSTANCE AssetLoading
Keyboard == INSTANCE KeyState

assets == <<asked, loading, broken, loadedActor, loadedLootTypes, objectsToLoad, lootTypesLoaded>>
keyVars == <<pressedKeys, posts, move, held, unseen, newest>>
vars == <<assets, keyVars, gameState>>

Init ==
    /\ Assets!Init
    /\ Keyboard!Init
    /\ gameState = FALSE

Load == Assets!Next /\ UNCHANGED <<keyVars, gameState>>

\* The frame that finds everything loaded; other frames change nothing here.
CreateGame ==
    /\ asked /\ ~gameState
    /\ Assets!isReady
    /\ gameState' = TRUE
    /\ UNCHANGED <<assets, keyVars>>

\* Before the page listens all events are missed, later only releases are.
UseKeys ==
    /\ \/ gameState /\ (Keyboard!KeyEvent \/ \E key \in Keys : Keyboard!ReleaseMissed(key))
       \/ ~gameState /\ Keyboard!KeyMissed
    /\ UNCHANGED <<assets, gameState>>

Post == Keyboard!PostStep /\ UNCHANGED <<assets, gameState>>

Next == Load \/ CreateGame \/ UseKeys \/ Post

Spec == Init /\ [][Next]_vars

\* The map is described, each file that nothing happens to arrives, frames go on.
Fairness ==
    /\ WF_vars(Load /\ Assets!MapLoaded)
    /\ WF_vars(Load /\ Assets!Arrives)
    /\ WF_vars(CreateGame)

FairSpec == Spec /\ Fairness

-----------------------------------------------------------------------------
\* The models are complete before anything is made of them.
ModelsComplete == Assets!ModelsComplete /\ (gameState => Assets!isReady)

MoveIsLastKey == Keyboard!MoveIsLastKey

\* The game begins unless a file is broken: for that it need not be known in
\* which order the files come, nor which of them are shared.
GameBegins == <>(gameState \/ broken # {})
=============================================================================
