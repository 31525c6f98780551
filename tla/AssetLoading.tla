---------------------------- MODULE AssetLoading ----------------------------
(***************************************************************************)
(* What a page of the game fetches before it can begin: the model of the   *)
(* dog (loadActor) and one model per loot type of the map (loadLootTypes), *)
(* through THREE.FileLoader, which asks once for a file that several       *)
(* callers want at a time.  Two loot types of a map may share a file.      *)
(*                                                                         *)
(* The default LoadingManager has no listeners, Cache is switched off and  *)
(* nobody passes onError, so what goes wrong with a file stays unnoticed.  *)
(***************************************************************************)
EXTENDS Naturals, FiniteSets

CONSTANTS
    LootTypes,      \* places in map.lootTypes
    Objs,           \* the loot types whose type is 'obj'; the others are skipped
    FileOf,         \* the file of each loot type
    Pug,            \* the file of the dog, assets/pug.fbx
    None            \* undefined, no file

VARIABLES
    asked,              \* gameserverMain has run: the map has been loaded
    loading,            \* FileLoader's loading: who waits for each file
    broken,             \* files that were refused, unreadable or cut off
    loadedActor,        \* the file loadedActor was made from, or None
    loadedLootTypes,    \* the file each entry was made from, or None
    objectsToLoad,      \* the counter of loadLootTypes
    lootTypesLoaded

Files == {FileOf[t] : t \in LootTypes} \cup {Pug}

Init ==
    /\ asked = FALSE
    /\ loading = [f \in Files |-> {}]
    /\ broken = {}
    /\ loadedActor = None
    /\ loadedLootTypes = [t \in LootTypes |-> None]
    /\ objectsToLoad = 0
    /\ lootTypesLoaded = FALSE

\* Who waits for a file after all calls of FileLoader.load: the first call for
\* a file starts the request, the others join the callbacks of the first.
FirstOnly(f) == {CHOOSE t \in Objs : FileOf[t] = f}
Callers(f) == {t \in Objs : FileOf[t] = f}

\* The description of the map has come: gameserverMain asks for all files in
\* one go.
FilesCounted == Cardinality({FileOf[t] : t \in LootTypes})
TypesCounted == Cardinality(LootTypes)
MapLoaded ==
    /\ ~asked
    /\ asked' = TRUE
    /\ loading' = [f \in Files |-> IF f = Pug THEN {Pug} ELSE Callers(f)]
    /\ objectsToLoad' = TypesCounted
    /\ UNCHANGED <<broken, loadedActor, loadedLootTypes, lootTypesLoaded>>

Leaves(f) == loading[f] # {} /\ loading' = [loading EXCEPT ![f] = {}]

\* The dog's file has come and can be parsed.
ActorArrives ==
    /\ Pug \notin broken
    /\ Leaves(Pug)
    /\ loadedActor' = Pug
    /\ UNCHANGED <<asked, broken, loadedLootTypes, objectsToLoad, lootTypesLoaded>>

\* A file of loot types has come: everybody waiting is called with it, and the
\* last of all types sets lootTypesLoaded.
LootArrives(f) ==
    /\ f # Pug /\ f \notin broken
    /\ Leaves(f)
    /\ loadedLootTypes' = [t \in LootTypes |-> IF t \in loading[f] THEN f ELSE loadedLootTypes[t]]
    /\ objectsToLoad' = objectsToLoad - Cardinality(loading[f])
    /\ lootTypesLoaded' = (lootTypesLoaded \/ objectsToLoad' = 0)
    /\ UNCHANGED <<asked, broken, loadedActor>>

\* The server refuses a file, the connection fails, or the parser throws: the
\* waiting callbacks are let go, with nobody to tell.
FileFails(f) ==
    /\ f \notin broken
    /\ Leaves(f)
    /\ broken' = broken \cup {f}
    /\ UNCHANGED <<asked, loadedActor, loadedLootTypes, objectsToLoad, lootTypesLoaded>>

\* The body breaks off: the stream made from it never ends, and the callbacks
\* wait on.
FileStalls(f) ==
    /\ f \notin broken /\ loading[f] # {}
    /\ broken' = broken \cup {f}
    /\ UNCHANGED <<asked, loading, loadedActor, loadedLootTypes, objectsToLoad, lootTypesLoaded>>

Arrives == ActorArrives \/ \E f \in Files : LootArrives(f)

Next == MapLoaded \/ Arrives \/ \E f \in Files : FileFails(f) \/ FileStalls(f)

isReady == loadedActor # None /\ lootTypesLoaded

\* When the page may begin it has the dog and the right model of every loot
\* type, also where types share a file: _createLoot clones the entry of any
\* type the server names without looking whether it is there.
ModelsComplete ==
    isReady =>
        /\ loadedActor = Pug
        /\ \A t \in LootTypes : loadedLootTypes[t] = FileOf[t]
=============================================================================
