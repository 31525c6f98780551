------------------------------ MODULE KeyState ------------------------------
(***************************************************************************)
(* From the keyboard to the dog: class KeyState of game.js, the handlers   *)
(* of setupKeyEvents, and the requests they post.                          *)
(*                                                                         *)
(* Every change of the pressed keys posts the last of them, or nothing, as *)
(* the dog's new move.  The requests are not queued: several are under way *)
(* at once, reach the server in any order, and one that fails is neither   *)
(* noticed nor repeated.  The page does not see the keyboard but its       *)
(* events: it misses what happens before it listens, and the release of a  *)
(* key while another window has the focus.                                 *)
(***************************************************************************)
EXTENDS Naturals, Sequences, SequencesExt

CONSTANTS
    Keys,           \* a subset of "U", "R", "D", "L"
    MaxPosts        \* bound: how many requests are under way at once

Stop == ""

VARIABLES
    pressedKeys,    \* KeyState::pressedKeys
    posts,          \* the moves of the requests under way, in the order sent
    move,           \* the move of the dog on the server
    \* history, read by properties only
    held,           \* the keys held down, in the order they were pressed
    unseen,         \* keys of which an event was missed, until they are released
    newest          \* what became of the last request

Init ==
    /\ pressedKeys = <<>> /\ posts = <<>> /\ held = <<>>
    /\ move = Stop
    /\ unseen = {}
    /\ newest = "handled"

getFirstKey(keys) == IF keys = <<>> THEN Stop ELSE Head(keys)
getLastKey(keys) == IF keys = <<>> THEN Stop ELSE Last(keys)

\* KeyState::keyDown and keyUp: FALSE if the key was known to be down, or up.
isUp(key) == ~Contains(pressedKeys, key)

\* GameState::_pressKey.
Press(keys) ==
    /\ pressedKeys' = keys
    /\ posts' = Append(posts, getLastKey(keys))
    /\ newest' = "under way"
    /\ UNCHANGED move
NoPress == UNCHANGED <<pressedKeys, posts, newest, move>>

keyDown(key) == IF isUp(key) THEN Press(Append(pressedKeys, key)) ELSE NoPress
keyUp(key) == IF isUp(key) THEN NoPress ELSE Press(RemoveFirst(pressedKeys, key))

MayPost == Len(posts) < MaxPosts

\* A key goes down, or comes up, and the page hears of it.
KeyPressed(key) ==
    /\ MayPost
    /\ ~Contains(held, key)
    /\ held' = Append(held, key)
    /\ keyDown(key)
    /\ UNCHANGED unseen

KeyReleased(key) ==
    /\ MayPost
    /\ Contains(held, key)
    /\ held' = RemoveFirst(held, key)
    /\ keyUp(key)
    /\ unseen' = unseen \ {key}

\* The keyboard repeats the key pressed last while it is held.
KeyRepeated ==
    /\ MayPost
    /\ held # <<>>
    /\ keyDown(Last(held))
    /\ unseen' = IF isUp(Last(held)) THEN unseen \ {Last(held)} ELSE unseen
    /\ UNCHANGED held

\* A key goes down before the page listens, or comes up while it does not.
PressMissed(key) ==
    /\ ~Contains(held, key)
    /\ held' = Append(held, key)
    /\ unseen' = unseen \cup {key}
    /\ NoPress

ReleaseMissed(key) ==
    /\ Contains(held, key)
    /\ held' = RemoveFirst(held, key)
    /\ unseen' = IF isUp(key) THEN unseen \ {key} ELSE unseen \cup {key}
    /\ NoPress

\* ApiHandler::MovePlayer handles one of the requests.
PostHandled(n) ==
    /\ n \in DOMAIN posts
    /\ move' = posts[n]
    /\ posts' = RemoveAt(posts, n)
    /\ newest' = IF newest = "under way" /\ n = Len(posts) THEN "handled"
                 ELSE IF newest = "handled" THEN "overtaken"
                 ELSE newest
    /\ UNCHANGED <<pressedKeys, held, unseen>>

\* A request fails: _pressKey has no fail callback.
PostFails(n) ==
    /\ n \in DOMAIN posts
    /\ posts' = RemoveAt(posts, n)
    /\ newest' = IF newest = "under way" /\ n = Len(posts) THEN "lost" ELSE newest
    /\ UNCHANGED <<pressedKeys, move, held, unseen>>

KeyEvent == KeyRepeated \/ \E key \in Keys : KeyPressed(key) \/ KeyReleased(key)
KeyMissed == \E key \in Keys : PressMissed(key) \/ ReleaseMissed(key)
PostStep == \E n \in 1 .. MaxPosts : PostHandled(n) \/ PostFails(n)

\* The dog goes where the key held that was pressed last points, and stands
\* when none is held, as soon as the last request of all has been handled last:
\* whatever happened to the requests before it, and even if events were missed,
\* once the keys concerned have been released.
MoveIsLastKey ==
    (newest = "handled" /\ unseen = {}) => move = IF held = <<>> THEN Stop ELSE Last(held)
=============================================================================
