---------------------------- MODULE ActorTurning ----------------------------
(***************************************************************************)
(* How the page turns the actor of one player: an answer is applied with   *)
(* GameState::_interpolateRotation of static/js/game.js, and every frame   *)
(* shows converted_dir with moveActor.                                     *)
(*                                                                         *)
(* Angles are whole steps, of which a quarter turn has Quarter and an      *)
(* actor turns one per unit of time.  They are not reduced to one turn: a  *)
(* turn that is interrupted again and again leaves 0 .. FullTurn, as in    *)
(* the code.  Requests for the state are answered and overtaken as in      *)
(* GameClient.  Positions and speeds are left out.                         *)
(***************************************************************************)
EXTENDS Integers

CONSTANTS
    Moves,          \* the directions a dog takes, of "U", "R", "D" and "L"
    Quarter,        \* steps of a quarter turn
    StateSlots      \* bound: how many requests for the state are under way

ASSUME TurningAssumption ==
    /\ Quarter \in Nat \ {0}
    /\ Moves \subseteq {"U", "R", "D", "L"}

HalfTurn == 2 * Quarter
FullTurn == 4 * Quarter

VARIABLES
    dir,            \* the angle of the dog on the server
    calls,          \* requests for the state under way, and their answers
    known,          \* an answer has been applied: the next ones have an old one
    desired_dir, base_dir, converted_dir,   \* of currentState.players[id]
    sinceDir        \* the time since dir_time, up to LongAgo

turn == <<known, desired_dir, base_dir, converted_dir>>
turningVars == <<dir, calls, turn, sinceDir>>

-----------------------------------------------------------------------------
convDirection == [D |-> 0, R |-> Quarter, U |-> HalfTurn, L |-> 3 * Quarter]
Directions == {convDirection[m] : m \in Moves}

\* Bound: no turn takes longer.
LongAgo == HalfTurn + 1

Abs(n) == IF n < 0 THEN -n ELSE n

rot_delta(from, to) == to - from

\* Which way, and how far.
rot_dirNearest(from, to) == IF rot_delta(from, to) >= 0 THEN 1 ELSE -1
rot_dir(from, to) ==
    LET delta == rot_delta(from, to)
    IN  IF delta <= -HalfTurn \/ (0 <= delta /\ delta < HalfTurn) THEN 1 ELSE -1

real_rot_delta(from, to) ==
    LET delta == Abs(rot_delta(from, to))
    IN  IF delta >= HalfTurn THEN FullTurn - delta ELSE delta

\* The angle after a time under way.
Turned(from, to, time) ==
    IF time > real_rot_delta(from, to) THEN to ELSE from + rot_dir(from, to) * time

\* The way between two angles on the circle.
Way(from, to) ==
    LET around == (to - from) % FullTurn
    IN  IF around <= HalfTurn THEN around ELSE FullTurn - around

-----------------------------------------------------------------------------
Free == [phase |-> "free"]
Asked == [phase |-> "asked"]
Answered(d) == [phase |-> "answered", dir |-> d]

TurningInit ==
    /\ dir \in Directions
    /\ calls = [c \in StateSlots |-> Free]
    /\ known = FALSE /\ desired_dir = 0 /\ base_dir = 0 /\ converted_dir = 0
    /\ sinceDir = 0

\* The server: MovePlayer.
DogTurns ==
    /\ dir' \in Directions \ {dir}
    /\ UNCHANGED <<calls, turn, sinceDir>>

AnswerState(c) ==
    /\ calls[c] = Asked
    /\ calls' = [calls EXCEPT ![c] = Answered(dir)]
    /\ UNCHANGED <<dir, turn, sinceDir>>

StateFails(c) ==
    /\ calls[c] = Asked
    /\ calls' = [calls EXCEPT ![c] = Free]
    /\ UNCHANGED <<dir, turn, sinceDir>>

\* _applyDesiredState: the first answer sets the angles; a change of direction
\* starts a turn from where the last one has come to; otherwise the turn goes on
\* from where and when it started.
GoesNever(newDir) == FALSE
Goes(newDir) == known /\ desired_dir = newDir
Restarted(newDir) == 0
Since(newDir) == IF Goes(newDir) THEN sinceDir ELSE 0
Base(newDir) == IF Goes(newDir) THEN base_dir ELSE IF known THEN converted_dir ELSE newDir
Converted(newDir) ==
    IF Goes(newDir) THEN Turned(base_dir, desired_dir, sinceDir)
    ELSE IF known THEN converted_dir ELSE newDir

StateDone(c) ==
    /\ calls[c].phase = "answered"
    /\ calls' = [calls EXCEPT ![c] = Free]
    /\ LET newDir == calls[c].dir
       IN  /\ desired_dir' = newDir
           /\ base_dir' = Base(newDir)
           /\ converted_dir' = Converted(newDir)
           /\ sinceDir' = Since(newDir)
    /\ known' = TRUE
    /\ UNCHANGED dir

\* A frame: time passes, and the next request may be due.
Frame ==
    /\ sinceDir' = IF sinceDir < LongAgo THEN sinceDir + 1 ELSE LongAgo
    /\ \/ \E c \in StateSlots : calls[c] = Free /\ calls' = [calls EXCEPT ![c] = Asked]
       \/ UNCHANGED calls
    /\ UNCHANGED <<dir, turn>>

TurningNext ==
    \/ DogTurns
    \/ \E c \in StateSlots : AnswerState(c) \/ StateFails(c) \/ StateDone(c)
    \/ Frame

TurningSpec == TurningInit /\ [][TurningNext]_turningVars

\* Time passes, the page goes on asking, and requests are answered at last.
TurningFairness ==
    /\ WF_turningVars(Frame)
    /\ WF_turningVars(Frame /\ calls' # calls)
    /\ SF_turningVars(\E c \in StateSlots : AnswerState(c))
    /\ WF_turningVars(\E c \in StateSlots : StateDone(c))

FairTurningSpec == TurningSpec /\ TurningFairness

-----------------------------------------------------------------------------
\* However often a turn is interrupted by another, and in whatever order the
\* answers come, the actor is on the shorter way from where the turn began to
\* where it shall look, or there: although the angles have left the circle that
\* _interpolateRotation reckons with.
TurnIsShortest ==
    \/ converted_dir = desired_dir
    \/ Way(base_dir, converted_dir) + Way(converted_dir, desired_dir) = Way(base_dir, desired_dir)

\* An actor never turns away from where it shall look.
NeverTurnsAway ==
    [][desired_dir' = desired_dir /\ known =>
          Way(converted_dir', desired_dir) <= Way(converted_dir, desired_dir)]_turningVars

\* Once the dog keeps its direction the actor comes to look there too: no turn
\* stays unfinished, and no overtaken answer has the last word.
InStep == Way(converted_dir, dir) = 0
ActorFollows == []<><<DogTurns>>_turningVars \/ <>[]InStep
=============================================================================
