---------------------------- MODULE ServerRuntime ----------------------------
(***************************************************************************)
(* The life of the server process: the threads that run the io_context     *)
(* (main.cpp), the strand on which the API, the tickers and the save at    *)
(* shutdown run (request_handler.h, ticker.cpp, application.cpp), and the  *)
(* HTTP connections (http_server).                                         *)
(*                                                                         *)
(* What a job on the strand does to the game is left to GameRegistry and   *)
(* GameSession; here it takes time, and ends normally or by an exception.  *)
(* A thread that leaves io_context::run by an exception is fatal for the   *)
(* process if it is one of the jthreads; if it is the main thread,         *)
(* RunWorkers joins the others, which serve on.                            *)
(*                                                                         *)
(* The strand is a library class, modelled with its two queues: jobs that  *)
(* come while it is locked wait, and its next turn is posted to the        *)
(* io_context when the present one ends.  Definitions named after a slip   *)
(* (UnwindCaught) are plausible bugs of those which follow them.       *)
(***************************************************************************)
EXTENDS Naturals, Sequences, FiniteSets

CONSTANTS
    Threads,      \* the threads that run the io_context
    Main,         \* the main thread, one of them
    Connections,  \* places for connections that are open at a time
    Tickers,      \* the tickers: always the loot ticker, maybe the game's
    Save          \* the job ForceSave dispatches

ASSUME RuntimeAssumption ==
    /\ Main \in Threads
    /\ Connections \cap Tickers = {}
    /\ Save \notin Connections \cup Tickers

Jobs == Connections \cup Tickers \cup {Save}

VARIABLES
    pc,         \* where each thread is, see Places
    locked,     \* strand: it has a turn, running or posted
    posted,     \* strand: its turn waits in the io_context for a thread
    ready,      \* strand: jobs of the present turn
    waiting,    \* strand: jobs of the next turn
    ticker,     \* timers: "armed", "queued" (expired, job on the strand), "dead"
    conn,       \* connections: "reading", "queued", "writing", "closed"
    listening,  \* an accept is pending
    signal,     \* SIGINT or SIGTERM: "none", "raised", "taken" by its handler
    stopped,    \* io_context::stop was called, or it ran out of work
    exit        \* "no", "success", "failure" (caught in main), "terminated"

strand == <<locked, posted, ready, waiting>>
vars == <<pc, locked, posted, ready, waiting, ticker, conn, listening, signal, stopped, exit>>

\* "run": in io_context::run without a handler.  "turn": runs the strand's
\* jobs.  "save": the same, inside the signal handler.  "stop": the signal
\* handler before ioc.stop().  "joining": the main thread, thrown out of run.
\* "left": returned from run.
Places == {"run", "turn", "save", "stop", "joining", "left"}
InTurn(t) == pc[t] \in {"turn", "save"}

Init ==
    /\ pc = [t \in Threads |-> "run"]
    /\ locked = FALSE /\ posted = FALSE
    /\ ready = <<>> /\ waiting = <<>>
    /\ ticker = [k \in Tickers |-> "armed"]
    /\ conn = [c \in Connections |-> "closed"]
    /\ listening = TRUE /\ signal = "none"
    /\ stopped = FALSE /\ exit = "no"

\* A thread that can take the next handler from the io_context.
Free(t) == exit = "no" /\ pc[t] = "run" /\ ~stopped

Goto(t, place) == pc' = [pc EXCEPT ![t] = place]

\* An exception leaves the thread's run().
UnwindCaught(t) == Goto(t, "run") /\ UNCHANGED exit
Unwind(t) ==
    IF t = Main
    THEN Goto(t, "joining") /\ UNCHANGED exit
    ELSE exit' = "terminated" /\ UNCHANGED pc

-----------------------------------------------------------------------------
(* The strand.                                                             *)

\* net::dispatch(strand, job) by a thread of the io_context: a free strand
\* runs the job at once, inside the call.
Dispatch(t, job, inside, after) ==
    IF locked
    THEN /\ waiting' = Append(waiting, job)
         /\ Goto(t, after)
         /\ UNCHANGED <<locked, posted, ready>>
    ELSE /\ ready' = <<job>> /\ locked' = TRUE
         /\ Goto(t, inside)
         /\ UNCHANGED <<posted, waiting>>

\* The end of a turn with the jobs rest still to do.
EndTurn(rest) ==
    /\ ready' = rest /\ waiting' = <<>>
    /\ locked' = (rest # <<>>) /\ posted' = (rest # <<>>)

TakeTurn(t) ==
    /\ Free(t) /\ posted
    /\ posted' = FALSE
    /\ Goto(t, "turn")
    /\ UNCHANGED <<locked, ready, waiting, ticker, conn, listening, signal, stopped, exit>>

\* The first job of the turn ends normally: a ticker arms its timer again, a
\* request has sent its answer with async_write.
EndJobSilent(t) ==
    /\ exit = "no" /\ InTurn(t) /\ ready # <<>>
    /\ ready' = Tail(ready)
    /\ ticker' = [k \in Tickers |-> IF k = Head(ready) THEN "armed" ELSE ticker[k]]
    /\ UNCHANGED <<pc, locked, posted, waiting, conn, listening, signal, stopped, exit>>
EndJob(t) ==
    /\ exit = "no" /\ InTurn(t) /\ ready # <<>>
    /\ ready' = Tail(ready)
    /\ ticker' = [k \in Tickers |-> IF k = Head(ready) THEN "armed" ELSE ticker[k]]
    /\ conn' = [c \in Connections |-> IF c = Head(ready) THEN "writing" ELSE conn[c]]
    /\ UNCHANGED <<pc, locked, posted, waiting, listening, signal, stopped, exit>>

\* The first job of the turn throws: its ticker is not armed again, its
\* connection is dropped with the request, and the strand keeps the others.
JobThrows(t) ==
    /\ exit = "no" /\ InTurn(t) /\ ready # <<>>
    /\ EndTurn(Tail(ready) \o waiting)
    /\ ticker' = [k \in Tickers |-> IF k = Head(ready) THEN "dead" ELSE ticker[k]]
    /\ conn' = [c \in Connections |-> IF c = Head(ready) THEN "closed" ELSE conn[c]]
    /\ Unwind(t)
    /\ UNCHANGED <<listening, signal, stopped>>

LeaveTurn(t) ==
    /\ exit = "no" /\ InTurn(t) /\ ready = <<>>
    /\ EndTurn(waiting)
    /\ Goto(t, IF pc[t] = "save" THEN "stop" ELSE "run")
    /\ UNCHANGED <<ticker, conn, listening, signal, stopped, exit>>

\* A timer expires; its completion handler is bound to the strand.
OnTick(t, k) ==
    /\ Free(t) /\ ticker[k] = "armed"
    /\ ticker' = [ticker EXCEPT ![k] = "queued"]
    /\ Dispatch(t, k, "turn", "run")
    /\ UNCHANGED <<conn, listening, signal, stopped, exit>>

-----------------------------------------------------------------------------
(* Connections.                                                            *)

SetConn(c, state) == conn' = [conn EXCEPT ![c] = state]

\* Accept, and the next accept; after an error nothing listens any more.
OnAccept(t, c) ==
    /\ Free(t) /\ listening
    /\ \/ conn[c] = "closed" /\ SetConn(c, "reading") /\ UNCHANGED listening
       \/ listening' = FALSE /\ UNCHANGED conn
    /\ UNCHANGED <<pc, strand, ticker, signal, stopped, exit>>

\* Close shuts the socket down, which throws if the peer is gone; reading the
\* peer's address for the log does the same.
Hangup(t, c) ==
    /\ SetConn(c, "closed")
    /\ Unwind(t) \/ UNCHANGED <<pc, exit>>

\* A request was read.  One for the API is dispatched to the strand.
ReadRequestDirect(t, c) ==
    /\ Free(t) /\ conn[c] = "reading"
    /\ SetConn(c, "queued")
    /\ ready' = Append(ready, c) /\ locked' = TRUE
    /\ Goto(t, "turn")
    /\ UNCHANGED <<posted, waiting, ticker, listening, signal, stopped, exit>>
ReadRequest(t, c) ==
    /\ Free(t) /\ conn[c] = "reading"
    /\ SetConn(c, "queued")
    /\ Dispatch(t, c, "turn", "run")
    /\ UNCHANGED <<ticker, listening, signal, stopped, exit>>

\* A file is answered at once; an error or the timeout ends the session.
OnRead(t, c) ==
    \/ ReadRequest(t, c)
    \/ /\ Free(t) /\ conn[c] = "reading"
       /\ \/ SetConn(c, "writing") /\ UNCHANGED <<pc, exit>>
          \/ Hangup(t, c)
       /\ UNCHANGED <<strand, ticker, listening, signal, stopped>>

\* The answer is written: the next request is read, or the session ends.
OnWrite(t, c) ==
    /\ Free(t) /\ conn[c] = "writing"
    /\ \/ SetConn(c, "reading") /\ UNCHANGED <<pc, exit>>
       \/ Hangup(t, c)
    /\ UNCHANGED <<strand, ticker, listening, signal, stopped>>

-----------------------------------------------------------------------------
(* The end.                                                                *)

RaiseSignal ==
    /\ exit = "no" /\ signal = "none" /\ signal' = "raised"
    /\ UNCHANGED <<pc, strand, ticker, conn, listening, stopped, exit>>

\* The handler of the signals, asked for once: ForceSave, then ioc.stop().
OnSignalSaveOnly(t) ==
    /\ Free(t) /\ signal = "raised"
    /\ signal' = "taken"
    /\ Dispatch(t, Save, "save", "run")
    /\ UNCHANGED <<ticker, conn, listening, stopped, exit>>
OnSignal(t) ==
    /\ Free(t) /\ signal = "raised"
    /\ signal' = "taken"
    /\ Dispatch(t, Save, "save", "stop")
    /\ UNCHANGED <<ticker, conn, listening, stopped, exit>>

Stop(t) ==
    /\ exit = "no" /\ pc[t] = "stop"
    /\ stopped' = TRUE
    /\ Goto(t, "run")
    /\ UNCHANGED <<strand, ticker, conn, listening, signal, exit>>

\* No operation is pending, so run() returns by itself.
OutOfWork ==
    /\ \A t \in Threads : pc[t] \in {"run", "left", "joining"}
    /\ ~locked /\ ~listening /\ signal = "taken"
    /\ \A k \in Tickers : ticker[k] = "dead"
    /\ \A c \in Connections : conn[c] = "closed"

LeaveRun(t) ==
    /\ exit = "no" /\ pc[t] = "run"
    /\ stopped \/ OutOfWork
    /\ stopped' = TRUE
    /\ Goto(t, "left")
    /\ UNCHANGED <<strand, ticker, conn, listening, signal, exit>>

\* RunWorkers has joined the other threads; main returns or catches.
Exit ==
    /\ exit = "no" /\ pc[Main] \in {"left", "joining"}
    /\ \A t \in Threads \ {Main} : pc[t] = "left"
    /\ exit' = IF pc[Main] = "left" THEN "success" ELSE "failure"
    /\ UNCHANGED <<pc, strand, ticker, conn, listening, signal, stopped>>

-----------------------------------------------------------------------------
Turn(t) == EndJob(t) \/ JobThrows(t) \/ LeaveTurn(t)

ThreadStep(t) ==
    \/ TakeTurn(t) \/ Turn(t)
    \/ \E k \in Tickers : OnTick(t, k)
    \/ \E c \in Connections : OnAccept(t, c) \/ OnRead(t, c) \/ OnWrite(t, c)
    \/ OnSignal(t) \/ Stop(t) \/ LeaveRun(t)

Next == RaiseSignal \/ Exit \/ \E t \in Threads : ThreadStep(t)

Spec == Init /\ [][Next]_vars

\* Handlers end, and the io_context hands out what is due in the order it
\* came, so no handler is passed over for ever.  Nothing is assumed about
\* timers, clients and signals.
Fairness ==
    /\ \A t \in Threads : WF_vars(Turn(t)) /\ WF_vars(Stop(t)) /\ WF_vars(LeaveRun(t))
    /\ WF_vars(\E t \in Threads : TakeTurn(t))
    /\ SF_vars(\E t \in Threads : OnSignal(t))
    /\ WF_vars(Exit)

FairSpec == Spec /\ Fairness

-----------------------------------------------------------------------------
(* Properties.                                                             *)

TypeOK ==
    /\ pc \in [Threads -> Places]
    /\ \A t \in Threads : pc[t] = "joining" => t = Main
    /\ locked \in BOOLEAN /\ posted \in BOOLEAN
    /\ ready \in Seq(Jobs) /\ waiting \in Seq(Jobs)
    /\ ticker \in [Tickers -> {"armed", "queued", "dead"}]
    /\ conn \in [Connections -> {"reading", "queued", "writing", "closed"}]
    /\ listening \in BOOLEAN /\ stopped \in BOOLEAN
    /\ signal \in {"none", "raised", "taken"}
    /\ exit \in {"no", "success", "failure", "terminated"}

\* No two handlers of the game run at a time, whoever of the clients, tickers
\* and the signal brings them: what the game, with no lock of its own, rests on.
OneAtATime == \A t, u \in Threads : InTurn(t) /\ InTurn(u) => t = u

\* A ticker has a job on the strand exactly when its timer has expired and was
\* not armed again, a connection exactly when its request was read and is not
\* answered, and never two: no tick is doubled, and no connection reads on
\* before the strand has answered it.
Queue == ready \o waiting
Queued(job) == \E i \in DOMAIN Queue : Queue[i] = job
JobsMatch ==
    /\ \A i, j \in DOMAIN Queue : Queue[i] = Queue[j] => i = j
    /\ \A k \in Tickers : Queued(k) <=> ticker[k] = "queued"
    /\ \A c \in Connections : Queued(c) <=> conn[c] = "queued"

\* The strand with its two queues, whoever dispatches to it and whatever
\* throws on it, serves the jobs in the order they came: a tick, a request and
\* the save at shutdown cannot overtake each other.
Strand == INSTANCE JobQueue WITH queue <- Queue
InOrder == Strand!Spec

\* A ticker whose handler threw is never armed again.  No worker thread can
\* leave a server behind that serves on without it: the process is gone.  Only
\* if the main thread was the one, or had left run() before, do the others go
\* on serving without the ticker, until a signal; the exit code then says so.
TickersLive ==
    (\E k \in Tickers : ticker[k] = "dead") =>
        pc[Main] = "joining" \/ exit \in {"failure", "terminated"}

\* A request on the strand is answered or dropped unless the process stops.
RequestsAnswered ==
    \A c \in Connections : conn[c] = "queued" ~> (conn[c] # "queued" \/ stopped \/ exit # "no")

\* A signal ends the process, unless its save threw on the main thread: then
\* ioc.stop() is not reached, the other threads serve on, and no further
\* signal is listened for.  Where the main thread had left before, by a
\* handler's exception, the signal still ends the process.
SaveLeftMain ==
    /\ pc[Main] = "joining" /\ signal = "taken" /\ ~stopped
    /\ \A t \in Threads : pc[t] \notin {"save", "stop"}
SignalEnds == signal = "raised" ~> (exit # "no" \/ SaveLeftMain)
=============================================================================
