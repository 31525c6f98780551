------------------------- MODULE ServerRuntimeProofs -------------------------
(***************************************************************************)
(* Proofs about ServerRuntime, for any number of threads, connections and  *)
(* tickers: one job of the game runs at a time, jobs match the states of   *)
(* their tickers and connections, and the strand implements JobQueue.      *)
(***************************************************************************)
EXTENDS ServerRuntime, SequenceTheorems, TLAPS

USE RuntimeAssumption

-----------------------------------------------------------------------------
(* Lemmas about sequences.                                                 *)

Once(q) == \A i, j \in DOMAIN q : q[i] = q[j] => i = j
In(q, x) == \E i \in DOMAIN q : q[i] = x

\* Append adds one element at the end and keeps the others apart.
LEMMA AppendOnce ==
    ASSUME NEW S, NEW q \in Seq(S), NEW x \in S, Once(q), ~In(q, x)
    PROVE  /\ Once(Append(q, x))
           /\ \A y : In(Append(q, x), y) <=> In(q, y) \/ y = x
  <1> DEFINE r == Append(q, x)
  <1>1. /\ DOMAIN q = 1 .. Len(q) /\ Len(q) \in Nat
        /\ DOMAIN r = 1 .. Len(q) + 1
        /\ \A i \in DOMAIN q : r[i] = q[i]
        /\ r[Len(q) + 1] = x
    BY AppendProperties, LenProperties
  <1> HIDE DEF r
  <1>2. Once(r)
    BY <1>1 DEF Once, In
  <1>3. ASSUME NEW y PROVE In(r, y) <=> In(q, y) \/ y = x
    BY <1>1 DEF In
  <1> QED
    BY <1>2, <1>3 DEF r

\* Tail takes one element away.
LEMMA TailOnce ==
    ASSUME NEW S, NEW q \in Seq(S), q # <<>>, Once(q)
    PROVE  /\ Once(Tail(q))
           /\ \A y : In(Tail(q), y) <=> In(q, y) /\ y # Head(q)
  <1> DEFINE r == Tail(q)
  <1>1. /\ DOMAIN q = 1 .. Len(q) /\ Len(q) \in Nat \ {0}
        /\ DOMAIN r = 1 .. Len(q) - 1
        /\ \A i \in DOMAIN r : r[i] = q[i + 1]
        /\ Head(q) = q[1]
    BY HeadTailProperties, LenProperties, EmptySeq
  <1> HIDE DEF r
  <1>2. Once(r)
    BY <1>1 DEF Once
  <1>3. ASSUME NEW y, In(r, y) PROVE In(q, y) /\ y # Head(q)
    BY <1>1, <1>3 DEF In, Once
  <1>4. ASSUME NEW y, In(q, y), y # Head(q) PROVE In(r, y)
    <2>1. PICK i \in DOMAIN q : q[i] = y
      BY <1>4 DEF In
    <2>2. i - 1 \in DOMAIN r /\ r[i - 1] = y
      BY <1>1, <1>4, <2>1
    <2> QED
      BY <2>2 DEF In
  <1> QED
    BY <1>2, <1>3, <1>4 DEF r

\* What goes to the end of the second queue goes to the end of both.
LEMMA AppendConcat ==
    ASSUME NEW S, NEW q \in Seq(S), NEW r \in Seq(S), NEW x \in S
    PROVE  q \o Append(r, x) = Append(q \o r, x)
  <1>1. /\ Append(r, x) = r \o <<x>> /\ <<x>> \in Seq(S)
        /\ q \o r \in Seq(S)
    BY AppendIsConcat, ConcatProperties
  <1>2. Append(q \o r, x) = (q \o r) \o <<x>>
    BY <1>1, AppendIsConcat
  <1> QED
    BY <1>1, <1>2, ConcatAssociative

\* What leaves the first queue leaves the front of both.
LEMMA TailConcat ==
    ASSUME NEW S, NEW q \in Seq(S), NEW r \in Seq(S), q # <<>>
    PROVE  /\ q \o r # <<>>
           /\ Head(q \o r) = Head(q)
           /\ Tail(q \o r) = Tail(q) \o r
  <1>1. /\ Len(q) \in Nat \ {0} /\ Len(r) \in Nat /\ q \o r \in Seq(S)
        /\ Len(q \o r) = Len(q) + Len(r)
        /\ \A i \in 1 .. Len(q) + Len(r) :
              (q \o r)[i] = IF i <= Len(q) THEN q[i] ELSE r[i - Len(q)]
    BY ConcatProperties, EmptySeq, LenProperties
  <1>2. q \o r # <<>>
    BY <1>1, EmptySeq
  <1>3. Head(q \o r) = Head(q)
    BY <1>1, <1>2, SMT
  <1>4. /\ Tail(q) \in Seq(S) /\ Len(Tail(q)) = Len(q) - 1
        /\ \A i \in 1 .. Len(q) - 1 : Tail(q)[i] = q[i + 1]
        /\ Tail(q \o r) \in Seq(S) /\ Len(Tail(q \o r)) = Len(q) + Len(r) - 1
        /\ \A i \in 1 .. Len(q) + Len(r) - 1 : Tail(q \o r)[i] = (q \o r)[i + 1]
    BY <1>1, <1>2, HeadTailProperties
  <1>5. /\ Tail(q) \o r \in Seq(S)
        /\ Len(Tail(q) \o r) = Len(q) - 1 + Len(r)
        /\ \A i \in 1 .. Len(q) - 1 + Len(r) :
              (Tail(q) \o r)[i] = IF i <= Len(q) - 1 THEN Tail(q)[i] ELSE r[i - (Len(q) - 1)]
    BY <1>4, ConcatProperties
  <1>6. \A i \in 1 .. Len(q) + Len(r) - 1 : Tail(q \o r)[i] = (Tail(q) \o r)[i]
    <2> TAKE i \in 1 .. Len(q) + Len(r) - 1
    <2>1. Tail(q \o r)[i] = (q \o r)[i + 1] /\ i + 1 \in 1 .. Len(q) + Len(r)
      BY <1>1, <1>4
    <2>2. CASE i + 1 <= Len(q)
      BY <1>1, <1>4, <1>5, <2>1, <2>2
    <2>3. CASE i + 1 > Len(q)
      <3>1. (q \o r)[i + 1] = r[i + 1 - Len(q)]
        BY <1>1, <2>1, <2>3
      <3>2. (Tail(q) \o r)[i] = r[i - (Len(q) - 1)]
        BY <1>1, <1>5, <2>3
      <3>3. i + 1 - Len(q) = i - (Len(q) - 1)
        BY <1>1
      <3> QED
        BY <2>1, <3>1, <3>2, <3>3
    <2> QED
      BY <1>1, <2>2, <2>3
  <1> QED
    BY <1>1, <1>2, <1>3, <1>4, <1>5, <1>6, SeqEqual

-----------------------------------------------------------------------------
(* The inductive invariant.                                                *)

\* While the process lives, the lock of the strand is held for exactly one
\* turn, by a thread or in the queue of the io_context, and a strand that is
\* not locked has no jobs.
StrandControl ==
    /\ exit = "no" => (locked <=> (posted \/ \E t \in Threads : InTurn(t)))
    /\ exit = "no" /\ posted => \A t \in Threads : ~InTurn(t)
    /\ ~locked => ready = <<>> /\ waiting = <<>>

\* The save of ForceSave is dispatched once, by the one signal handler.
SaveOnce == Queued(Save) => signal = "taken"

IInv ==
    /\ TypeOK
    /\ OneAtATime
    /\ StrandControl
    /\ JobsMatch
    /\ SaveOnce
    /\ TickersLive

LEMMA InitIInv == Init => IInv
  <1> SUFFICES ASSUME Init PROVE IInv
    OBVIOUS
  <1> USE DEF Init
  <1>1. <<>> \in Seq(Jobs) /\ Queue = <<>> /\ DOMAIN Queue = {}
    BY EmptySeq, ConcatEmptySeq DEF Queue
  <1>2. TypeOK
    BY <1>1 DEF TypeOK, Places
  <1>3. OneAtATime /\ StrandControl /\ TickersLive
    BY DEF OneAtATime, StrandControl, TickersLive, InTurn
  <1>4. JobsMatch /\ SaveOnce
    BY <1>1 DEF JobsMatch, SaveOnce, Queued
  <1> QED
    BY <1>2, <1>3, <1>4 DEF IInv

\* The variables keep their types; only the main thread survives an exception.
LEMMA TypeStep == TypeOK /\ [Next]_vars => TypeOK'
  <1> SUFFICES ASSUME TypeOK, [Next]_vars PROVE TypeOK'
    OBVIOUS
  <1> USE DEF TypeOK
  <1>0. /\ \A q \in Seq(Jobs) : \A x \in Jobs : Append(q, x) \in Seq(Jobs)
        /\ \A q, r \in Seq(Jobs) : q \o r \in Seq(Jobs)
        /\ \A q \in Seq(Jobs) : q # <<>> => Tail(q) \in Seq(Jobs)
        /\ <<>> \in Seq(Jobs)
        /\ \A x \in Jobs : <<x>> \in Seq(Jobs)
        /\ \A x \in Connections \cup Tickers \cup {Save} : x \in Jobs
    BY AppendProperties, ConcatProperties, HeadTailProperties, EmptySeq DEF Jobs
  <1>D. ASSUME NEW t \in Threads, NEW x \in Jobs, NEW in \in Places \ {"joining"},
               NEW after \in Places \ {"joining"}, Dispatch(t, x, in, after)
        PROVE  /\ pc' \in [Threads -> Places] /\ \A u \in Threads : pc'[u] = "joining" => u = Main
               /\ locked' \in BOOLEAN /\ posted' \in BOOLEAN
               /\ ready' \in Seq(Jobs) /\ waiting' \in Seq(Jobs)
    <2>1. pc' = [pc EXCEPT ![t] = after] \/ pc' = [pc EXCEPT ![t] = in]
      BY <1>D DEF Dispatch, Goto
    <2>2. pc' \in [Threads -> Places] /\ \A u \in Threads : pc'[u] = "joining" => u = Main
      BY <1>D, <2>1
    <2>3. locked' \in BOOLEAN /\ posted' \in BOOLEAN
      <3>1. locked' = locked \/ locked' = TRUE
        BY <1>D DEF Dispatch
      <3>2. posted' = posted
        BY <1>D DEF Dispatch
      <3> QED
        BY <3>1, <3>2
    <2>4. ready' \in Seq(Jobs) /\ waiting' \in Seq(Jobs)
      <3>1. \/ ready' = ready /\ waiting' = Append(waiting, x)
            \/ ready' = <<x>> /\ waiting' = waiting
        BY <1>D DEF Dispatch
      <3>2. Append(waiting, x) \in Seq(Jobs) /\ <<x>> \in Seq(Jobs)
        BY <1>0, <1>D
      <3> QED
        BY <3>1, <3>2
    <2> QED
      BY <2>2, <2>3, <2>4
  <1>U. ASSUME NEW t \in Threads, Unwind(t)
        PROVE  /\ pc' \in [Threads -> Places] /\ \A u \in Threads : pc'[u] = "joining" => u = Main
               /\ exit' \in {"no", "success", "failure", "terminated"}
    BY <1>U DEF Unwind, Goto, Places
  <1>1. CASE UNCHANGED vars
    BY <1>1 DEF vars
  <1>2. CASE RaiseSignal
    BY <1>2 DEF RaiseSignal, strand
  <1>3. CASE Exit
    BY <1>3 DEF Exit, strand
  <1>4. ASSUME NEW t \in Threads, TakeTurn(t) PROVE TypeOK'
    BY <1>4 DEF TakeTurn, Goto, Places
  <1>5. ASSUME NEW t \in Threads, EndJob(t) PROVE TypeOK'
    BY <1>0, <1>5 DEF EndJob
  <1>6. ASSUME NEW t \in Threads, JobThrows(t) PROVE TypeOK'
    <2>1. Tail(ready) \o waiting \in Seq(Jobs)
      BY <1>0, <1>6 DEF JobThrows
    <2> QED
      BY <1>0, <1>6, <1>U, <2>1 DEF JobThrows, EndTurn
  <1>7. ASSUME NEW t \in Threads, LeaveTurn(t) PROVE TypeOK'
    BY <1>0, <1>7 DEF LeaveTurn, EndTurn, Goto, Places
  <1>8. ASSUME NEW t \in Threads, NEW k \in Tickers, OnTick(t, k) PROVE TypeOK'
    BY <1>0, <1>8, <1>D DEF OnTick, Places
  <1>9. ASSUME NEW t \in Threads, NEW c \in Connections, OnAccept(t, c) PROVE TypeOK'
    BY <1>9 DEF OnAccept, SetConn, strand
  <1>10. ASSUME NEW t \in Threads, NEW c \in Connections, ReadRequest(t, c) PROVE TypeOK'
    BY <1>0, <1>10, <1>D DEF ReadRequest, SetConn, Places
  <1>11. ASSUME NEW t \in Threads, NEW c \in Connections, OnRead(t, c) PROVE TypeOK'
    BY <1>10, <1>11, <1>U DEF OnRead, Hangup, SetConn, strand
  <1>12. ASSUME NEW t \in Threads, NEW c \in Connections, OnWrite(t, c) PROVE TypeOK'
    BY <1>12, <1>U DEF OnWrite, Hangup, SetConn, strand
  <1>13. ASSUME NEW t \in Threads, OnSignal(t) PROVE TypeOK'
    BY <1>0, <1>13, <1>D DEF OnSignal, Places
  <1>14. ASSUME NEW t \in Threads, Stop(t) PROVE TypeOK'
    BY <1>14 DEF Stop, Goto, strand, Places
  <1>15. ASSUME NEW t \in Threads, LeaveRun(t) PROVE TypeOK'
    BY <1>15 DEF LeaveRun, Goto, strand, Places
  <1> QED
    BY <1>1, <1>2, <1>3, <1>4, <1>5, <1>6, <1>7, <1>8, <1>9, <1>11, <1>12, <1>13, <1>14, <1>15
       DEF Next, ThreadStep, Turn

\* A dispatch takes the lock only when it is free; the thread that gets it is
\* then the only one in a turn.
LEMMA DispatchControl ==
    ASSUME TypeOK, OneAtATime, StrandControl, NEW t \in Threads, NEW x \in Jobs,
           NEW in \in {"turn", "save"}, NEW after \in {"run", "stop"},
           Free(t), Dispatch(t, x, in, after), UNCHANGED exit
    PROVE  OneAtATime' /\ StrandControl'
  <1>1. ~InTurn(t) /\ exit = "no" /\ pc \in [Threads -> Places]
    BY DEF Free, InTurn, TypeOK
  <1>2. CASE locked
    <2>1. \A u \in Threads : InTurn(u)' <=> InTurn(u)
      BY <1>1, <1>2 DEF Dispatch, Goto, InTurn
    <2> QED
      BY <1>1, <1>2, <2>1 DEF Dispatch, OneAtATime, StrandControl
  <1>3. CASE ~locked
    <2>1. ~posted /\ \A u \in Threads : ~InTurn(u)
      BY <1>1, <1>3 DEF StrandControl
    <2>2. \A u \in Threads : InTurn(u)' <=> u = t
      BY <1>1, <1>3, <2>1 DEF Dispatch, Goto, InTurn
    <2> QED
      BY <1>1, <1>3, <2>1, <2>2 DEF Dispatch, OneAtATime, StrandControl
  <1> QED
    BY <1>2, <1>3

\* A step that leaves the strand alone and moves no thread into or out of a
\* turn, except by the end of the process.
LEMMA IdleControl ==
    ASSUME OneAtATime, StrandControl, UNCHANGED strand, exit = "no",
           \A u \in Threads : InTurn(u)' <=> InTurn(u)
    PROVE  OneAtATime' /\ StrandControl'
  BY DEF OneAtATime, StrandControl, strand

\* The one turn of the strand stays one.
LEMMA ControlStep == TypeOK /\ OneAtATime /\ StrandControl /\ [Next]_vars => OneAtATime' /\ StrandControl'
  <1> SUFFICES ASSUME TypeOK, OneAtATime, StrandControl, [Next]_vars
               PROVE  OneAtATime' /\ StrandControl'
    OBVIOUS
  <1>t. pc \in [Threads -> Places]
    BY DEF TypeOK
  <1>U. ASSUME NEW t \in Threads, pc[t] \notin {"turn", "save"}, Unwind(t)
        PROVE  \A u \in Threads : InTurn(u)' <=> InTurn(u)
    BY <1>t, <1>U DEF Unwind, Goto, InTurn
  <1>1. CASE UNCHANGED vars
    BY <1>1 DEF vars, OneAtATime, StrandControl, InTurn
  <1>2. CASE RaiseSignal
    BY <1>2, IdleControl DEF RaiseSignal, InTurn
  <1>3. CASE Exit
    BY <1>3, IdleControl DEF Exit, InTurn
  <1>4. ASSUME NEW t \in Threads, TakeTurn(t) PROVE OneAtATime' /\ StrandControl'
    <2>1. exit = "no" /\ \A u \in Threads : ~InTurn(u)
      BY <1>4 DEF TakeTurn, Free, StrandControl
    <2>2. \A u \in Threads : InTurn(u)' <=> u = t
      BY <1>t, <1>4, <2>1 DEF TakeTurn, Goto, InTurn
    <2> QED
      BY <1>4, <2>1, <2>2 DEF TakeTurn, OneAtATime, StrandControl
  <1>5. ASSUME NEW t \in Threads, EndJob(t) PROVE OneAtATime' /\ StrandControl'
    BY <1>5 DEF EndJob, OneAtATime, StrandControl, InTurn
  <1>6. ASSUME NEW t \in Threads, JobThrows(t) PROVE OneAtATime' /\ StrandControl'
    <2>1. \A u \in Threads : InTurn(u) <=> u = t
      BY <1>6 DEF JobThrows, OneAtATime
    <2>2. CASE t = Main
      <3>1. \A u \in Threads : ~InTurn(u)'
        BY <1>t, <1>6, <2>1, <2>2 DEF JobThrows, Unwind, Goto, InTurn
      <3> QED
        BY <1>6, <3>1 DEF JobThrows, EndTurn, OneAtATime, StrandControl
    <2>3. CASE t # Main
      <3>1. exit' = "terminated" /\ \A u \in Threads : InTurn(u)' <=> InTurn(u)
        BY <1>6, <2>3 DEF JobThrows, Unwind, InTurn
      <3> QED
        BY <1>6, <3>1 DEF JobThrows, EndTurn, OneAtATime, StrandControl
    <2> QED
      BY <2>2, <2>3
  <1>7. ASSUME NEW t \in Threads, LeaveTurn(t) PROVE OneAtATime' /\ StrandControl'
    <2>1. \A u \in Threads : InTurn(u) <=> u = t
      BY <1>7 DEF LeaveTurn, OneAtATime
    <2>2. \A u \in Threads : ~InTurn(u)'
      BY <1>t, <1>7, <2>1 DEF LeaveTurn, Goto, InTurn
    <2> QED
      BY <1>7, <2>2 DEF LeaveTurn, EndTurn, OneAtATime, StrandControl
  <1>8. ASSUME NEW t \in Threads, NEW k \in Tickers, OnTick(t, k)
        PROVE  OneAtATime' /\ StrandControl'
    BY <1>8, DispatchControl DEF OnTick, Jobs
  <1>9. ASSUME NEW t \in Threads, NEW c \in Connections, OnAccept(t, c)
        PROVE  OneAtATime' /\ StrandControl'
    BY <1>9, IdleControl DEF OnAccept, Free, InTurn
  <1>10. ASSUME NEW t \in Threads, NEW c \in Connections, ReadRequest(t, c)
         PROVE  OneAtATime' /\ StrandControl'
    BY <1>10, DispatchControl DEF ReadRequest, Jobs
  <1>11. ASSUME NEW t \in Threads, Free(t), UNCHANGED strand,
                Unwind(t) \/ UNCHANGED <<pc, exit>>
         PROVE  OneAtATime' /\ StrandControl'
    <2>1. \A u \in Threads : InTurn(u)' <=> InTurn(u)
      <3>1. CASE Unwind(t)
        BY <1>11, <1>U, <3>1 DEF Free
      <3>2. CASE UNCHANGED <<pc, exit>>
        BY <3>2 DEF InTurn
      <3> QED
        BY <1>11, <3>1, <3>2
    <2> QED
      BY <1>11, <2>1, IdleControl DEF Free
  <1>12. ASSUME NEW t \in Threads, NEW c \in Connections, OnRead(t, c)
         PROVE  OneAtATime' /\ StrandControl'
    BY <1>10, <1>11, <1>12 DEF OnRead, Hangup
  <1>13. ASSUME NEW t \in Threads, NEW c \in Connections, OnWrite(t, c)
         PROVE  OneAtATime' /\ StrandControl'
    BY <1>11, <1>13 DEF OnWrite, Hangup
  <1>14. ASSUME NEW t \in Threads, OnSignal(t) PROVE OneAtATime' /\ StrandControl'
    BY <1>14, DispatchControl DEF OnSignal, Jobs
  <1>15. ASSUME NEW t \in Threads, Stop(t) \/ LeaveRun(t) PROVE OneAtATime' /\ StrandControl'
    <2>1. \A u \in Threads : InTurn(u)' <=> InTurn(u)
      BY <1>t, <1>15 DEF Stop, LeaveRun, Goto, InTurn
    <2> QED
      BY <1>15, <2>1, IdleControl DEF Stop, LeaveRun
  <1> QED
    BY <1>1, <1>2, <1>3, <1>4, <1>5, <1>6, <1>7, <1>8, <1>9, <1>12, <1>13, <1>14, <1>15
       DEF Next, ThreadStep, Turn

-----------------------------------------------------------------------------
(* The queue of the strand.                                                *)

\* A dispatch puts its job behind all others, whichever queue takes it.
LEMMA DispatchAppends ==
    ASSUME TypeOK, StrandControl, NEW t, NEW x \in Jobs, NEW in, NEW after,
           Dispatch(t, x, in, after)
    PROVE  Queue' = Append(Queue, x)
  <1>0. ready \in Seq(Jobs) /\ waiting \in Seq(Jobs)
    BY DEF TypeOK
  <1>1. CASE locked
    <2>1. Queue' = ready \o Append(waiting, x)
      BY <1>1 DEF Dispatch, Queue
    <2> QED
      BY <1>0, <2>1, AppendConcat DEF Queue
  <1>2. CASE ~locked
    <2>1. ready = <<>> /\ waiting = <<>> /\ <<>> \in Seq(Jobs) /\ <<x>> \in Seq(Jobs)
      BY <1>2, EmptySeq DEF StrandControl
    <2>2. Queue' = <<x>> \o waiting
      BY <1>2 DEF Dispatch, Queue
    <2>3. Queue' = <<x>> /\ Queue = <<>>
      BY <2>1, <2>2, ConcatEmptySeq DEF Queue
    <2>4. Append(<<>>, x) = <<>> \o <<x>>
      BY <2>1, AppendIsConcat
    <2> QED
      BY <2>1, <2>3, <2>4, ConcatEmptySeq
  <1> QED
    BY <1>1, <1>2

\* A job that ends or throws leaves the front; the end of a turn moves jobs
\* from one queue to the other and none out.
LEMMA TurnQueue ==
    ASSUME TypeOK, NEW t
    PROVE  /\ EndJob(t) \/ JobThrows(t) =>
                 Queue # <<>> /\ Queue' = Tail(Queue) /\ Head(Queue) = Head(ready)
           /\ LeaveTurn(t) => Queue' = Queue
  <1>0. ready \in Seq(Jobs) /\ waiting \in Seq(Jobs) /\ <<>> \in Seq(Jobs)
    BY EmptySeq DEF TypeOK
  <1>1. ASSUME ready # <<>>
        PROVE  /\ Queue # <<>> /\ Head(Queue) = Head(ready)
               /\ Tail(Queue) = Tail(ready) \o waiting
               /\ Tail(ready) \o waiting \in Seq(Jobs)
    BY <1>0, <1>1, TailConcat, HeadTailProperties, ConcatProperties DEF Queue
  <1>2. ASSUME EndJob(t)
        PROVE  Queue # <<>> /\ Queue' = Tail(Queue) /\ Head(Queue) = Head(ready)
    <2>1. ready # <<>> /\ Queue' = Tail(ready) \o waiting
      BY <1>2 DEF EndJob, Queue
    <2> QED
      BY <1>1, <2>1
  <1>3. ASSUME JobThrows(t)
        PROVE  Queue # <<>> /\ Queue' = Tail(Queue) /\ Head(Queue) = Head(ready)
    <2>1. ready # <<>> /\ Queue' = (Tail(ready) \o waiting) \o <<>>
      BY <1>3 DEF JobThrows, EndTurn, Queue
    <2> QED
      BY <1>1, <2>1, ConcatEmptySeq
  <1>4. ASSUME LeaveTurn(t) PROVE Queue' = Queue
    <2>1. ready = <<>> /\ Queue' = waiting \o <<>>
      BY <1>4 DEF LeaveTurn, EndTurn, Queue
    <2> QED
      BY <1>0, <2>1, ConcatEmptySeq DEF Queue
  <1> QED
    BY <1>2, <1>3, <1>4

LEMMA QueueType == TypeOK => Queue \in Seq(Jobs)
  BY ConcatProperties DEF TypeOK, Queue

\* A job that is not pending is put on the strand by the step that sets its
\* ticker, connection or signal to match.
LEMMA SubmitJobs ==
    ASSUME IInv, NEW x \in Jobs, ~Queued(x), Queue' = Append(Queue, x),
           \A k \in Tickers : ticker'[k] = "queued" <=> ticker[k] = "queued" \/ k = x,
           \A c \in Connections : conn'[c] = "queued" <=> conn[c] = "queued" \/ c = x,
           signal = "taken" => signal' = "taken",
           x = Save => signal' = "taken"
    PROVE  JobsMatch' /\ SaveOnce'
  <1>1. Queue \in Seq(Jobs) /\ Once(Queue) /\ ~In(Queue, x)
    BY QueueType DEF IInv, JobsMatch, Queued, Once, In
  <1>2. Once(Queue') /\ \A y : In(Queue', y) <=> In(Queue, y) \/ y = x
    BY <1>1, AppendOnce
  <1>3. \A y : Queued(y)' <=> Queued(y) \/ y = x
    BY <1>2 DEF Queued, In
  <1> QED
    BY <1>2, <1>3 DEF IInv, JobsMatch, SaveOnce, Once

\* A job that leaves the strand leaves no other of its ticker or connection.
LEMMA ServeJobs ==
    ASSUME IInv, Queue # <<>>, Queue' = Tail(Queue),
           \A k \in Tickers : ticker'[k] = "queued" <=> ticker[k] = "queued" /\ k # Head(Queue),
           \A c \in Connections : conn'[c] = "queued" <=> conn[c] = "queued" /\ c # Head(Queue),
           UNCHANGED signal
    PROVE  JobsMatch' /\ SaveOnce'
  <1>1. Queue \in Seq(Jobs) /\ Once(Queue)
    BY QueueType DEF IInv, JobsMatch, Once
  <1>2. Once(Queue') /\ \A y : In(Queue', y) <=> In(Queue, y) /\ y # Head(Queue)
    BY <1>1, TailOnce
  <1>3. \A y : Queued(y)' <=> Queued(y) /\ y # Head(Queue)
    BY <1>2 DEF Queued, In
  <1> QED
    BY <1>2, <1>3 DEF IInv, JobsMatch, SaveOnce, Once

\* The queue does not change, and no ticker or connection begins or ceases to
\* wait for it.
LEMMA SameJobs ==
    ASSUME IInv, Queue' = Queue,
           \A k \in Tickers : ticker'[k] = "queued" <=> ticker[k] = "queued",
           \A c \in Connections : conn'[c] = "queued" <=> conn[c] = "queued",
           signal = "taken" => signal' = "taken"
    PROVE  JobsMatch' /\ SaveOnce'
  <1>1. \A y : Queued(y)' <=> Queued(y)
    BY DEF Queued
  <1> QED
    BY <1>1 DEF IInv, JobsMatch, SaveOnce

\* Every step does one of the three to the queue.
LEMMA JobsStep == IInv /\ [Next]_vars => JobsMatch' /\ SaveOnce' /\ [Strand!Next]_Queue
  <1> SUFFICES ASSUME IInv, [Next]_vars
               PROVE  JobsMatch' /\ SaveOnce' /\ [Strand!Next]_Queue
    OBVIOUS
  <1> DEFINE Goal == JobsMatch' /\ SaveOnce' /\ [Strand!Next]_Queue
  <1>i. /\ TypeOK /\ StrandControl /\ JobsMatch /\ SaveOnce
        /\ ticker \in [Tickers -> {"armed", "queued", "dead"}]
        /\ conn \in [Connections -> {"reading", "queued", "writing", "closed"}]
    BY DEF IInv, TypeOK
  <1>a. ASSUME NEW x \in Jobs, ~Queued(x), Queue' = Append(Queue, x) PROVE Strand!Next
    BY <1>a DEF Strand!Next, Strand!Submit, Strand!Pending, Queued
  <1>s. ASSUME Queue # <<>>, Queue' = Tail(Queue) PROVE Strand!Next
    BY <1>s DEF Strand!Next, Strand!Serve
  <1>1. CASE UNCHANGED vars
    <2>1. Queue' = Queue /\ UNCHANGED <<ticker, conn, signal>>
      BY <1>1 DEF vars, Queue
    <2> QED
      BY <2>1, SameJobs
  <1>2. CASE RaiseSignal
    <2>1. Queue' = Queue /\ UNCHANGED <<ticker, conn>> /\ signal # "taken"
      BY <1>2 DEF RaiseSignal, strand, Queue
    <2> QED
      BY <2>1, SameJobs
  <1>3. ASSUME NEW t \in Threads, Exit \/ TakeTurn(t) \/ Stop(t) \/ LeaveRun(t) PROVE Goal
    <2>1. Queue' = Queue /\ UNCHANGED <<ticker, conn, signal>>
      BY <1>3 DEF Exit, TakeTurn, Stop, LeaveRun, strand, Queue
    <2> QED
      BY <2>1, SameJobs
  <1>4. ASSUME NEW t \in Threads, LeaveTurn(t) PROVE Goal
    <2>1. Queue' = Queue /\ UNCHANGED <<ticker, conn, signal>>
      BY <1>4, <1>i, TurnQueue DEF LeaveTurn
    <2> QED
      BY <2>1, SameJobs
  <1>5. ASSUME NEW t \in Threads, EndJob(t) \/ JobThrows(t) PROVE Goal
    <2>1. /\ Queue # <<>> /\ Queue' = Tail(Queue) /\ Head(Queue) = Head(ready)
          /\ UNCHANGED signal
      BY <1>5, <1>i, TurnQueue DEF EndJob, JobThrows
    <2>2. \A k \in Tickers : ticker'[k] = "queued" <=> ticker[k] = "queued" /\ k # Head(Queue)
      BY <1>5, <1>i, <2>1 DEF EndJob, JobThrows
    <2>3. \A c \in Connections : conn'[c] = "queued" <=> conn[c] = "queued" /\ c # Head(Queue)
      BY <1>5, <1>i, <2>1 DEF EndJob, JobThrows
    <2> QED
      BY <1>s, <2>1, <2>2, <2>3, ServeJobs
  <1>6. ASSUME NEW t \in Threads, NEW k \in Tickers, OnTick(t, k) PROVE Goal
    <2>1. k \in Jobs /\ ticker[k] = "armed" /\ ~Queued(k) /\ UNCHANGED <<conn, signal>>
      BY <1>6, <1>i DEF OnTick, Jobs, JobsMatch
    <2>2. Queue' = Append(Queue, k)
      BY <1>6, <1>i, <2>1, DispatchAppends DEF OnTick
    <2>3. /\ \A l \in Tickers : ticker'[l] = "queued" <=> ticker[l] = "queued" \/ l = k
          /\ k \notin Connections /\ k # Save
      BY <1>6, <1>i DEF OnTick
    <2> QED
      BY <1>a, <2>1, <2>2, <2>3, SubmitJobs
  <1>7. ASSUME NEW t \in Threads, NEW c \in Connections, ReadRequest(t, c) PROVE Goal
    <2>1. c \in Jobs /\ conn[c] = "reading" /\ ~Queued(c) /\ UNCHANGED <<ticker, signal>>
      BY <1>7, <1>i DEF ReadRequest, Jobs, JobsMatch
    <2>2. Queue' = Append(Queue, c)
      BY <1>7, <1>i, <2>1, DispatchAppends DEF ReadRequest
    <2>3. /\ \A d \in Connections : conn'[d] = "queued" <=> conn[d] = "queued" \/ d = c
          /\ c \notin Tickers /\ c # Save
      BY <1>7, <1>i DEF ReadRequest, SetConn
    <2> QED
      BY <1>a, <2>1, <2>2, <2>3, SubmitJobs
  <1>8. ASSUME NEW t \in Threads, OnSignal(t) PROVE Goal
    <2>1. Save \in Jobs /\ ~Queued(Save) /\ signal' = "taken" /\ UNCHANGED <<ticker, conn>>
      BY <1>8, <1>i DEF OnSignal, Jobs, SaveOnce
    <2>2. Queue' = Append(Queue, Save)
      BY <1>8, <1>i, <2>1, DispatchAppends DEF OnSignal
    <2> QED
      BY <1>a, <2>1, <2>2, SubmitJobs
  <1>9. ASSUME NEW t \in Threads, NEW c \in Connections,
               OnAccept(t, c) \/ OnRead(t, c) \/ OnWrite(t, c), ~ReadRequest(t, c)
        PROVE  Goal
    <2>1. Queue' = Queue /\ UNCHANGED <<ticker, signal>>
      BY <1>9 DEF OnAccept, OnRead, OnWrite, strand, Queue
    <2>2. \/ UNCHANGED conn
          \/ /\ conn[c] # "queued"
             /\ \E state \in {"reading", "writing", "closed"} : conn' = [conn EXCEPT ![c] = state]
      <3>1. CASE OnAccept(t, c)
        BY <3>1 DEF OnAccept, SetConn
      <3>2. CASE OnRead(t, c)
        BY <1>9, <3>2 DEF OnRead, Hangup, SetConn
      <3>3. CASE OnWrite(t, c)
        BY <3>3 DEF OnWrite, Hangup, SetConn
      <3> QED
        BY <1>9, <3>1, <3>2, <3>3
    <2>3. \A d \in Connections : conn'[d] = "queued" <=> conn[d] = "queued"
      BY <1>i, <2>2
    <2> QED
      BY <2>1, <2>3, SameJobs
  <1> QED
    BY <1>1, <1>2, <1>3, <1>4, <1>5, <1>6, <1>7, <1>8, <1>9 DEF Next, ThreadStep, Turn

\* Only an exception that is fatal, or thrown on the main thread, ends a ticker.
LEMMA TickersStep == TypeOK /\ TickersLive /\ [Next]_vars => TickersLive'
  <1> SUFFICES ASSUME TypeOK, TickersLive, [Next]_vars PROVE TickersLive'
    OBVIOUS
  <1>t. pc \in [Threads -> Places] /\ ticker \in [Tickers -> {"armed", "queued", "dead"}]
    BY DEF TypeOK
  <1> DEFINE Fatal == pc[Main] = "joining" \/ exit \in {"failure", "terminated"}
  <1>1. ASSUME NEW t \in Threads, Unwind(t), exit = "no" PROVE Fatal'
    BY <1>1, <1>t DEF Unwind, Goto
  <1>2. Fatal => Fatal'
    <2> SUFFICES ASSUME Fatal PROVE Fatal'
      OBVIOUS
    <2>1. CASE UNCHANGED vars \/ RaiseSignal
      BY <2>1 DEF vars, RaiseSignal
    <2>2. CASE Exit
      BY <2>2 DEF Exit
    <2>3. ASSUME NEW t \in Threads, ThreadStep(t) PROVE Fatal'
      <3>1. exit = "no" /\ pc[Main] = "joining" /\ pc[t] # "joining" /\ t # Main
        BY <2>3 DEF ThreadStep, Turn, TakeTurn, EndJob, JobThrows, LeaveTurn, OnTick, OnAccept, OnRead,
                    ReadRequest, OnWrite, OnSignal, Stop, LeaveRun, Free, InTurn
      <3>2. pc'[Main] = pc[Main] \/ exit' = "terminated"
        BY <1>t, <2>3, <3>1 DEF ThreadStep, Turn, TakeTurn, EndJob, JobThrows, LeaveTurn, OnTick, OnAccept,
                    OnRead, ReadRequest, OnWrite, OnSignal, Stop, LeaveRun, Dispatch, Hangup, Unwind, Goto
      <3> QED
        BY <2>3, <3>1, <3>2 DEF ThreadStep, Turn, TakeTurn, EndJob, JobThrows, LeaveTurn, OnTick, OnAccept,
                    OnRead, ReadRequest, OnWrite, OnSignal, Stop, LeaveRun, Hangup, Unwind
    <2> QED
      BY <2>1, <2>2, <2>3 DEF Next
  <1>3. ASSUME NEW k \in Tickers, ticker'[k] = "dead", ticker[k] # "dead" PROVE Fatal'
    <2>1. PICK t \in Threads : JobThrows(t)
      BY <1>3, <1>t DEF Next, vars, RaiseSignal, Exit, ThreadStep, Turn, TakeTurn, EndJob, LeaveTurn,
                  OnTick, OnAccept, OnRead, ReadRequest, OnWrite, OnSignal, Stop, LeaveRun
    <2> QED
      BY <1>1, <2>1 DEF JobThrows
  <1> QED
    BY <1>2, <1>3 DEF TickersLive

-----------------------------------------------------------------------------
(* Theorems.                                                               *)

LEMMA NextIInv == IInv /\ [Next]_vars => IInv'
  BY TypeStep, ControlStep, JobsStep, TickersStep DEF IInv

\* The inductive invariant holds in every reachable state.
THEOREM Invariance == Spec => []IInv
  BY InitIInv, NextIInv, PTL DEF Spec

\* All variables keep their types, with any number of threads.
THEOREM TypeCorrect == Spec => []TypeOK
  <1>1. IInv => TypeOK
    BY DEF IInv
  <1> QED
    BY <1>1, Invariance, PTL

\* No two threads run the game at a time, whoever brought them their jobs.
THEOREM StrandExclusive == Spec => []OneAtATime
  <1>1. IInv => OneAtATime
    BY DEF IInv
  <1> QED
    BY <1>1, Invariance, PTL

\* No tick is doubled and no answer is owed twice.
THEOREM JobsAreMatched == Spec => []JobsMatch
  <1>1. IInv => JobsMatch
    BY DEF IInv
  <1> QED
    BY <1>1, Invariance, PTL

\* The server never serves on without a ticker and then ends well.
THEOREM TickersAreMissed == Spec => []TickersLive
  <1>1. IInv => TickersLive
    BY DEF IInv
  <1> QED
    BY <1>1, Invariance, PTL

\* The strand and its users implement JobQueue.
THEOREM ImplementsJobQueue == Spec => InOrder
  <1>1. Init => Strand!Init
    BY EmptySeq, ConcatEmptySeq DEF Init, Strand!Init, Queue
  <1>2. IInv /\ [Next]_vars => [Strand!Next]_Queue
    BY JobsStep
  <1> QED
    BY <1>1, <1>2, Invariance, PTL DEF Spec, InOrder, Strand!Spec
=============================================================================
