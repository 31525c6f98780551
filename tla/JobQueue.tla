------------------------------ MODULE JobQueue -------------------------------
(***************************************************************************)
(* What the game expects of the strand, and the server of its jobs: they   *)
(* are served one after the other in the order in which they came, none is *)
(* dropped by another, and nobody has two of them pending.                 *)
(***************************************************************************)
EXTENDS Naturals, Sequences

CONSTANT Jobs
VARIABLE queue   \* the first one is being served or is the next to be served

Pending(job) == \E i \in DOMAIN queue : queue[i] = job

Submit(job) == ~Pending(job) /\ queue' = Append(queue, job)
Serve == queue # <<>> /\ queue' = Tail(queue)

Init == queue = <<>>
Next == Serve \/ \E job \in Jobs : Submit(job)
Spec == Init /\ [][Next]_queue
=============================================================================
