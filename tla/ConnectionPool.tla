--------------------------- MODULE ConnectionPool ----------------------------
(***************************************************************************)
(* db::ConnectionPool: connections lent to threads under a mutex, with a   *)
(* condition variable for those who find none.                             *)
(*                                                                         *)
(* The mutex is only ever held for one step of GetConnection (the test and *)
(* what follows it) or one of ReturnConnection, so these steps are atomic  *)
(* here; what happens outside of it, between the call and the test, in the *)
(* wait, and between giving back and notify_one, is a place of its own.    *)
(* The server has one connection and, today, all users on one strand       *)
(* (connection_pool.cpp:51); the pool itself is written for any number.    *)
(* Definitions named after a slip (TakeUncounted) are plausible bugs of    *)
(* those which follow them.                                                *)
(***************************************************************************)
EXTENDS Naturals, FiniteSets

CONSTANTS
    Users,        \* threads that use the pool
    Connections,  \* what the factory makes
    None          \* an empty shared_ptr

ASSUME PoolAssumption ==
    /\ IsFiniteSet(Users)
    /\ IsFiniteSet(Connections)
    /\ None \notin Connections

Capacity == Cardinality(Connections)

VARIABLES
    pool,  \* pool_, indexed from 0
    used,  \* used_connections_
    conn,  \* conn_ of the ConnectionWrapper each user holds
    pc     \* "idle", "getting" (before the mutex), "sleeping" (in the wait),
           \* "using", "notifying" (mutex given up, notify_one not yet called)

vars == <<pool, used, conn, pc>>

Goto(u, place) == pc' = [pc EXCEPT ![u] = place]
At(place) == {u \in Users : pc[u] = place}

\* The constructor fills pool_ with the connections it makes.
Init ==
    /\ pool \in [0 .. Capacity - 1 -> Connections]
    /\ \A i, j \in 0 .. Capacity - 1 : pool[i] = pool[j] => i = j
    /\ used = 0
    /\ conn = [u \in Users |-> None]
    /\ pc = [u \in Users |-> "idle"]

GetConnection(u) ==
    /\ pc[u] = "idle"
    /\ Goto(u, "getting")
    /\ UNCHANGED <<pool, used, conn>>

\* The predicate holds: the connection moves from its slot to the wrapper.
TakeUncounted(u) ==
    /\ pc[u] = "getting" /\ used < Capacity
    /\ conn' = [conn EXCEPT ![u] = pool[used]]
    /\ Goto(u, "using")
    /\ UNCHANGED <<pool, used>>
Take(u) ==
    /\ pc[u] = "getting" /\ used < Capacity
    /\ conn' = [conn EXCEPT ![u] = pool[used]]
    /\ pool' = [pool EXCEPT ![used] = None]
    /\ used' = used + 1
    /\ Goto(u, "using")

\* It does not: cond_var_.wait gives the mutex up and sleeps.
Sleep(u) ==
    /\ pc[u] = "getting" /\ used >= Capacity
    /\ Goto(u, "sleeping")
    /\ UNCHANGED <<pool, used, conn>>

\* A wait may return without a notification.
WakeUp(u) ==
    /\ pc[u] = "sleeping"
    /\ Goto(u, "getting")
    /\ UNCHANGED <<pool, used, conn>>

\* The wrapper is destroyed, after use or by an exception.
ReturnConnection(u) ==
    /\ pc[u] = "using"
    /\ pool' = [pool EXCEPT ![used - 1] = conn[u]]
    /\ used' = used - 1
    /\ conn' = [conn EXCEPT ![u] = None]
    /\ Goto(u, "notifying")

\* notify_one wakes one sleeper, if there is one.
NotifyNone(u) ==
    /\ pc[u] = "notifying"
    /\ Goto(u, "idle")
    /\ UNCHANGED <<pool, used, conn>>
Notify(u) ==
    /\ pc[u] = "notifying"
    /\ \/ At("sleeping") = {} /\ Goto(u, "idle")
       \/ \E s \in At("sleeping") : pc' = [pc EXCEPT ![u] = "idle", ![s] = "getting"]
    /\ UNCHANGED <<pool, used, conn>>

Next == \E u \in Users :
    \/ GetConnection(u) \/ Take(u) \/ Sleep(u) \/ WakeUp(u)
    \/ ReturnConnection(u) \/ Notify(u)

Spec == Init /\ [][Next]_vars

\* The mutex is given to somebody who asks for it, notify_one follows the
\* return, and users give back what they have; nobody has to call, and no wait
\* has to end unnotified.
FairSpec == Spec /\ \A u \in Users :
    WF_vars(Take(u) \/ Sleep(u)) /\ WF_vars(ReturnConnection(u)) /\ WF_vars(Notify(u))

-----------------------------------------------------------------------------
(* Properties.                                                             *)

TypeOK ==
    /\ pool \in [0 .. Capacity - 1 -> Connections \cup {None}]
    /\ used \in 0 .. Capacity
    /\ conn \in [Users -> Connections \cup {None}]
    /\ pc \in [Users -> {"idle", "getting", "sleeping", "using", "notifying"}]

\* The slots from used_connections_ on hold all connections that are not lent,
\* each once, and those before it are empty, in whatever order connections
\* were taken and given back.
PoolConsistent ==
    /\ \A i \in 0 .. Capacity - 1 : pool[i] = None <=> i < used
    /\ \A i, j \in used .. Capacity - 1 : pool[i] = pool[j] => i = j
    /\ \A i \in used .. Capacity - 1, u \in Users : pool[i] # conn[u]
    /\ Cardinality({u \in Users : conn[u] # None}) = used

\* No wakeup is lost: while somebody sleeps, every free connection has
\* a thread that is about to test for it or about to notify.
NoLostWakeup ==
    At("sleeping") = {} \/ Capacity - used <= Cardinality(At("getting") \cup At("notifying"))

\* Lending is exclusive whatever the interleaving of users.
Contract == INSTANCE Lending WITH lent <- conn
LendsExclusively == Contract!Spec

\* A free connection does not stay beside a sleeping user.
SleepersServed ==
    At("sleeping") # {} /\ used < Capacity ~> At("sleeping") = {} \/ used = Capacity
=============================================================================
