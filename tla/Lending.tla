------------------------------- MODULE Lending -------------------------------
(***************************************************************************)
(* What db_functions.cpp expects of the connection pool: a connection is   *)
(* lent to one user at a time, and a user has it until it gives it back.   *)
(***************************************************************************)
CONSTANTS Users, Connections, None

VARIABLE lent   \* the connection each user has, or None

Init == lent = [u \in Users |-> None]

Borrow(u, c) ==
    /\ lent[u] = None
    /\ \A v \in Users : lent[v] # c
    /\ lent' = [lent EXCEPT ![u] = c]

GiveBack(u) ==
    /\ lent[u] # None
    /\ lent' = [lent EXCEPT ![u] = None]

Next == \E u \in Users : GiveBack(u) \/ \E c \in Connections : Borrow(u, c)

Spec == Init /\ [][Next]_lent
=============================================================================
