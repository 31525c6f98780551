------------------------ MODULE ConnectionPoolProofs -------------------------
(***************************************************************************)
(* The connection pool with any number of users and connections: its slots *)
(* stay consistent, no wakeup is lost, and it implements Lending.          *)
(***************************************************************************)
EXTENDS ConnectionPool, FiniteSetTheorems, TLAPS

USE PoolAssumption

Lent == {u \in Users : conn[u] # None}
Awake == At("getting") \cup At("notifying")

\* A user has a connection exactly while using it, and nobody else has it.
HoldersUse ==
    /\ \A u \in Users : pc[u] = "using" <=> conn[u] # None
    /\ \A u, v \in Users : conn[u] = conn[v] /\ conn[u] # None => u = v

IInv == TypeOK /\ PoolConsistent /\ HoldersUse /\ NoLostWakeup

LEMMA CapacityType == Capacity \in Nat
  BY FS_CardinalityType DEF Capacity

LEMMA SetsFinite ==
    ASSUME NEW S, S \subseteq Users
    PROVE  IsFiniteSet(S) /\ Cardinality(S) \in Nat
  BY FS_Subset, FS_CardinalityType

LEMMA InitIInv == Init => IInv
  <1> SUFFICES ASSUME Init PROVE IInv
    OBVIOUS
  <1>0. Capacity \in Nat
    BY CapacityType
  <1>1. TypeOK
    BY <1>0 DEF Init, TypeOK
  <1>2. {u \in Users : conn[u] # None} = {} /\ Cardinality({}) = 0
    BY FS_EmptySet DEF Init
  <1>3. PoolConsistent
    <2>1. Cardinality({u \in Users : conn[u] # None}) = used
      BY <1>2 DEF Init
    <2>2. \A i \in 0 .. Capacity - 1 : pool[i] # None /\ \A u \in Users : pool[i] # conn[u]
      BY DEF Init
    <2> QED
      BY <1>0, <2>1, <2>2 DEF Init, PoolConsistent
  <1>4. HoldersUse /\ NoLostWakeup
    BY DEF Init, HoldersUse, NoLostWakeup, At
  <1> QED
    BY <1>1, <1>3, <1>4 DEF IInv

\* What a Take does to slots and wrappers.
LEMMA TakeStep ==
    ASSUME IInv, NEW u \in Users, Take(u)
    PROVE  TypeOK' /\ PoolConsistent' /\ HoldersUse'
  <1>i. TypeOK /\ PoolConsistent /\ HoldersUse /\ Capacity \in Nat
    BY CapacityType DEF IInv
  <1>1. /\ used \in 0 .. Capacity - 1 /\ used' = used + 1
        /\ pool' = [pool EXCEPT ![used] = None]
        /\ conn' = [conn EXCEPT ![u] = pool[used]]
        /\ pc' = [pc EXCEPT ![u] = "using"] /\ pc[u] = "getting" /\ conn[u] = None
    BY <1>i DEF Take, Goto, TypeOK, HoldersUse
  <1>2. pool[used] \in Connections /\ \A v \in Users : conn[v] # pool[used]
    BY <1>i, <1>1 DEF TypeOK, PoolConsistent
  <1>3. TypeOK'
    BY <1>i, <1>1, <1>2 DEF TypeOK
  <1>4. HoldersUse'
    BY <1>i, <1>1, <1>2 DEF TypeOK, HoldersUse
  <1>5. Cardinality({v \in Users : conn'[v] # None}) = used'
    <2>1. {v \in Users : conn'[v] # None} = Lent \cup {u} /\ u \notin Lent
      BY <1>i, <1>1, <1>2 DEF TypeOK, Lent
    <2>2. IsFiniteSet(Lent) /\ Cardinality(Lent) = used
      BY <1>i, SetsFinite DEF Lent, PoolConsistent
    <2> QED
      BY <1>1, <2>1, <2>2, FS_AddElement
  <1>6. \A i \in 0 .. Capacity - 1 : pool'[i] = None <=> i < used'
    BY <1>i, <1>1 DEF TypeOK, PoolConsistent
  <1>7. \A i, j \in used' .. Capacity - 1 : pool'[i] = pool'[j] => i = j
    BY <1>i, <1>1 DEF TypeOK, PoolConsistent
  <1>8. \A i \in used' .. Capacity - 1, v \in Users : pool'[i] # conn'[v]
    BY <1>i, <1>1 DEF TypeOK, PoolConsistent
  <1> QED
    BY <1>3, <1>4, <1>5, <1>6, <1>7, <1>8 DEF PoolConsistent

\* What a ReturnConnection does to them; used_connections_ is not zero.
LEMMA ReturnStep ==
    ASSUME IInv, NEW u \in Users, ReturnConnection(u)
    PROVE  TypeOK' /\ PoolConsistent' /\ HoldersUse' /\ used # 0
  <1>i. TypeOK /\ PoolConsistent /\ HoldersUse /\ Capacity \in Nat
    BY CapacityType DEF IInv
  <1>0. /\ used' = used - 1
        /\ pool' = [pool EXCEPT ![used - 1] = conn[u]]
        /\ conn' = [conn EXCEPT ![u] = None]
        /\ pc' = [pc EXCEPT ![u] = "notifying"] /\ conn[u] # None
    BY <1>i DEF ReturnConnection, Goto, HoldersUse
  <1>1. Cardinality({v \in Users : conn'[v] # None}) = used' /\ used # 0
    <2>1. {v \in Users : conn'[v] # None} = Lent \ {u} /\ u \in Lent
      BY <1>i, <1>0 DEF TypeOK, Lent
    <2>2. IsFiniteSet(Lent) /\ Cardinality(Lent) = used
      BY <1>i, SetsFinite DEF Lent, PoolConsistent
    <2>3. Cardinality(Lent \ {u}) = used - 1 /\ Cardinality(Lent \ {u}) \in Nat
      BY <2>1, <2>2, FS_RemoveElement, FS_CardinalityType
    <2>4. Cardinality({v \in Users : conn'[v] # None}) = Cardinality(Lent \ {u})
      BY <2>1
    <2>5. used \in Nat /\ used - 1 \in Nat
      BY <1>i, <2>3 DEF TypeOK
    <2> QED
      BY <1>0, <2>3, <2>4, <2>5
  <1>2. used \in 1 .. Capacity
    BY <1>i, <1>1 DEF TypeOK
  <1>3. TypeOK'
    BY <1>i, <1>0, <1>2 DEF TypeOK
  <1>4. HoldersUse'
    BY <1>i, <1>0 DEF TypeOK, HoldersUse
  <1>6. \A i \in 0 .. Capacity - 1 : pool'[i] = None <=> i < used'
    BY <1>i, <1>0, <1>2 DEF TypeOK, PoolConsistent
  <1>7. \A i, j \in used' .. Capacity - 1 : pool'[i] = pool'[j] => i = j
    BY <1>i, <1>0, <1>2 DEF TypeOK, PoolConsistent
  <1>8. \A i \in used' .. Capacity - 1, v \in Users : pool'[i] # conn'[v]
    BY <1>i, <1>0, <1>2, <1>6 DEF TypeOK, PoolConsistent, HoldersUse
  <1> QED
    BY <1>1, <1>3, <1>4, <1>6, <1>7, <1>8 DEF PoolConsistent

\* Steps that only move threads keep slots and wrappers.
LEMMA MoveStep ==
    ASSUME IInv, [Next]_vars,
           ~ \E u \in Users : Take(u) \/ ReturnConnection(u)
    PROVE  TypeOK' /\ PoolConsistent' /\ HoldersUse'
  <1>i. TypeOK /\ PoolConsistent /\ HoldersUse
    BY DEF IInv
  <1>1. UNCHANGED <<pool, used, conn>>
    BY DEF Next, vars, GetConnection, Sleep, WakeUp, Notify
  <1>2. /\ pc' \in [Users -> {"idle", "getting", "sleeping", "using", "notifying"}]
        /\ \A u \in Users : pc'[u] = "using" <=> pc[u] = "using"
    BY <1>i DEF TypeOK, Next, vars, GetConnection, Sleep, WakeUp, Notify, Goto, At
  <1> QED
    BY <1>i, <1>1, <1>2 DEF TypeOK, PoolConsistent, HoldersUse

\* The threads that will look after the free connections stay as many as those.
LEMMA WakeupStep == IInv /\ [Next]_vars => NoLostWakeup'
  <1> SUFFICES ASSUME IInv, [Next]_vars PROVE NoLostWakeup'
    OBVIOUS
  <1> DEFINE Kept == At("sleeping")' = {} \/ Capacity - used' <= Cardinality(Awake')
  <1>i. /\ TypeOK /\ Capacity \in Nat /\ used \in 0 .. Capacity
        /\ pc \in [Users -> {"idle", "getting", "sleeping", "using", "notifying"}]
        /\ At("sleeping") = {} \/ Capacity - used <= Cardinality(Awake)
    BY CapacityType DEF IInv, TypeOK, NoLostWakeup, Awake, Capacity
  <1>f. /\ IsFiniteSet(Awake) /\ Cardinality(Awake) \in Nat
        /\ IsFiniteSet(Awake') /\ Cardinality(Awake') \in Nat
    BY SetsFinite DEF Awake, At
  <1>1. ASSUME UNCHANGED vars PROVE Kept
    BY <1>1, <1>i DEF vars, Awake, At
  <1>2. ASSUME NEW u \in Users, GetConnection(u) \/ WakeUp(u) PROVE Kept
    <2>1. /\ Awake' = Awake \cup {u} /\ u \notin Awake /\ used' = used
          /\ At("sleeping") = {} => At("sleeping")' = {}
      BY <1>2, <1>i DEF GetConnection, WakeUp, Goto, Awake, At
    <2>2. Cardinality(Awake') = Cardinality(Awake) + 1
      BY <1>f, <2>1, FS_AddElement
    <2> QED
      BY <1>i, <1>f, <2>1, <2>2
  <1>3. ASSUME NEW u \in Users, Take(u) PROVE Kept
    <2>1. /\ Awake' = Awake \ {u} /\ u \in Awake /\ used' = used + 1
          /\ At("sleeping")' = At("sleeping")
      BY <1>3, <1>i DEF Take, Goto, Awake, At
    <2>2. Cardinality(Awake') = Cardinality(Awake) - 1
      BY <1>f, <2>1, FS_RemoveElement
    <2> QED
      BY <1>i, <1>f, <2>1, <2>2
  <1>4. ASSUME NEW u \in Users, Sleep(u) PROVE Kept
    <2>1. used' = Capacity
      BY <1>4, <1>i DEF Sleep
    <2> QED
      BY <1>i, <1>f, <2>1
  <1>5. ASSUME NEW u \in Users, ReturnConnection(u) PROVE Kept
    <2>1. /\ Awake' = Awake \cup {u} /\ u \notin Awake /\ used' = used - 1
          /\ At("sleeping")' = At("sleeping")
      BY <1>5, <1>i DEF ReturnConnection, Goto, Awake, At
    <2>2. Cardinality(Awake') = Cardinality(Awake) + 1
      BY <1>f, <2>1, FS_AddElement
    <2> QED
      BY <1>i, <1>f, <2>1, <2>2
  <1>6. ASSUME NEW u \in Users, Notify(u) PROVE Kept
    <2>1. CASE At("sleeping") = {} /\ Goto(u, "idle")
      BY <2>1, <1>i DEF Goto, At
    <2>2. ASSUME NEW s \in At("sleeping"), pc' = [pc EXCEPT ![u] = "idle", ![s] = "getting"]
          PROVE  Kept
      <3>1. /\ pc[u] = "notifying" /\ pc[s] = "sleeping" /\ s \in Users /\ s # u
            /\ used' = used
        BY <1>6, <2>2 DEF Notify, At
      <3>2. Awake' = (Awake \ {u}) \cup {s} /\ u \in Awake /\ s \notin Awake \ {u}
        BY <1>i, <2>2, <3>1 DEF Awake, At
      <3>3. /\ IsFiniteSet(Awake \ {u})
            /\ Cardinality(Awake \ {u}) = Cardinality(Awake) - 1
        BY <1>f, <3>2, FS_RemoveElement
      <3>4. Cardinality(Awake') = Cardinality(Awake \ {u}) + 1
        BY <3>2, <3>3, FS_AddElement
      <3> QED
        BY <1>i, <1>f, <2>2, <3>1, <3>3, <3>4
    <2> QED
      BY <1>6, <2>1, <2>2 DEF Notify
  <1> QED
    <2>1. Kept
      BY <1>1, <1>2, <1>3, <1>4, <1>5, <1>6 DEF Next
    <2> QED
      BY <2>1 DEF NoLostWakeup, Awake, Capacity

LEMMA NextIInv == IInv /\ [Next]_vars => IInv'
  BY TakeStep, ReturnStep, MoveStep, WakeupStep DEF IInv

\* The inductive invariant holds in every reachable state.
THEOREM Invariance == Spec => []IInv
  BY InitIInv, NextIInv, PTL DEF Spec

\* All variables keep their types; used_connections_ never passes the capacity.
THEOREM TypeCorrect == Spec => []TypeOK
  <1>1. IInv => TypeOK
    BY DEF IInv
  <1> QED
    BY <1>1, Invariance, PTL

\* The slots hold exactly the connections that are not lent.
THEOREM SlotsConsistent == Spec => []PoolConsistent
  <1>1. IInv => PoolConsistent
    BY DEF IInv
  <1> QED
    BY <1>1, Invariance, PTL

\* Nobody sleeps beside a free connection without a thread on its way.
THEOREM WakeupsKept == Spec => []NoLostWakeup
  <1>1. IInv => NoLostWakeup
    BY DEF IInv
  <1> QED
    BY <1>1, Invariance, PTL

\* Every step of the pool borrows, gives back, or leaves what is lent alone.
LEMMA LendingStep == IInv /\ [Next]_vars => [Contract!Next]_conn
  <1> SUFFICES ASSUME IInv, [Next]_vars PROVE [Contract!Next]_conn
    OBVIOUS
  <1>i. TypeOK /\ PoolConsistent /\ HoldersUse /\ Capacity \in Nat
    BY CapacityType DEF IInv
  <1>1. ASSUME NEW u \in Users, Take(u) PROVE Contract!Next
    <2>1. pool[used] \in Connections /\ \A v \in Users : conn[v] # pool[used]
      BY <1>1, <1>i DEF Take, TypeOK, PoolConsistent
    <2>2. conn[u] = None /\ conn' = [conn EXCEPT ![u] = pool[used]]
      BY <1>1, <1>i DEF Take, HoldersUse, TypeOK
    <2>3. Contract!Borrow(u, pool[used])
      BY <2>1, <2>2 DEF Contract!Borrow
    <2> QED
      BY <2>1, <2>3 DEF Contract!Next
  <1>2. ASSUME NEW u \in Users, ReturnConnection(u) PROVE Contract!Next
    <2>1. Contract!GiveBack(u)
      BY <1>2, <1>i DEF ReturnConnection, HoldersUse, Contract!GiveBack
    <2> QED
      BY <2>1 DEF Contract!Next
  <1> QED
    BY <1>1, <1>2 DEF Next, vars, GetConnection, Sleep, WakeUp, Notify

\* The pool implements Lending.
THEOREM ImplementsLending == Spec => LendsExclusively
  <1>1. Init => Contract!Init
    BY DEF Init, Contract!Init
  <1> QED
    BY <1>1, LendingStep, Invariance, PTL DEF Spec, LendsExclusively, Contract!Spec
=============================================================================
