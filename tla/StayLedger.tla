----------------------------- MODULE StayLedger ------------------------------
(***************************************************************************)
(* What players, and readers of the table of records, may expect of the    *)
(* server: the life of a stay, which its token stands for.  A stay begins  *)
(* once.  A process enters it into the table at most once, ends it only    *)
(* when the entry is known to be there, and saves no stay it has ended.    *)
(* When the process ends, what was saved is what goes on.                  *)
(***************************************************************************)
EXTENDS Naturals

CONSTANT Tokens

VARIABLES
    begun,      \* stays that ever began
    playing,    \* stays that go on
    rows,       \* entries of the table: of which stay, by which process, known or not
    saved,      \* stays a new process will go on with
    run, up     \* the process, and whether it is there

ledger == <<begun, playing, rows, saved, run, up>>

Row(t, known) == [token |-> t, run |-> run, acked |-> known]

\* No stay that goes on has been entered for good.
Settled == \A t \in playing : Row(t, TRUE) \notin rows

Init ==
    /\ begun = {} /\ playing = {} /\ rows = {} /\ saved = {}
    /\ run = 1 /\ up = TRUE

Begin(t) ==
    /\ up /\ t \notin begun
    /\ begun' = begun \cup {t} /\ playing' = playing \cup {t}
    /\ UNCHANGED <<rows, saved, run, up>>

Enter(t, known) ==
    /\ up /\ t \in playing
    /\ \A k \in BOOLEAN : Row(t, k) \notin rows
    /\ rows' = rows \cup {Row(t, known)}
    /\ UNCHANGED <<begun, playing, saved, run, up>>

End(t) ==
    /\ up /\ t \in playing /\ Row(t, TRUE) \in rows
    /\ playing' = playing \ {t}
    /\ UNCHANGED <<begun, rows, saved, run, up>>

Save ==
    /\ up /\ Settled
    /\ saved' = playing
    /\ UNCHANGED <<begun, playing, rows, run, up>>

\* The process ends, with or without a last save.
Stop ==
    /\ up /\ up' = FALSE
    /\ \/ UNCHANGED saved
       \/ Settled /\ saved' = playing
    /\ playing' = {}
    /\ UNCHANGED <<begun, rows, run>>

Start ==
    /\ ~up /\ up' = TRUE
    /\ run' = run + 1
    /\ playing' = saved
    /\ UNCHANGED <<begun, rows, saved>>

Next ==
    \/ \E t \in Tokens : Begin(t) \/ End(t) \/ \E known \in BOOLEAN : Enter(t, known)
    \/ Save \/ Stop \/ Start

Spec == Init /\ [][Next]_ledger
==============================================================================
