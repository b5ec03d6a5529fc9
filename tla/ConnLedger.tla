---------------------------- MODULE ConnLedger ----------------------------
(***************************************************************************)
(* What the connection counter of HotReloadManager promises to its         *)
(* readers (GET /api/stats, the "no active connection" test of a reload):  *)
(* it behaves as if a connection entered and left the books in one step,   *)
(* and the number read is always the number of connections in the books.   *)
(***************************************************************************)
EXTENDS Integers, FiniteSets

CONSTANT Conns            \* the connections that may be open

VARIABLES
    ledger,               \* the connections in the books
    count,                \* the number a reader is given
    up                    \* the process that keeps the books is running

vars == <<ledger, count, up>>

Init ==
    /\ ledger = {}
    /\ count = 0
    /\ up = TRUE

Enter(c) ==
    /\ up
    /\ c \notin ledger
    /\ ledger' = ledger \cup {c}
    /\ count' = count + 1
    /\ UNCHANGED up

Leave(c) ==
    /\ up
    /\ c \in ledger
    /\ ledger' = ledger \ {c}
    /\ count' = count - 1
    /\ UNCHANGED up

Stop ==
    /\ up
    /\ up' = FALSE
    /\ UNCHANGED <<ledger, count>>

Next ==
    \/ \E c \in Conns : Enter(c) \/ Leave(c)
    \/ Stop

Spec == Init /\ [][Next]_vars
=============================================================================
