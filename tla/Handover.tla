------------------------------ MODULE Handover ------------------------------
(***************************************************************************)
(* What reloads promise of the process they run in: they start children    *)
(* and look at each after a while.  The process is replaced only once one  *)
(* of them was found running, and that is never taken back.  A process     *)
(* whose reloads come one at a time refuses all connections from before    *)
(* the child is started until the child is found gone, or for good.  When  *)
(* they overlap, a reload that fails ends the refusal of the others too.   *)
(* The process may end of something else at any time.                      *)
(*                                                                         *)
(* HotReload, which has the steps of a reload, and Generations, which has  *)
(* the processes, both implement it.                                       *)
(***************************************************************************)
CONSTANT Children         \* the children it may be waiting on

VARIABLES
    waiting,              \* the children started and not looked at yet
    leaving,              \* one of them was found running
    how,                  \* "up", or how the process ended
    refusing,             \* it refuses connections
    single                \* its reloads have come one at a time

vars == <<waiting, leaving, how, refusing, single>>

Init ==
    /\ waiting = {}
    /\ leaving = FALSE
    /\ how = "up"
    /\ refusing = FALSE
    /\ single \in BOOLEAN

Undecided == waiting = {} /\ ~leaving

(* A reload begins, or drains: it may be the second one.                   *)
Refuse ==
    /\ how = "up"
    /\ refusing' = TRUE
    /\ single' => single
    /\ UNCHANGED <<waiting, leaving, how>>

Resume ==
    /\ how = "up"
    /\ single => Undecided
    /\ refusing' = FALSE
    /\ UNCHANGED <<waiting, leaving, how, single>>

Start(c) ==
    /\ how = "up"
    /\ c \notin waiting
    /\ single => refusing /\ Undecided
    /\ waiting' = waiting \cup {c}
    /\ UNCHANGED <<leaving, how, refusing, single>>

FoundRunning(c) ==
    /\ how = "up"
    /\ c \in waiting
    /\ waiting' = waiting \ {c}
    /\ leaving' = TRUE
    /\ UNCHANGED <<how, refusing, single>>

FoundGone(c) ==
    /\ how = "up"
    /\ c \in waiting
    /\ waiting' = waiting \ {c}
    /\ UNCHANGED <<leaving, how, refusing, single>>

(* Its children live on, but nobody looks at them any more.                *)
End ==
    /\ how = "up"
    /\ how' \in {"other"} \cup (IF leaving THEN {"replaced"} ELSE {})
    /\ waiting' = {}
    /\ leaving' = FALSE
    /\ UNCHANGED <<refusing, single>>

Next ==
    \/ Refuse \/ Resume
    \/ \E c \in Children : Start(c) \/ FoundRunning(c) \/ FoundGone(c)
    \/ End

Spec == Init /\ [][Next]_vars
=============================================================================
