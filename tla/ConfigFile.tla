----------------------------- MODULE ConfigFile -----------------------------
(***************************************************************************)
(* What whoever reads the configuration file relies on: it holds the       *)
(* configuration the service was installed with, or one that the Web UI    *)
(* has validated, and it goes from one to the next in one step, even when  *)
(* a process is killed in the middle of a save.  Saving implements it.     *)
(***************************************************************************)
CONSTANTS
    Installed,  \* what the file may hold to begin with
    Accepted    \* what passes the validation of the Web UI

VARIABLE file

Init == file \in Installed

Replace == \E c \in Accepted : file' = c

Spec == Init /\ [][Replace]_file
=============================================================================
