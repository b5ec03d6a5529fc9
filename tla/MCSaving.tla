------------------------------ MODULE MCSaving ------------------------------
(***************************************************************************)
(* Saving for TLC.                                                         *)
(***************************************************************************)
EXTENDS Saving
=============================================================================
