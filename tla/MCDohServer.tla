---------------------------- MODULE MCDohServer ----------------------------
(***************************************************************************)
(* DohServer for TLC.                                                      *)
(***************************************************************************)
EXTENDS DohServer
=============================================================================
