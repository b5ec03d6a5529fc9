--------------------------- MODULE MCGenerations ---------------------------
(***************************************************************************)
(* Generations for TLC.                                                    *)
(***************************************************************************)
EXTENDS Generations
=============================================================================
