---------------------------- MODULE MCHotReload ----------------------------
(***************************************************************************)
(* HotReload for TLC.                                                      *)
(***************************************************************************)
EXTENDS HotReload, TLC

(* Connections are interchangeable in safety runs; reloads are not, since  *)
(* one of them is the signal handler's.                                    *)
ConnSymmetry == Permutations(Conns)
=============================================================================
