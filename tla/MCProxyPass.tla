---------------------------- MODULE MCProxyPass ----------------------------
(***************************************************************************)
(* ProxyPass for TLC.                                                      *)
(***************************************************************************)
EXTENDS ProxyPass
=============================================================================
