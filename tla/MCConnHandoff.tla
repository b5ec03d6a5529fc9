--------------------------- MODULE MCConnHandoff ---------------------------
(***************************************************************************)
(* ConnHandoff for TLC: two connections to file servers and one to an      *)
(* HTTP/2 multiplexer or a DoH server.                                     *)
(***************************************************************************)
EXTENDS ConnHandoff
=============================================================================
