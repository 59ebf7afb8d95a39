--------------------------- MODULE MCClientSession ---------------------------
(* Small instances of ClientSession for TLC: the configurations give every  *)
(* constant its value.                                                      *)
EXTENDS ClientSession
=============================================================================
