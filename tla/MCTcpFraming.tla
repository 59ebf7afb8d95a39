---------------------------- MODULE MCTcpFraming ----------------------------
(* Small instances of TcpFraming for TLC: the configuration gives every     *)
(* constant its value.                                                      *)
EXTENDS TcpFraming
=============================================================================
