------------------------------ MODULE MCUdpEcho ------------------------------
(* Small instances of UdpEcho for TLC: the configuration gives every        *)
(* constant its value.                                                      *)
EXTENDS UdpEcho
=============================================================================
