---------------------------- MODULE MCPingSeries ----------------------------
(* Small instances of PingSeries for TLC: every message is a PING.          *)
EXTENDS PingSeries

MCPings == Ids
=============================================================================
