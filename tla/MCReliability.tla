---------------------------- MODULE MCReliability ----------------------------
(* Small instances of Reliability for TLC.                                  *)
EXTENDS Reliability

\* Every second message is a PING.
MCPings == {id \in Ids : id % 2 = 0}
=============================================================================
