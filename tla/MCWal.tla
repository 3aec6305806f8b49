-------------------------------- MODULE MCWal --------------------------------
(* Instances of Wal for TLC: a payload of one fragment, one that shares a   *)
(* segment of three frames, and one that outgrows it.                      *)
EXTENDS Wal, TLC

MCParts == [p \in Payloads |-> CASE p = "small" -> 1 [] p = "large" -> 2 [] OTHER -> 4]
==============================================================================
