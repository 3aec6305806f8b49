----------------------------- MODULE MCWalReader -----------------------------
(* Instances of WalReader for TLC: a payload of one fragment and one of     *)
(* two.                                                                    *)
EXTENDS WalReader

MCRanges == {[from |-> from, limit |-> 2] : from \in 1..2}

MCParts == [p \in Payloads |-> IF p = "small" THEN 1 ELSE 2]
==============================================================================
