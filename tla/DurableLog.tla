------------------------------ MODULE DurableLog ------------------------------
(***************************************************************************)
(* What the WAL promises its callers.  The log is the sequence of payloads *)
(* assigned sequence numbers 1, 2, ...; its first durable entries are      *)
(* promised to survive.  A crash takes the process down; a restart brings  *)
(* back a prefix of the log that keeps everything promised, and promises   *)
(* all of what it brings back.                                             *)
(***************************************************************************)
EXTENDS Integers, Sequences

CONSTANT Payloads

VARIABLES log,      \* payloads by sequence number
          durable,  \* the first durable entries are promised
          up        \* the log is open

vars == <<log, durable, up>>

Init == log = <<>> /\ durable = 0 /\ up = FALSE

Write(p) == up /\ log' = Append(log, p) /\ UNCHANGED <<durable, up>>

Force(n) == up /\ durable < n /\ durable' = n /\ UNCHANGED <<log, up>>

Stop == up /\ up' = FALSE /\ UNCHANGED <<log, durable>>

Restart(n) == /\ ~up /\ up' = TRUE
              /\ log' = SubSeq(log, 1, n)
              /\ durable' = n

Next == \/ \E p \in Payloads : Write(p)
        \/ \E n \in 1..Len(log) : Force(n)
        \/ Stop
        \/ \E n \in durable..Len(log) : Restart(n)

Spec == Init /\ [][Next]_vars
==============================================================================
