------------------------------ MODULE DurableMap ------------------------------
(***************************************************************************)
(* What the store promises its callers, without snapshots, batches or the  *)
(* order in which the log is read.  A command that is given gets the next  *)
(* sequence; it is taken into the map at once, later or never, in the      *)
(* order of the sequences, and the map is always what a replay of the      *)
(* taken commands makes of it.  What a caller was told of, by the success  *)
(* of an update or by the value of a key, is never forgotten: a restart    *)
(* keeps it in the log, and the map is shown as rebuilt only with all of   *)
(* it taken.                                                               *)
(***************************************************************************)
EXTENDS Naturals, Sequences

CONSTANT Keys

VARIABLES log,    \* commands by sequence number
          taken,  \* sequences of the commands that the map reflects
          map,    \* key -> sequence of the set that gave its value, 0 for no entry
          told,   \* sequences of the commands whose effect a caller knows of
          state   \* whether the map is there

vars == <<log, taken, map, told, state>>

Command == [op : {"set", "delete"}, key : Keys]

\* The last command of D about the key is a set, and it is s.
Gives(l, D, k, s) == /\ s \in D /\ l[s] = [op |-> "set", key |-> k]
                     /\ \A t \in D : l[t].key = k => t <= s

\* What the commands of D, one after the other, leave in an empty map.
Replayed(l, D) ==
  [k \in Keys |-> IF \E s \in D : Gives(l, D, k, s) THEN CHOOSE s \in D : Gives(l, D, k, s) ELSE 0]

Nothing == taken = {} /\ map = [k \in Keys |-> 0]

Init == log = <<>> /\ Nothing /\ told = {} /\ state = "down"

Give(cmd) == /\ state = "ready"
             /\ log' = Append(log, cmd)
             /\ UNCHANGED <<taken, map, told, state>>

\* The next command comes to the map, and whatever it makes no difference to; callers
\* may hear of it, and of others that are taken, in the same step.
Take(s) == /\ state # "down" /\ \A t \in taken : t < s
           /\ taken \cup {s} \subseteq taken' /\ taken' \subseteq 1..s
           /\ map' = [map EXCEPT ![log[s].key] = IF log[s].op = "set" THEN s ELSE 0]
           /\ map' = Replayed(log, taken')
           /\ told \subseteq told' /\ told' \ told \subseteq taken'
           /\ UNCHANGED <<log, state>>

Tell(S) == /\ state # "down" /\ S \subseteq taken
           /\ told' = told \cup S
           /\ UNCHANGED <<log, taken, map, state>>

Stop == /\ state # "down" /\ state' = "down"
        /\ Nothing'
        /\ UNCHANGED <<log, told>>

\* A restart may lose the commands behind the first n; nobody was told of them.
Start(n) == /\ state = "down" /\ state' = "rebuilding"
            /\ told \subseteq 1..n /\ log' = SubSeq(log, 1, n)
            /\ UNCHANGED <<taken, map, told>>

Rebuild == /\ state = "ready" /\ state' = "rebuilding"
           /\ Nothing'
           /\ UNCHANGED <<log, told>>

\* Many commands are taken at once: they were put aside together.
Load(D) == /\ state = "rebuilding" /\ Nothing
           /\ taken' = D /\ map' = Replayed(log, D)
           /\ UNCHANGED <<log, told, state>>

Show == /\ state = "rebuilding" /\ state' = "ready"
        /\ told \subseteq taken
        /\ UNCHANGED <<log, taken, map, told>>

Next == \/ \E cmd \in Command : Give(cmd)
        \/ \E s \in 1..Len(log) : Take(s)
        \/ \E S \in SUBSET taken : Tell(S)
        \/ Stop \/ Rebuild \/ Show
        \/ \E n \in 0..Len(log) : Start(n)
        \/ \E D \in SUBSET (1..Len(log)) : Load(D)

Spec == Init /\ [][Next]_vars
===============================================================================
