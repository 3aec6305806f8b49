------------------------------ MODULE WalReader ------------------------------
(***************************************************************************)
(* ReadRange and Reader.Next (reader.go) against everything else the log   *)
(* does.  One range takes the mutex twice per record, for LastSeq and for  *)
(* Read, and looks at the index a third time without it; appends, flushes, *)
(* cleanings and recoveries come between, and during the last look even    *)
(* inside one another call.                                                *)
(*                                                                         *)
(* Read holds the mutex while rpc is "reading": it flushes with Wal's own  *)
(* steps, or not at all, and then looks the record up.                     *)
(***************************************************************************)
EXTENDS Wal

CONSTANT Ranges   \* bound: the arguments of ReadRange; a limit below 1 returns at once

ASSUME RangesAssumption == Ranges \subseteq [from : Nat \ {0}, limit : Nat \ {0}]

VARIABLES
  rpc,       \* what ReadRange does next, or how it returned
  next,      \* Reader.next
  args,      \* from and limit
  entries,   \* the entries so far, each with the location its data came from
  goal,      \* LastSeq when ReadRange was called (history)
  forgotten  \* the highest mark given to CleanOldSegments (history)

range == <<rpc, next, args, entries>>
rvars == <<vars, range, goal, forgotten>>

NoArgs  == [from |-> 1, limit |-> 0]
Nowhere == [seg |-> 0, off |-> 0, n |-> 0]

\* The reader's process is gone, or its range has not begun.
NoRange == rpc = "none" /\ next = 1 /\ args = NoArgs /\ entries = <<>>

-------------------------------------------------------------------------------
ReadRange(r) ==
  /\ open /\ rpc = "none"
  /\ rpc' = "range" /\ next' = r.from /\ entries' = <<>>
  /\ args' = r
  /\ goal' = nextSeq - 1
  /\ UNCHANGED <<vars, forgotten>>

\* The head of ReadRange's loop: the limit, then the context.
NextRecord ==
  /\ rpc = "range"
  /\ rpc' \in IF Len(entries) < args.limit THEN {"next", "cancelled"} ELSE {"full"}
  /\ UNCHANGED <<vars, next, args, entries, goal, forgotten>>

\* LastSeq
CheckLast ==
  /\ rpc = "next" /\ Idle
  /\ rpc' = IF next > nextSeq - 1 THEN "eof" ELSE "read"
  /\ UNCHANGED <<vars, next, args, entries, goal, forgotten>>

\* Mutant: what lies in the file is read without waiting for an fsync.
ReadUnsynced ==
  /\ rpc = "read" /\ Idle
  /\ rpc' = "reading"
  /\ IF pending # <<>> THEN Sync ELSE UNCHANGED vars
  /\ UNCHANGED <<next, args, entries, goal, forgotten>>

\* Mutant: Read does not flush.
ReadUnflushed ==
  /\ rpc = "read" /\ Idle
  /\ rpc' = "reading"
  /\ UNCHANGED <<vars, next, args, entries, goal, forgotten>>

\* Read takes the mutex and flushes what is not durable yet.
Read ==
  /\ rpc = "read" /\ Idle
  /\ rpc' = "reading"
  /\ IF next > durable THEN Sync ELSE UNCHANGED vars
  /\ UNCHANGED <<next, args, entries, goal, forgotten>>

\* A step of its flush, which fails behind it or goes on.
ReadFlushes ==
  /\ rpc = "reading"
  /\ \/ WriteAll \/ WriteRest \/ SyncFile
     \/ \E k \in 0..Len(pending), torn \in BOOLEAN : WritePart(k, torn)
  /\ UNCHANGED <<range, goal, forgotten>>

ReadFlushFails ==
  /\ rpc = "reading"
  /\ WriteFails \/ Rollback \/ RollbackFails \/ SyncFails
  /\ rpc' = "error"
  /\ UNCHANGED <<next, args, entries, goal, forgotten>>

\* No flush was needed, or it has succeeded.
Reading == rpc = "reading" /\ Idle

\* The index and w.segments have the record.
Found == next \in DOMAIN index /\ index[next].seg \in segs

\* Its segment is open and its m fragments decode.
Readable(m) == /\ Found /\ index[next].seg \notin shut
               /\ ReadsAt(disk[index[next].seg].data, next, index[next], m)

\* Mutant: a record that cannot be read is passed over like a missing one.
ReadNotFoundOrBad ==
  /\ Reading
  /\ ~(Found /\ \E m \in 1..index[next].n : Readable(m))
  /\ next' = next + 1 /\ rpc' = "next"
  /\ UNCHANGED <<vars, args, entries, goal, forgotten>>

\* ErrNotFound: Next goes on with the next sequence.
ReadNotFound ==
  /\ Reading /\ ~Found
  /\ next' = next + 1 /\ rpc' = "next"
  /\ UNCHANGED <<vars, args, entries, goal, forgotten>>

\* Mutant: a read returns with its first fragment.
ReadReturnsFirst ==
  /\ Reading /\ Found
  /\ \E m \in 1..index[next].n :
       /\ Readable(m)
       /\ LET loc == index[next]
          IN  entries' = Append(entries,
                [seq |-> next, at |-> loc, loc |-> Nowhere,
                 data |-> SubSeq(disk[loc.seg].data, loc.off + 1, loc.off + 1)])
  /\ rpc' = "locate"
  /\ UNCHANGED <<vars, next, args, goal, forgotten>>

ReadReturns ==
  /\ Reading /\ Found
  /\ \E m \in 1..index[next].n :
       /\ Readable(m)
       /\ LET loc == index[next]
          IN  entries' = Append(entries,
                [seq |-> next, at |-> loc, loc |-> Nowhere,
                 data |-> SubSeq(disk[loc.seg].data, loc.off + 1, loc.off + m)])
  /\ rpc' = "locate"
  /\ UNCHANGED <<vars, next, args, goal, forgotten>>

\* A CorruptionError: the segment's handle is closed, or a fragment is not that
\* record's or does not decode.
ReadFails ==
  /\ Reading /\ Found /\ ~\E m \in 1..index[next].n : Readable(m)
  /\ rpc' = "corrupt"
  /\ UNCHANGED <<vars, next, args, entries, goal, forgotten>>

LocationOf(seq) == IF seq \in DOMAIN index THEN index[seq] ELSE Nowhere

\* Mutant: the reader has moved on before it looks the location up.
LocateNext ==
  /\ rpc = "locate"
  /\ entries' = [entries EXCEPT ![Len(entries)].loc = LocationOf(next + 1)]
  /\ next' = next + 1 /\ rpc' = "range"
  /\ UNCHANGED <<vars, args, goal, forgotten>>

\* The second look at the index, without w.mu and at any time.  While a recovery
\* scans, it meets the old index, or the new one before or behind this record.
Locate ==
  /\ rpc = "locate"
  /\ \E loc \in {LocationOf(next)} \cup (IF pc = "recover" THEN {Nowhere} ELSE {}) :
       entries' = [entries EXCEPT ![Len(entries)].loc = loc]
  /\ next' = next + 1 /\ rpc' = "range"
  /\ UNCHANGED <<vars, args, goal, forgotten>>

\* The caller has its answer.
Finish ==
  /\ rpc \in {"full", "eof", "cancelled", "error", "corrupt"}
  /\ rpc' = "none" /\ next' = 1 /\ args' = NoArgs /\ entries' = <<>>
  /\ goal' = 0
  /\ UNCHANGED <<vars, forgotten>>

\* Everything else the log does, with the mutex free of the reader.  A reader ends with
\* its process.
Around ==
  /\ Next
  /\ rpc = "reading" => ~open'
  /\ IF open => open' THEN UNCHANGED <<range, goal>>
     ELSE rpc' = "none" /\ next' = 1 /\ args' = NoArgs /\ entries' = <<>> /\ goal' = 0
  /\ forgotten' = IF pc = "clean" /\ call.mark > forgotten THEN call.mark ELSE forgotten

-------------------------------------------------------------------------------
RInit == Init /\ NoRange /\ goal = 0 /\ forgotten = 0

Reads == \/ \E r \in Ranges : ReadRange(r)
         \/ NextRecord \/ CheckLast
         \/ Read \/ ReadFlushes \/ ReadFlushFails \/ ReadNotFound \/ ReadReturns \/ ReadFails
         \/ Locate \/ Finish

RNext == Around \/ Reads

RSpec == RInit /\ [][RNext]_rvars

-------------------------------------------------------------------------------
(* Properties                                                              *)

\* What a range has returned is durable: no crash shows a reader to have seen a
\* record that never was.
EntriesDurable == \A i \in 1..Len(entries) : entries[i].seq <= promised

\* A range that ends without an error has returned whole records in their order, and
\* passed over none that had been appended when it began, unless a caller asked to
\* forget it; though segments are rotated, cleaned and rescanned while it runs.
RangeExact ==
  rpc \in {"full", "eof"} =>
    /\ \A i \in 1..Len(entries) :
         /\ entries[i].data = Fragments(entries[i].seq, hist[entries[i].seq])
         /\ i > 1 => entries[i-1].seq < entries[i].seq
    /\ \A seq \in args.from..(IF rpc = "eof" THEN goal ELSE next - 1) :
         seq < forgotten \/ \E i \in 1..Len(entries) : entries[i].seq = seq

\* A CorruptionError is never false: the record is damaged on disk, or a caller asked
\* to forget it.
CorruptionReal ==
  [][rpc' = "corrupt" /\ rpc # "corrupt" =>
       \/ next < forgotten
       \/ \E s \in DOMAIN disk : \E i \in 1..Len(disk[s].data) :
            disk[s].data[i].seq = next /\ disk[s].data[i].kind = "bad"]_rvars

\* An entry that is complete carries the place its data came from, or none at all:
\* never that of another record.
LocationTrueOrNone ==
  \A i \in 1..Len(entries) :
    entries[i].loc # Nowhere => entries[i].loc = entries[i].at
===============================================================================
