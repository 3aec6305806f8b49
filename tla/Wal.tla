--------------------------------- MODULE Wal ---------------------------------
(***************************************************************************)
(* The segmented write-ahead log of internal/wal, with the directory it    *)
(* writes, crashes of its process and losses of power.                     *)
(*                                                                         *)
(* One mutex serializes every call, so one call is in progress at a time:  *)
(* pc is the step it is about to take, resume the step that follows its    *)
(* flush, call its arguments.  A crash may come between any two steps.     *)
(* Sizes are in frames: MaxSegmentBytes, BatchSize, and offsets.           *)
(***************************************************************************)
EXTENDS WalScan, FiniteSets

CONSTANTS
  MaxSegmentBytes, BatchSize,  \* Options, in frames
  SyncAlways,      \* Options.SyncPolicy = SyncAlways
  MaxSeq,          \* bound: records appended in one behaviour's log
  Faults,          \* system calls that may fail
  SyncNamesFile,   \* fsync of a new file also makes its directory entry durable
  SyncFailDrops,   \* a failed fsync discards the dirty pages it did not write
  ExitSettles      \* what a dead process wrote reaches the disk before power fails

FaultKinds == {"write", "rollback", "sync", "create", "remove", "corrupt"}

ASSUME OptionsAssumption ==
  /\ MaxSegmentBytes \in Nat \ {0} /\ BatchSize \in Nat \ {0}
  /\ SyncAlways \in BOOLEAN /\ MaxSeq \in Nat

ASSUME EnvironmentAssumption ==
  /\ Faults \subseteq FaultKinds
  /\ SyncNamesFile \in BOOLEAN /\ SyncFailDrops \in BOOLEAN /\ ExitSettles \in BOOLEAN

VARIABLES
  disk,      \* the directory: first sequence of a segment -> its file
  open,      \* a WAL value exists and is not closed
  segs,      \* w.segments, by first sequence
  shut,      \* those of segs whose file handle is closed
  cur,       \* w.cur
  pending,   \* w.pending: frames not yet written
  before,    \* flushLocked's before, while a write is under way
  index,     \* w.index: sequence -> location
  nextSeq,   \* w.nextSeq
  durable,   \* w.durable
  unsynced,  \* w.unsyncedHigh
  pc, resume, call,
  hist,      \* the payloads assigned sequences 1, 2, ... (history)
  promised   \* the highest sequence ever reported durable (history)

memory  == <<open, segs, shut, cur, pending, before, index, nextSeq, durable, unsynced>>
control == <<pc, resume, call>>
history == <<hist, promised>>
vars    == <<disk, memory, control, history>>

-------------------------------------------------------------------------------
(* Files.  A loss of power keeps at least the first stable frames of a file, *)
(* and may drop a file whose directory entry is not named durably.          *)

File == [data : Seq(Frame), stable : Nat, named : BOOLEAN, dropped : BOOLEAN]

NewFile == [data |-> <<>>, stable |-> 0, named |-> FALSE, dropped |-> FALSE]

Settled(d) == [data |-> d, stable |-> Len(d), named |-> TRUE, dropped |-> FALSE]

\* What a loss of power may leave of a file: a prefix, cut anywhere.
Remains(f) ==
  {SubSeq(f.data, 1, k) : k \in f.stable..Len(f.data)} \cup
  {Append(SubSeq(f.data, 1, k), [f.data[k+1] EXCEPT !.kind = "torn"]) :
     k \in f.stable..Len(f.data) - 1}

\* fsync of a file; one that was dropped from the cache is not written again.
Synced(f) == [f EXCEPT !.stable = IF f.dropped THEN @ ELSE Len(f.data),
                       !.named  = @ \/ SyncNamesFile]

Contents(S) == [s \in S |-> disk[s].data]

-------------------------------------------------------------------------------
(* Calls.                                                                   *)

NoCall == [payload |-> CHOOSE p \in Payloads : TRUE, force |-> FALSE,
           mark |-> 0, todo |-> {}]

Call == [payload : Payloads, force : BOOLEAN, mark : Nat, todo : SUBSET (Nat \ {0})]

Idle == open /\ pc = "idle"

Return == pc' = "idle" /\ resume' = "idle" /\ call' = NoCall

\* Mutant: every flush reaches the fsync, with nothing unsynced too.
StartFlushAlwaysSyncing(next) ==
  resume' = next /\ pc' = IF pending # <<>> THEN "write" ELSE "sync"

\* Mutant: a flush with an empty buffer forgets an fsync that failed before.
StartFlushIgnoringUnsynced(next) ==
  IF pending # <<>> THEN pc' = "write" /\ resume' = next
                    ELSE pc' = next /\ resume' = "idle"

\* flushLocked begins; next is the caller's step behind it.
StartFlush(next) ==
  IF pending # <<>> THEN pc' = "write" /\ resume' = next
  ELSE IF unsynced > 0 THEN pc' = "sync" /\ resume' = next
  ELSE pc' = next /\ resume' = "idle"

\* flushLocked returned an error: every caller but Close returns it.
FlushFails ==
  /\ pc' = IF resume = "close" THEN "close" ELSE "idle"
  /\ resume' = "idle"
  /\ call' = NoCall

-------------------------------------------------------------------------------
(* append                                                                   *)

\* Mutant: the frames still in the buffer are not counted.
RotatesOnFileSize(p) ==
  LET used == Len(disk[cur].data)
  IN  IF Parts[p] > MaxSegmentBytes THEN used > 0 ELSE used + Parts[p] > MaxSegmentBytes

Rotates(p) ==
  LET used == Len(disk[cur].data) + Len(pending)
  IN  IF Parts[p] > MaxSegmentBytes THEN used > 0 ELSE used + Parts[p] > MaxSegmentBytes

\* Mutant: the location ignores the frames still in the buffer.
BufferAtFileEnd(p, force) ==
  /\ pending' = pending \o Fragments(nextSeq, p)
  /\ index' = [seq \in DOMAIN index \cup {nextSeq} |->
                 IF seq = nextSeq THEN [seg |-> cur, off |-> Len(disk[cur].data), n |-> Parts[p]]
                                  ELSE index[seq]]
  /\ nextSeq' = nextSeq + 1
  /\ hist' = Append(hist, p)
  /\ pc' = IF force \/ SyncAlways \/ Len(pending') >= BatchSize THEN "write" ELSE "idle"
  /\ resume' = "idle" /\ call' = NoCall
  /\ UNCHANGED <<disk, open, segs, shut, cur, before, durable, unsynced, promised>>

\* The record joins the group-commit buffer and the index; the policy may
\* demand a flush before the call returns.
Buffer(p, force) ==
  /\ pending' = pending \o Fragments(nextSeq, p)
  /\ index' = [seq \in DOMAIN index \cup {nextSeq} |->
                 IF seq = nextSeq
                 THEN [seg |-> cur, off |-> Len(disk[cur].data) + Len(pending), n |-> Parts[p]]
                 ELSE index[seq]]
  /\ nextSeq' = nextSeq + 1
  /\ hist' = Append(hist, p)
  /\ pc' = IF force \/ SyncAlways \/ Len(pending') >= BatchSize THEN "write" ELSE "idle"
  /\ resume' = "idle" /\ call' = NoCall
  /\ UNCHANGED <<disk, open, segs, shut, cur, before, durable, unsynced, promised>>

AppendInPlace(p, force) ==
  /\ Idle /\ nextSeq <= MaxSeq
  /\ ~Rotates(p)
  /\ Buffer(p, force)

\* Mutant: the new segment is created before the buffer is flushed.
AppendRotatingUnflushed(p, force) ==
  /\ Idle /\ nextSeq <= MaxSeq
  /\ Rotates(p)
  /\ pc' = "create" /\ resume' = "idle"
  /\ call' = [NoCall EXCEPT !.payload = p, !.force = force]
  /\ UNCHANGED <<disk, memory, history>>

\* rotateLocked: flush the current segment first.
AppendRotating(p, force) ==
  /\ Idle /\ nextSeq <= MaxSeq
  /\ Rotates(p)
  /\ StartFlush("create")
  /\ call' = [NoCall EXCEPT !.payload = p, !.force = force]
  /\ UNCHANGED <<disk, memory, history>>

CreateSegment ==
  /\ pc = "create" /\ nextSeq \notin DOMAIN disk
  /\ disk' = [s \in DOMAIN disk \cup {nextSeq} |-> IF s = nextSeq THEN NewFile ELSE disk[s]]
  /\ segs' = segs \cup {nextSeq}
  /\ cur' = nextSeq
  /\ pc' = "put"
  /\ UNCHANGED <<open, shut, pending, before, index, nextSeq, durable, unsynced,
                 resume, call, history>>

CreateFails ==
  /\ pc = "create" /\ (nextSeq \in DOMAIN disk \/ "create" \in Faults)
  /\ Return
  /\ UNCHANGED <<disk, memory, history>>

AppendToNewSegment == pc = "put" /\ Buffer(call.payload, call.force)

-------------------------------------------------------------------------------
(* flushLocked                                                              *)

\* The current segment holds d from here on; a write stabilizes nothing.
Writes(d) == disk' = [disk EXCEPT ![cur].data = d]

WriteAll ==
  /\ pc = "write"
  /\ Writes(disk[cur].data \o pending)
  /\ unsynced' = nextSeq - 1
  /\ pending' = <<>>
  /\ pc' = "sync"
  /\ UNCHANGED <<open, segs, shut, cur, before, index, nextSeq, durable,
                 resume, call, history>>

\* Some bytes of the buffer are in the file: k whole frames, or k and a torn one.
WritePart(k, torn) ==
  /\ pc = "write"
  /\ k + (IF torn THEN 1 ELSE 0) \in 1..Len(pending) /\ k < Len(pending)
  /\ before' = Len(disk[cur].data)
  /\ Writes(disk[cur].data \o SubSeq(pending, 1, k)
              \o IF torn THEN <<[pending[k+1] EXCEPT !.kind = "torn"]>> ELSE <<>>)
  /\ pc' = "partial"
  /\ UNCHANGED <<open, segs, shut, cur, pending, index, nextSeq, durable, unsynced,
                 resume, call, history>>

WriteRest ==
  /\ pc = "partial"
  /\ Writes(SubSeq(disk[cur].data, 1, before) \o pending)
  /\ before' = 0
  /\ unsynced' = nextSeq - 1
  /\ pending' = <<>>
  /\ pc' = "sync"
  /\ UNCHANGED <<open, segs, shut, cur, index, nextSeq, durable, resume, call, history>>

\* The write fails before its first byte.
WriteFails ==
  /\ pc = "write" /\ "write" \in Faults
  /\ FlushFails
  /\ UNCHANGED <<disk, memory, history>>

\* Mutant: the buffer is not put back.
RollbackLosingBuffer ==
  /\ pc = "partial" /\ "write" \in Faults
  /\ Writes(SubSeq(disk[cur].data, 1, before))
  /\ before' = 0
  /\ pending' = <<>>
  /\ FlushFails
  /\ UNCHANGED <<open, segs, shut, cur, index, nextSeq, durable, unsynced, history>>

\* The write fails half-way; the segment is cut back and the buffer kept.
Rollback ==
  /\ pc = "partial" /\ "write" \in Faults
  /\ Writes(SubSeq(disk[cur].data, 1, before))
  /\ before' = 0
  /\ FlushFails
  /\ UNCHANGED <<open, segs, shut, cur, pending, index, nextSeq, durable, unsynced, history>>

\* The write fails half-way and so does the cut: the buffer is gone.
RollbackFails ==
  /\ pc = "partial" /\ {"write", "rollback"} \subseteq Faults
  /\ before' = 0
  /\ pending' = <<>>
  /\ FlushFails
  /\ UNCHANGED <<disk, open, segs, shut, cur, index, nextSeq, durable, unsynced, history>>

SyncFile ==
  /\ pc = "sync"
  /\ disk' = [disk EXCEPT ![cur] = Synced(@)]
  /\ durable' = unsynced
  /\ promised' = IF unsynced > promised THEN unsynced ELSE promised
  /\ unsynced' = 0
  /\ pc' = resume
  /\ resume' = "idle"
  /\ UNCHANGED <<open, segs, shut, cur, pending, before, index, nextSeq, call, hist>>

\* Mutant: the error of fsync is ignored.
SyncFailsUnnoticed ==
  /\ pc = "sync" /\ "sync" \in Faults
  /\ disk' = [disk EXCEPT ![cur].dropped = @ \/ SyncFailDrops]
  /\ durable' = unsynced
  /\ promised' = IF unsynced > promised THEN unsynced ELSE promised
  /\ unsynced' = 0
  /\ pc' = resume /\ resume' = "idle"
  /\ UNCHANGED <<open, segs, shut, cur, pending, before, index, nextSeq, call, hist>>

SyncFails ==
  /\ pc = "sync" /\ "sync" \in Faults
  /\ disk' = [disk EXCEPT ![cur].dropped = @ \/ SyncFailDrops]
  /\ FlushFails
  /\ UNCHANGED <<memory, history>>

\* Sync, Replay, Verify, and Read of a sequence above the watermark.
Sync ==
  /\ Idle
  /\ StartFlush("idle")
  /\ UNCHANGED <<disk, memory, call, history>>

\* A tick of periodicFlush.
PeriodicFlush ==
  /\ Idle
  /\ StartFlush("idle")
  /\ UNCHANGED <<disk, memory, call, history>>

-------------------------------------------------------------------------------
(* recoverLocked                                                            *)

Cut(f, k) == [f EXCEPT !.data = SubSeq(@, 1, k), !.stable = IF @ < k THEN @ ELSE k]

\* The scan kept k frames of the newest segment, top; trimTail removes the rest
\* and syncs the file.
Trimmed(top, k) ==
  IF k = Len(disk[top].data) THEN disk
  ELSE [disk EXCEPT ![top] = Synced(Cut(@, k))]

RecoverLocked(S, top, k) ==
  LET files == [Contents(S) EXCEPT ![top] = SubSeq(@, 1, k)]
      last  == LastSeqOf(files[top], top - 1)
  IN  /\ Recovers(Contents(S), top, k)
      /\ disk' = Trimmed(top, k)
      /\ index' = IndexOf(files)
      /\ nextSeq' = last + 1
      /\ durable' = last
      /\ cur' = top
      /\ hist' = SubSeq(hist, 1, last)
      /\ promised' = IF last > promised THEN last ELSE promised

Recover ==
  /\ Idle
  /\ StartFlush("recover")
  /\ UNCHANGED <<disk, memory, call, history>>

RecoverScan(top, k) ==
  /\ pc = "recover" /\ shut = {}
  /\ RecoverLocked(segs, top, k)
  /\ Return
  /\ UNCHANGED <<open, segs, shut, pending, before, unsynced>>

\* A segment is unreadable or corrupt: the old index stays in use.
RecoverFails ==
  /\ pc = "recover" /\ (shut = {} => Refuses(Contents(segs)))
  /\ Return
  /\ UNCHANGED <<disk, memory, history>>

\* The torn tail that a failed rollback left stays, or is cut off and the Sync behind the
\* cut fails: the old index stays in use, too.
TrimFails(top, k) ==
  /\ pc = "recover" /\ shut = {}
  /\ Recovers(Contents(segs), top, k) /\ k < Len(disk[top].data)
  /\ \/ "rollback" \in Faults /\ UNCHANGED disk
     \/ /\ "sync" \in Faults
        /\ disk' = [disk EXCEPT ![top] = [Cut(@, k) EXCEPT !.dropped = disk[top].dropped \/ SyncFailDrops]]
  /\ Return
  /\ UNCHANGED <<memory, history>>

OpenDirectory(top, k) ==
  /\ ~open
  /\ RecoverLocked(DOMAIN disk, top, k)
  /\ open' = TRUE
  /\ segs' = DOMAIN disk
  /\ UNCHANGED <<shut, pending, before, unsynced, control>>

OpenEmptyDirectory ==
  /\ ~open /\ DOMAIN disk = {}
  /\ disk' = [s \in {1} |-> NewFile]
  /\ open' = TRUE /\ segs' = {1} /\ cur' = 1
  /\ index' = <<>> /\ nextSeq' = 1 /\ durable' = 0
  /\ hist' = <<>>
  /\ UNCHANGED <<shut, pending, before, unsynced, control, promised>>

\* Open dies, or its Sync fails, behind the truncation of the torn tail.
OpenInterrupted(top, k) ==
  /\ ~open
  /\ Recovers(Contents(DOMAIN disk), top, k)
  /\ disk' = Trimmed(top, k)
  /\ UNCHANGED <<memory, control, history>>

-------------------------------------------------------------------------------
(* CleanOldSegments and Corrupt                                             *)

\* Mutant: the newest segment is taken to end at the durable watermark.
EndSeqDurable(s) == IF \E t \in segs : t > s
                    THEN (CHOOSE t \in segs : Adjacent(segs, s, t)) - 1
                    ELSE durable

EndSeq(s) == IF \E t \in segs : t > s
             THEN (CHOOSE t \in segs : Adjacent(segs, s, t)) - 1
             ELSE nextSeq - 1

\* Mutants: the current segment is not spared; a segment that ends at the mark goes.
OldWithCurrent(mark) == {s \in segs : EndSeq(s) < mark}
OldThroughMark(mark) == {s \in segs \ {cur} : EndSeq(s) <= mark}

Old(mark) == {s \in segs \ {cur} : EndSeq(s) < mark}

CleanOldSegments(mark) ==
  /\ Idle
  /\ StartFlush("clean")
  /\ call' = [NoCall EXCEPT !.mark = mark, !.todo = Old(mark)]
  /\ UNCHANGED <<disk, memory, history>>

\* Mutant: the segments are removed in any order.
CleanSegmentAnyOrder(s) ==
  /\ pc = "clean" /\ s \in call.todo
  /\ disk' = [t \in DOMAIN disk \ {s} |-> [disk[t] EXCEPT !.named = TRUE]]
  /\ shut' = shut \cup {s}
  /\ call' = [call EXCEPT !.todo = @ \ {s}]
  /\ UNCHANGED <<open, segs, cur, pending, before, index, nextSeq, durable, unsynced,
                 pc, resume, history>>

\* Close and remove the oldest segment in line, then sync the directory.
CleanSegment(s) ==
  /\ pc = "clean" /\ Oldest(call.todo, s)
  /\ disk' = [t \in DOMAIN disk \ {s} |-> [disk[t] EXCEPT !.named = TRUE]]
  /\ shut' = shut \cup {s}
  /\ call' = [call EXCEPT !.todo = @ \ {s}]
  /\ UNCHANGED <<open, segs, cur, pending, before, index, nextSeq, durable, unsynced,
                 pc, resume, history>>

\* The removal, or the directory sync behind it, fails.
CleanFails(s) ==
  /\ pc = "clean" /\ Oldest(call.todo, s) /\ "remove" \in Faults
  /\ \/ UNCHANGED disk
     \/ disk' = [t \in DOMAIN disk \ {s} |-> disk[t]]
  /\ shut' = shut \cup {s}
  /\ Return
  /\ UNCHANGED <<open, segs, cur, pending, before, index, nextSeq, durable, unsynced, history>>

\* Mutant: the index entries from the mark on are removed.
CleanReturnsKeepingOldIndex ==
  /\ pc = "clean" /\ call.todo = {}
  /\ segs' = segs \ Old(call.mark)
  /\ shut' = shut \ Old(call.mark)
  /\ index' = [seq \in {q \in DOMAIN index : q < call.mark} |-> index[seq]]
  /\ Return
  /\ UNCHANGED <<disk, open, cur, pending, before, nextSeq, durable, unsynced, history>>

CleanReturns ==
  /\ pc = "clean" /\ call.todo = {}
  /\ segs' = segs \ Old(call.mark)
  /\ shut' = shut \ Old(call.mark)
  /\ index' = [seq \in {q \in DOMAIN index : q >= call.mark} |-> index[seq]]
  /\ Return
  /\ UNCHANGED <<disk, open, cur, pending, before, nextSeq, durable, unsynced, history>>

Corrupt(seq) ==
  /\ Idle /\ "corrupt" \in Faults
  /\ StartFlush("corrupt")
  /\ call' = [NoCall EXCEPT !.mark = seq]
  /\ UNCHANGED <<disk, memory, history>>

CanFlip(seq) ==
  /\ seq \in DOMAIN index
  /\ index[seq].seg \in segs \ shut
  /\ index[seq].off < Len(disk[index[seq].seg].data)

\* One byte of the stored checksum is inverted; inverting it again restores it.
Flipped(f) ==
  [f EXCEPT !.kind = CASE @ = "ok" -> "bad" [] @ = "bad" -> "ok" [] OTHER -> @]

\* ... and the file is synced.
CorruptFlips ==
  /\ pc = "corrupt"
  /\ IF CanFlip(call.mark)
     THEN LET loc == index[call.mark]
              f   == disk[loc.seg]
              d   == [f.data EXCEPT ![loc.off + 1] = Flipped(@)]
          IN  disk' = [disk EXCEPT ![loc.seg] = Synced([f EXCEPT !.data = d])]
     ELSE UNCHANGED disk
  /\ Return
  /\ UNCHANGED <<memory, history>>

-------------------------------------------------------------------------------
(* The end of the process.                                                  *)

\* Nothing in memory survives.
Down ==
  /\ open' = FALSE
  /\ segs' = {} /\ shut' = {} /\ cur' = 0
  /\ pending' = <<>> /\ before' = 0 /\ index' = <<>>
  /\ nextSeq' = 1 /\ durable' = 0 /\ unsynced' = 0
  /\ Return
  /\ UNCHANGED history

\* The files as the next process finds them, power permitting.
LeftBehind ==
  IF ExitSettles
  THEN [s \in DOMAIN disk |->
          [disk[s] EXCEPT !.named = TRUE,
                          !.stable = IF disk[s].dropped THEN @ ELSE Len(disk[s].data)]]
  ELSE disk

\* Close flushes; the handles are closed whether or not that succeeds.
Close ==
  /\ Idle
  /\ StartFlush("close")
  /\ UNCHANGED <<disk, memory, call, history>>

CloseReturns == pc = "close" /\ Down /\ disk' = LeftBehind

ProcessCrash == open /\ Down /\ disk' = LeftBehind

Dirty == {s \in DOMAIN disk : disk[s].stable < Len(disk[s].data)}

PowerLoss ==
  \E gone \in SUBSET {s \in DOMAIN disk : ~disk[s].named} :
    \E left \in [Dirty \ gone -> UNION {Remains(disk[s]) : s \in Dirty}] :
      /\ \A s \in Dirty \ gone : left[s] \in Remains(disk[s])
      /\ disk' = [s \in DOMAIN disk \ gone |->
                    Settled(IF s \in Dirty THEN left[s] ELSE disk[s].data)]
      /\ Down

-------------------------------------------------------------------------------
Init ==
  /\ disk = <<>>
  /\ open = FALSE
  /\ segs = {} /\ shut = {} /\ cur = 0
  /\ pending = <<>> /\ before = 0 /\ index = <<>>
  /\ nextSeq = 1 /\ durable = 0 /\ unsynced = 0
  /\ pc = "idle" /\ resume = "idle" /\ call = NoCall
  /\ hist = <<>> /\ promised = 0

Appends == \/ \E p \in Payloads, force \in BOOLEAN :
                AppendInPlace(p, force) \/ AppendRotating(p, force)
           \/ CreateSegment \/ CreateFails \/ AppendToNewSegment

Flushes == \/ Sync \/ PeriodicFlush
           \/ WriteAll \/ WriteRest \/ SyncFile
           \/ \E k \in 0..Len(pending), torn \in BOOLEAN : WritePart(k, torn)
           \/ WriteFails \/ Rollback \/ RollbackFails \/ SyncFails

Recoveries == \/ Recover \/ RecoverFails
              \/ \E top \in segs \cap DOMAIN disk :
                   \E k \in 0..Len(disk[top].data) : RecoverScan(top, k) \/ TrimFails(top, k)
              \/ \E top \in DOMAIN disk :
                   \E k \in 0..Len(disk[top].data) :
                     OpenDirectory(top, k) \/ OpenInterrupted(top, k)
              \/ OpenEmptyDirectory

Cleanings == \/ \E mark \in 1..MaxSeq + 1 : CleanOldSegments(mark)
             \/ \E s \in segs : CleanSegment(s) \/ CleanFails(s)
             \/ CleanReturns
             \/ \E seq \in 1..MaxSeq : Corrupt(seq)
             \/ CorruptFlips

Endings == Close \/ CloseReturns \/ ProcessCrash \/ PowerLoss

Next == Appends \/ Flushes \/ Recoveries \/ Cleanings \/ Endings

Spec == Init /\ [][Next]_vars

\* The ticker's goroutine wins the mutex again and again, the call that holds the
\* mutex runs to its end, and a disk that is asked again and again obeys once.
Fairness ==
  /\ SF_vars(PeriodicFlush)
  /\ SF_vars(WriteAll \/ WriteRest)
  /\ SF_vars(SyncFile)
  /\ WF_vars(Rollback \/ RollbackFails)
  /\ WF_vars(CreateSegment \/ CreateFails \/ AppendToNewSegment)
  /\ WF_vars(RecoverFails \/ \E top \in segs \cap DOMAIN disk :
                               \E k \in 0..Len(disk[top].data) : RecoverScan(top, k))
  /\ WF_vars(CleanReturns \/ \E s \in segs : CleanSegment(s))
  /\ WF_vars(CorruptFlips)
  /\ WF_vars(CloseReturns)

FairSpec == Spec /\ Fairness

-------------------------------------------------------------------------------
(* Properties.                                                              *)

Steps == {"idle", "create", "put", "write", "partial", "sync",
          "recover", "clean", "corrupt", "close"}

\* Every variable keeps its type; the open handles and the current segment belong
\* to files that exist, a call's leftover work to listed segments, and nothing of
\* a process outlives it.
TypeOK ==
  /\ DOMAIN disk \subseteq Nat \ {0}
  /\ disk \in [DOMAIN disk -> File]
  /\ \A s \in DOMAIN disk : disk[s].stable <= Len(disk[s].data)
  /\ open \in BOOLEAN
  /\ segs \subseteq Nat \ {0} /\ shut \subseteq segs /\ segs \ shut \subseteq DOMAIN disk
  /\ IF open THEN cur \in segs \ shut ELSE segs = {} /\ cur = 0 /\ pc = "idle"
  /\ pending \in Seq(Frame) /\ before \in Nat
  /\ DOMAIN index \subseteq Nat \ {0} /\ index \in [DOMAIN index -> Location]
  /\ nextSeq \in Nat \ {0} /\ durable \in Nat /\ unsynced \in Nat
  /\ pc \in Steps /\ resume \in {"idle", "create", "recover", "clean", "corrupt", "close"}
  /\ resume # "idle" => pc \in {"write", "partial", "sync"}
  /\ call \in Call /\ call.todo \subseteq segs \ {cur}
  /\ hist \in Seq(Payloads) /\ promised \in Nat

\* Whatever a crash or a loss of power leaves behind, Open accepts it: a torn
\* tail is repaired and never reported as corruption.
Recoverable == ~open => ~Refuses(Contents(DOMAIN disk))

\* Whatever directory a scan meets, behind a crash or in a running process, the loops of
\* recoverLocked and scanSegment make of it what the other properties and the proofs rest
\* on: no step of theirs drops a finished record, keeps part of an unfinished one, or
\* indexes a record at another's place.
ScanAgrees ==
  (~open \/ pc = "recover") /\ DOMAIN disk # {} => ScansAgree(Contents(DOMAIN disk))

\* The frames of segment s once the buffer is flushed.
Written(s) == disk[s].data \o (IF s = cur THEN pending ELSE <<>>)

\* Every indexed record can be read and is the payload that was appended.
ReadsBack ==
  Idle => \A seq \in DOMAIN index :
            LET loc == index[seq]
            IN  /\ loc.seg \in segs \ shut
                /\ \E m \in 1..loc.n : /\ ReadsAt(Written(loc.seg), seq, loc, m)
                                       /\ Spells(Written(loc.seg), loc, m, hist[seq])

\* Whatever fails or is corrupted, a read that returns no error returns the
\* payload that was appended under that sequence.
NeverMisread ==
  Idle => \A seq \in DOMAIN index :
            LET loc == index[seq]
            IN  loc.seg \in segs \ shut =>
                  \A m \in 1..loc.n : ReadsAt(Written(loc.seg), seq, loc, m)
                                        => Spells(Written(loc.seg), loc, m, hist[seq])

\* Every indexed record up to DurableSeq has been confirmed by an fsync: no loss
\* of power can take it back.
DurableConfirmed ==
  Idle => \A seq \in DOMAIN index :
            LET loc == index[seq]
            IN  seq <= durable /\ loc.seg \in segs \ shut =>
                  disk[loc.seg].named /\ loc.off + loc.n <= disk[loc.seg].stable

\* The index has no holes: it holds every sequence from some first one to LastSeq.
IndexCoversLog == Idle => \E lo \in 1..nextSeq : DOMAIN index = lo..nextSeq - 1

\* A segment outgrows MaxSegmentBytes only to hold one oversized record alone.
SegmentBounded ==
  Idle => \A s \in segs \ shut :
            Len(Written(s)) > MaxSegmentBytes =>
              \A i, j \in 1..Len(Written(s)) : Written(s)[i].seq = Written(s)[j].seq

\* SegmentInfo is exact: a segment starts with its name's sequence and ends with
\* the sequence inferred from its neighbour.
SegmentInfoExact ==
  Idle => \A s \in segs \ shut :
            /\ LastSeqOf(Written(s), s - 1) = EndSeq(s)
            /\ Written(s) # <<>> => Written(s)[1].seq = s

\* What was assigned and is not durable still waits for the next flush.
NothingStranded ==
  Idle /\ durable < nextSeq - 1 => pending # <<>> \/ unsynced = nextSeq - 1

Recorded == UNION {{disk[s].data[i].seq : i \in
                     {j \in 1..Len(disk[s].data) : FlagLast(disk[s].data[j])
                                                   /\ disk[s].data[j].kind = "ok"}}
                   : s \in DOMAIN disk}

\* A record leaves the disk only unpromised, or because CleanOldSegments was
\* asked to forget it.
DurableUntilCleaned ==
  [][\A seq \in Recorded \ Recorded' :
       seq > promised \/ (pc = "clean" /\ seq < call.mark)]_vars

\* DurableSeq never goes back while the log is open.
DurableMonotonic == [][open /\ open' => durable' >= durable]_vars

\* The WAL is a durable log.
Log == INSTANCE DurableLog WITH log <- hist, durable <- promised, up <- open
ImplementsDurableLog == Log!Spec

\* A record that was appended becomes durable, unless the process ends first.
EventuallyDurable ==
  \A seq \in 1..MaxSeq : (open /\ seq < nextSeq) ~> (durable >= seq \/ ~open)
==============================================================================
