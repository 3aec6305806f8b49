-------------------------------- MODULE Store --------------------------------
(***************************************************************************)
(* The key-value store of internal/store: a map rebuilt from a snapshot    *)
(* and the log, WAL-first updates, snapshots written aside and renamed,    *)
(* and the crashes and failures in between.  The log is DurableLog, which  *)
(* Wal implements.                                                         *)
(*                                                                         *)
(* writeMu admits one mutating call at a time: task is that call, pc its   *)
(* next step.  The log's own mutex is held while pc is "force" or          *)
(* "replay"; readers and the log's ticker come between all other steps.    *)
(* A value is identified by the sequence of the set that wrote it.         *)
(***************************************************************************)
EXTENDS Integers, Sequences

CONSTANTS
  Keys,
  Names,     \* names of archived snapshots
  MaxSeq,    \* bound: commands in the log
  MaxBatch,  \* bound: pairs given to SetBatch
  Faults,    \* what may fail
  Cleaning   \* somebody cleans the log in front of the snapshot

FaultKinds == {"append", "sync", "replay", "snapshot", "damage"}
Primary    == "snapshot.dat"
Paths      == {Primary} \cup Names

ASSUME StoreAssumption ==
  /\ MaxSeq \in Nat /\ MaxBatch \in Nat /\ Faults \subseteq FaultKinds
  /\ Cleaning \in BOOLEAN /\ Primary \notin Names

VARIABLES
  log, durable, up,  \* the log: DurableLog's variables
  first,             \* the oldest sequence the log's index holds
  kept,              \* the oldest sequence in the log's directory
  kv, applied,       \* memory: key -> sequence of its value, 0 for no entry
  files,             \* snapshot files, as a running process sees them
  settled,           \* snapshot files, as a loss of power may leave them
  task, pc,          \* the call that holds writeMu
  acked,             \* sequences of updates reported successful (history)
  seen,              \* key -> the newest value a Get returned (history)
  watermark          \* the highest watermark Snapshot returned (history)

logs    == <<log, durable, up, first, kept>>
memory  == <<kv, applied>>
dir     == <<files, settled>>
control == <<task, pc>>
history == <<acked, seen, watermark>>
vars    == <<logs, memory, dir, control, history>>

-------------------------------------------------------------------------------
Command == [op : {"set", "delete"}, key : Keys]
SetOf(key) == [op |-> "set", key |-> key]

L == INSTANCE DurableLog WITH Payloads <- Command

Empty == [k \in Keys |-> 0]

\* A snapshot file: readSnapshot finds none, finds it invalid, or decodes a body.
SnapshotFile == [kind : {"none", "bad", "ok"}, applied : Nat, values : [Keys -> Nat]]
NoFile  == [kind |-> "none", applied |-> 0, values |-> Empty]
BadFile == [kind |-> "bad", applied |-> 0, values |-> Empty]
Body    == [kind |-> "ok", applied |-> applied, values |-> kv]

Task == [op : {"none", "new", "reload", "update", "batch", "snapshot", "remove"},
         todo : Seq(Command),  \* commands of the batch still to append
         seqs : Seq(Nat),      \* sequences the call has appended
         next : Nat,           \* the next of them, or of the log, to apply
         path : Paths, body : SnapshotFile]
NoTask == [op |-> "none", todo |-> <<>>, seqs |-> <<>>, next |-> 0,
           path |-> Primary, body |-> NoFile]

Serving == up /\ task.op # "new"
Idle    == up /\ pc = "idle"
LogFree == up /\ pc \notin {"force", "replay"}

Return  == task' = NoTask /\ pc' = "idle"

\* The log is flushed; with nothing pending this changes nothing.
FlushLog ==
  /\ log' = log /\ up' = up
  /\ durable' = Len(log)

\* Apply: every command takes effect once.
Apply(seq) ==
  IF seq <= applied THEN UNCHANGED memory
  ELSE /\ kv' = [kv EXCEPT ![log[seq].key] = IF log[seq].op = "set" THEN seq ELSE 0]
       /\ applied' = seq

-------------------------------------------------------------------------------
(* Set, Delete and SetBatch                                                 *)

\* Set and Delete: AppendSync appends ...
Update(cmd) ==
  /\ Idle /\ Len(log) < MaxSeq
  /\ L!Write(cmd)
  /\ task' = [NoTask EXCEPT !.op = "update", !.seqs = <<Len(log) + 1>>, !.next = 1]
  /\ pc' = "force"
  /\ UNCHANGED <<first, kept, memory, dir, history>>

SetBatch(cmds) ==
  /\ Idle /\ cmds # <<>> /\ Len(log) + Len(cmds) <= MaxSeq
  /\ task' = [NoTask EXCEPT !.op = "batch", !.todo = cmds, !.next = 1]
  /\ pc' = "append"
  /\ UNCHANGED <<logs, memory, dir, history>>

\* AppendBatch, which may reach the log's batch size and force it.
BatchAppend ==
  /\ up /\ pc = "append" /\ task.todo # <<>>
  /\ L!Write(Head(task.todo))
  /\ task' = [task EXCEPT !.todo = Tail(task.todo), !.seqs = Append(task.seqs, Len(log) + 1)]
  /\ pc' \in {"append", "force"}
  /\ UNCHANGED <<first, kept, memory, dir, history>>

\* ... and forces the log, or returns an error with the command left in it.
Forced ==
  /\ up /\ pc = "force"
  /\ FlushLog
  /\ pc' = IF task.op = "batch" THEN "append" ELSE "apply"
  /\ UNCHANGED <<first, kept, memory, dir, task, history>>

\* Mutant: an error return without the deferred unlock.
ForceFailsHoldingLock ==
  /\ up /\ pc = "force" /\ "append" \in Faults
  /\ task' = task /\ pc' = "idle"
  /\ UNCHANGED <<logs, memory, dir, history>>

ForceFails ==
  /\ up /\ pc = "force" /\ "append" \in Faults
  /\ Return
  /\ UNCHANGED <<logs, memory, dir, history>>

\* An append that fails in front of the buffer: the rotation failed.
AppendFails ==
  /\ up /\ pc = "append" /\ task.todo # <<>> /\ "append" \in Faults
  /\ Return
  /\ UNCHANGED <<logs, memory, dir, history>>

\* Mutant: the batch is published when its commands are in the buffer.
BatchSyncMissing ==
  /\ up /\ pc = "append" /\ task.todo = <<>>
  /\ pc' = "apply"
  /\ UNCHANGED <<logs, memory, dir, task, history>>

BatchSync ==
  /\ up /\ pc = "append" /\ task.todo = <<>>
  /\ FlushLog
  /\ pc' = "apply"
  /\ UNCHANGED <<first, kept, memory, dir, task, history>>

BatchSyncFails ==
  /\ up /\ pc = "append" /\ task.todo = <<>> /\ "sync" \in Faults
  /\ Return
  /\ UNCHANGED <<logs, memory, dir, history>>

\* Mutant: the first command of a batch answers the call.
ApplyNextAnsweringEarly ==
  /\ up /\ pc = "apply"
  /\ Apply(task.seqs[task.next])
  /\ acked' = acked \cup {task.seqs[i] : i \in 1..Len(task.seqs)}
  /\ IF task.next < Len(task.seqs)
     THEN task' = [task EXCEPT !.next = @ + 1] /\ pc' = pc
     ELSE Return
  /\ UNCHANGED <<logs, dir, seen, watermark>>

\* Memory follows the log, one command at a time; the last one answers the call.
ApplyNext ==
  /\ up /\ pc = "apply"
  /\ Apply(task.seqs[task.next])
  /\ IF task.next < Len(task.seqs)
     THEN /\ task' = [task EXCEPT !.next = @ + 1]
          /\ UNCHANGED <<pc, acked>>
     ELSE /\ Return
          /\ acked' = acked \cup {task.seqs[i] : i \in 1..Len(task.seqs)}
  /\ UNCHANGED <<logs, dir, seen, watermark>>

Get(k) ==
  /\ Serving /\ kv[k] > seen[k]
  /\ seen' = [seen EXCEPT ![k] = kv[k]]
  /\ UNCHANGED <<logs, memory, dir, control, acked, watermark>>

-------------------------------------------------------------------------------
(* New and Reload                                                          *)

\* wal.Open brings back the first n commands; New starts with an empty map.
Open(n) ==
  /\ ~up /\ L!Restart(n)
  /\ first' = kept
  /\ task' = [NoTask EXCEPT !.op = "new"] /\ pc' = "load"
  /\ UNCHANGED <<kept, memory, dir, history>>

\* Mutant: the map is emptied and the sequence applied last is kept.
ReloadKeepingApplied ==
  /\ Idle
  /\ kv' = Empty /\ applied' = applied
  /\ task' = [NoTask EXCEPT !.op = "reload"] /\ pc' = "load"
  /\ UNCHANGED <<logs, dir, history>>

Reload ==
  /\ Idle
  /\ kv' = Empty /\ applied' = 0
  /\ task' = [NoTask EXCEPT !.op = "reload"] /\ pc' = "load"
  /\ UNCHANGED <<logs, dir, history>>

\* Mutant: everything durable counts as covered by the snapshot.
LoadSnapshotAsLatest ==
  /\ up /\ pc = "load"
  /\ IF files[Primary].kind = "ok"
     THEN kv' = files[Primary].values /\ applied' = durable
     ELSE UNCHANGED memory
  /\ pc' = "flush"
  /\ UNCHANGED <<logs, dir, task, history>>

\* loadSnapshot: no file and an invalid one leave the map as it is.
LoadSnapshot ==
  /\ up /\ pc = "load"
  /\ IF files[Primary].kind = "ok"
     THEN kv' = files[Primary].values /\ applied' = files[Primary].applied
     ELSE UNCHANGED memory
  /\ pc' = "flush"
  /\ UNCHANGED <<logs, dir, task, history>>

\* Replay flushes the log and visits it from its first entry to the last.
Replay ==
  /\ up /\ pc = "flush"
  /\ FlushLog
  /\ task' = [task EXCEPT !.next = first] /\ pc' = "replay"
  /\ UNCHANGED <<first, kept, memory, dir, history>>

ReplayNext ==
  /\ up /\ pc = "replay" /\ task.next <= durable
  /\ Apply(task.next)
  /\ task' = [task EXCEPT !.next = @ + 1]
  /\ UNCHANGED <<logs, dir, pc, history>>

ReplayReturns ==
  /\ up /\ pc = "replay" /\ task.next > durable
  /\ Return
  /\ UNCHANGED <<logs, memory, dir, history>>

\* The snapshot or the log cannot be read, or the flush fails.  New gives up and
\* the process ends; Reload returns the error and the store goes on.
ReloadFails ==
  /\ up /\ pc \in {"load", "flush", "replay"} /\ task.op = "reload" /\ "replay" \in Faults
  /\ Return
  /\ UNCHANGED <<logs, memory, dir, history>>

-------------------------------------------------------------------------------
(* Snapshots                                                               *)

\* writeSnapshot: sync the log, copy the map.
Snapshot(p) ==
  /\ Idle
  /\ FlushLog
  /\ task' = [NoTask EXCEPT !.op = "snapshot", !.path = p, !.body = Body]
  /\ pc' = "rename"
  /\ UNCHANGED <<first, kept, memory, dir, history>>

\* writeAtomic: the temporary file is written, synced and renamed.  A loss of
\* power now may still show the file it replaces.
Rename ==
  /\ up /\ pc = "rename"
  /\ files' = [files EXCEPT ![task.path] = task.body]
  /\ pc' = "syncdir"
  /\ UNCHANGED <<logs, memory, settled, task, history>>

\* Mutant: the directory is not synced.
SyncDirMissing ==
  /\ up /\ pc = "syncdir"
  /\ watermark' = IF task.op = "snapshot" /\ task.path = Primary /\ task.body.applied > watermark
                  THEN task.body.applied ELSE watermark
  /\ Return
  /\ UNCHANGED <<logs, memory, dir, acked, seen>>

\* The directory of the path is synced; archives have one of their own.
SyncDir ==
  /\ up /\ pc = "syncdir"
  /\ settled' = [p \in Paths |-> IF (p = Primary) = (task.path = Primary)
                                 THEN files[p] ELSE settled[p]]
  /\ watermark' = IF task.op = "snapshot" /\ task.path = Primary /\ task.body.applied > watermark
                  THEN task.body.applied ELSE watermark
  /\ Return
  /\ UNCHANGED <<logs, memory, files, acked, seen>>

\* Any step of writeAtomic fails; the temporary file is removed.
SnapshotFails ==
  /\ up /\ pc \in {"rename", "syncdir"} /\ "snapshot" \in Faults
  /\ Return
  /\ UNCHANGED <<logs, memory, dir, history>>

DeleteSnapshot(name) ==
  /\ Idle /\ files[name].kind # "none"
  /\ files' = [files EXCEPT ![name] = NoFile]
  /\ task' = [NoTask EXCEPT !.op = "remove", !.path = name] /\ pc' = "syncdir"
  /\ UNCHANGED <<logs, memory, settled, history>>

-------------------------------------------------------------------------------
(* The log's other callers, and the environment                             *)

\* The ticker, or a request that syncs, reads or verifies.
FlushBehind ==
  /\ LogFree /\ durable < Len(log)
  /\ L!Force(Len(log))
  /\ UNCHANGED <<first, kept, memory, dir, control, history>>

\* handleRecover's WAL.Recover: entries cleaned from the index only come back.
Recover ==
  /\ LogFree /\ (durable < Len(log) \/ first # kept)
  /\ FlushLog
  /\ first' = kept
  /\ UNCHANGED <<kept, memory, dir, control, history>>

\* CleanOldSegments(before), for a caller that knows a watermark Snapshot
\* returned: whole segments go, up to some sequence before it.
Clean(before, gone) ==
  /\ Cleaning /\ LogFree /\ before <= watermark + 1 /\ gone \in kept..before
  /\ FlushLog
  /\ first' = IF before > first THEN before ELSE first
  /\ kept' = gone
  /\ UNCHANGED <<memory, dir, control, history>>

Dies == kv' = Empty /\ applied' = 0 /\ Return

ProcessCrash ==
  /\ L!Stop /\ Dies
  /\ UNCHANGED <<first, kept, dir, history>>

PowerLoss ==
  /\ \E lost \in SUBSET Paths :
       files' = [p \in Paths |-> IF p \in lost THEN settled[p] ELSE files[p]]
  /\ settled' = files'
  /\ log' = log /\ durable' = durable /\ up' = FALSE
  /\ Dies
  /\ UNCHANGED <<first, kept, history>>

\* The bytes of the primary snapshot are damaged.
Damage ==
  /\ "damage" \in Faults /\ files[Primary].kind = "ok"
  /\ files' = [files EXCEPT ![Primary] = BadFile]
  /\ settled' = [settled EXCEPT ![Primary] = BadFile]
  /\ UNCHANGED <<logs, memory, control, history>>

-------------------------------------------------------------------------------
Init ==
  /\ L!Init /\ first = 1 /\ kept = 1
  /\ kv = Empty /\ applied = 0
  /\ files = [p \in Paths |-> NoFile] /\ settled = files
  /\ task = NoTask /\ pc = "idle"
  /\ acked = {} /\ seen = Empty /\ watermark = 0

Batches == UNION {[1..n -> {SetOf(k) : k \in Keys}] : n \in 1..MaxBatch}

Next ==
  \/ \E cmd \in Command : Update(cmd)
  \/ \E cmds \in Batches : SetBatch(cmds)
  \/ BatchAppend \/ Forced \/ ForceFails \/ AppendFails \/ BatchSync \/ BatchSyncFails
  \/ ApplyNext
  \/ \E k \in Keys : Get(k)
  \/ \E n \in durable..Len(log) : Open(n)
  \/ Reload \/ LoadSnapshot \/ Replay \/ ReplayNext \/ ReplayReturns \/ ReloadFails
  \/ \E p \in Paths : Snapshot(p)
  \/ Rename \/ SyncDir \/ SnapshotFails
  \/ \E name \in Names : DeleteSnapshot(name)
  \/ FlushBehind \/ Recover
  \/ \E before \in 1..MaxSeq + 1 : \E gone \in kept..before : Clean(before, gone)
  \/ ProcessCrash \/ PowerLoss \/ Damage

Spec == Init /\ [][Next]_vars

-------------------------------------------------------------------------------
(* Properties                                                              *)

\* Types; writeMu is held exactly while a call is under way.
TypeOK ==
  /\ log \in Seq(Command) /\ durable \in 0..Len(log) /\ up \in BOOLEAN
  /\ kept \in Nat \ {0} /\ first \in Nat \ {0} /\ kept <= first
  /\ kv \in [Keys -> Nat] /\ applied \in Nat
  /\ files \in [Paths -> SnapshotFile] /\ settled \in [Paths -> SnapshotFile]
  /\ task \in Task
  /\ pc \in {"idle", "append", "force", "apply", "load", "flush", "replay", "rename", "syncdir"}
  /\ pc = "idle" <=> task.op = "none"
  /\ ~up => pc = "idle"
  /\ acked \subseteq Nat \ {0} /\ seen \in [Keys -> Nat] /\ watermark \in Nat

\* Every value was written by a set of its key among the first upTo commands.
Sourced(values, upTo) ==
  \A k \in Keys : values[k] > 0 => values[k] <= upTo /\ log[values[k]] = SetOf(k)

\* Command s is among the first upTo, and its key shows it or a later command.
Reflects(values, upTo, s) ==
  LET k == log[s].key
  IN  /\ s <= upTo
      /\ \/ values[k] >= s
         \/ values[k] = 0 /\ \E d \in s..upTo : log[d].op = "delete" /\ log[d].key = k

Rebuilt == Serving /\ task.op # "reload"

\* An update reported successful is never lost and never undone by an older one,
\* through crashes, failed updates, snapshots, cleaning and reloads.
AckedKept == Rebuilt => \A s \in acked : Reflects(kv, applied, s)

\* What a Get returned is never taken back, not even the effect of an update that
\* was reported failed.
SeenKept == Rebuilt => \A k \in Keys : seen[k] > 0 => Reflects(kv, applied, seen[k])

\* Memory shows only commands that the log has made durable, in every step of a
\* batch, a reload and a restart.
WalBeforeMemory == up => applied <= durable /\ Sourced(kv, applied)

\* A snapshot holds all successful updates up to its watermark and nothing newer.
SnapshotsExact ==
  \A p \in Paths : \A f \in {files[p], settled[p]} : f.kind = "ok" =>
    /\ f.applied <= durable /\ Sourced(f.values, f.applied)
    /\ \A s \in acked : s <= f.applied => Reflects(f.values, f.applied, s)

\* The log reaches back to the snapshot that a restart or a reload will find.
NoGap ==
  \A f \in {files[Primary], settled[Primary]} : kept <= f.applied + 1 /\
    (up /\ f = files[Primary] => first <= f.applied + 1)

\* Memory is what a replay of the whole log makes of its first commands.
MatchesReplay == Rebuilt => \A s \in 1..applied : Reflects(kv, applied, s)

\* The commands that memory reflects, those whose effect a caller knows of, and what the
\* readers may make of the map.
Reflected == {s \in 1..applied : Reflects(kv, applied, s)}
Told      == acked \cup {s \in 1..Len(log) : s <= seen[log[s].key]}
State     == IF Rebuilt THEN "ready" ELSE IF up THEN "rebuilding" ELSE "down"

\* The store is a durable map: memory is always the replay of commands taken in the order
\* of the log, and neither a restart nor a reload comes back without what a caller knows of.
Map == INSTANCE DurableMap WITH taken <- Reflected, map <- kv, told <- Told, state <- State
ImplementsDurableMap == Map!Spec
===============================================================================
