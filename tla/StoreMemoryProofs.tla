--------------------------- MODULE StoreMemoryProofs ---------------------------
(***************************************************************************)
(* What the store's memory and its snapshots owe to the callers: an        *)
(* acknowledged update, a value that was read, and the whole log, for any  *)
(* number of keys, commands, batches and archives; and that the store      *)
(* implements DurableMap.                                                  *)
(***************************************************************************)
EXTENDS StoreProofs

-------------------------------------------------------------------------------
(* Memory and snapshots against a set of commands.                          *)

\* Those commands of D that are among the first upTo are reflected in the values.
Holds(l, D, values, upTo) ==
  \A s \in D : s <= upTo =>
    \/ values[l[s].key] >= s
    \/ values[l[s].key] = 0 /\ \E d \in s..upTo : l[d].op = "delete" /\ l[d].key = l[s].key

\* The sequences whose values a map shows.
Shown(values) == {values[k] : k \in Keys} \ {0}

\* What the call under way has applied, what is owed to its caller and to callers
\* before it, and to the readers.
Finished == {task.seqs[i] : i \in {j \in 1..Len(task.seqs) : j < task.next}}
Owed     == acked \cup Finished
Due      == Owed \cup Shown(seen)

Updating == pc \in {"append", "force", "apply"}
Loading  == pc \in {"load", "flush", "replay"}

DueDurable == Due \subseteq 1..durable
DueHeld    == Holds(log, Due, kv, applied)
CaughtUp   == up /\ ~Loading => \A s \in Due : s <= applied

\* Every snapshot holds what was acknowledged.
Filed == \A p \in Paths : /\ Holds(log, Owed, files[p].values, files[p].applied)
                          /\ Holds(log, Owed, settled[p].values, settled[p].applied)

\* Two snapshots that hold the commands of D; the new one can be shown before the old one is.
Succeeds(l, D, new, old) ==
  /\ Holds(l, D, new.values, new.applied)
  /\ Holds(l, D \cup Shown(new.values), old.values, old.applied)
  /\ new.kind # "ok" => new.applied = 0
  /\ old.kind # "ok" => old.applied = 0
  /\ old.applied <= new.applied

\* The two primary snapshots hold what was or is shown, and memory is ahead of them.
Primaries ==
  /\ Succeeds(log, Shown(seen) \cup Shown(kv), files[Primary], settled[Primary])
  /\ up /\ pc # "load" => files[Primary].applied <= applied

\* A snapshot on its way is a copy of memory; memory is empty until one is loaded.
Copied ==
  /\ pc = "rename" => task.body = Body
  /\ ~up \/ pc = "load" => kv = Empty /\ applied = 0

\* The commands of the call under way come behind everything that was applied.
Spare == ~Updating => task.seqs = <<>>
Fresh ==
  /\ \A i, j \in 1..Len(task.seqs) : i < j => task.seqs[i] < task.seqs[j]
  /\ \A i \in 1..Len(task.seqs) :
       /\ task.next <= i => applied < task.seqs[i]
       /\ \A p \in Paths : /\ files[p].applied < task.seqs[i]
                           /\ settled[p].applied < task.seqs[i]

\* A replay begins no later than the snapshot ends, and passes over nothing.
Reaches == pc = "flush" => first <= applied + 1
Gapless == pc = "replay" => task.next <= applied + 1
Loads   == Loading => task.op \in {"new", "reload"}

KInv == DueDurable /\ DueHeld /\ CaughtUp /\ Filed /\ Primaries /\ Copied /\ Spare /\ Fresh /\ Gapless
          /\ Loads

-------------------------------------------------------------------------------
(* Memory against the whole log.                                            *)

\* No update fails, no reload fails, and the log is not cleaned in front of a snapshot
\* that can be damaged.
Exact == Faults \cap {"append", "sync", "replay"} = {} /\ (Cleaning => "damage" \notin Faults)

Whole(values, upTo) == Holds(log, 1..upTo, values, upTo)

AllWhole ==
  /\ Whole(kv, applied)
  /\ \A p \in Paths : /\ Whole(files[p].values, files[p].applied)
                      /\ Whole(settled[p].values, settled[p].applied)

\* Memory is at the end of the log, or short of it by the call under way.
Level ==
  /\ up /\ pc \in {"idle", "rename", "syncdir"} => applied = Len(log)
  /\ Updating =>
       /\ Len(log) + task.next = applied + Len(task.seqs) + 1
       /\ \A i \in 1..Len(task.seqs) :
            task.next <= i => task.seqs[i] + task.next = applied + 1 + i
  /\ pc = "replay" => durable = Len(log)

WInv == AllWhole /\ Level /\ Copied /\ Spare /\ Gapless

-------------------------------------------------------------------------------
(* Lemmas about what a map holds.                                           *)

\* A log that keeps its durable part keeps what a map backed by that part holds.
LEMMA HoldsGrows ==
  ASSUME TypeOK, LogGrows, NEW D, D \subseteq 1..durable, NEW values, NEW upTo \in Nat,
         upTo <= durable, Holds(log, D, values, upTo)
  PROVE  Holds(log', D, values, upTo)
<1>1. SUFFICES ASSUME NEW s \in D, s <= upTo
               PROVE  \/ values[log'[s].key] >= s
                      \/ /\ values[log'[s].key] = 0
                         /\ \E d \in s..upTo : log'[d].op = "delete" /\ log'[d].key = log'[s].key
  BY DEF Holds
<1>2. durable \in Nat /\ s \in 1..durable /\ log'[s] = log[s]
  BY DEF TypeOK, LogGrows
<1>3. \A d \in s..upTo : log'[d] = log[d]
  <2>1. s..upTo \subseteq 1..durable
    BY <1>2
  <2>2. QED BY <2>1 DEF LogGrows
<1>4. QED BY <1>1, <1>2, <1>3 DEF Holds

\* A command that is applied is reflected, and takes none that came before it back.
LEMMA HoldsApply ==
  ASSUME TypeOK, NEW seq \in 1..Len(log), Apply(seq), applied < seq,
         NEW D, D \subseteq Nat, Holds(log, D, kv, applied),
         \A s \in D : s <= applied \/ seq <= s
  PROVE  Holds(log, D \cup {seq}, kv', applied')
<1>1. log[seq] \in Command /\ log \in Seq(Command) /\ applied \in Nat /\ kv \in [Keys -> Nat]
  BY DEF TypeOK
<1>2. /\ kv' = [kv EXCEPT ![log[seq].key] = IF log[seq].op = "set" THEN seq ELSE 0]
      /\ applied' = seq
  BY <1>1 DEF Apply
<1>3. log[seq].key \in Keys /\ log[seq].op \in {"set", "delete"}
  BY <1>1 DEF Command
<1>4. kv'[log[seq].key] = IF log[seq].op = "set" THEN seq ELSE 0
  BY <1>1, <1>2, <1>3
<1>5. \A k \in Keys : k # log[seq].key => kv'[k] = kv[k]
  BY <1>1, <1>2
<1>6. ASSUME NEW s \in D \cup {seq}, s <= seq, log[s].key = log[seq].key
      PROVE  \/ kv'[log[s].key] >= s
             \/ kv'[log[s].key] = 0 /\ \E d \in s..seq : log[d].op = "delete" /\ log[d].key = log[s].key
  <2>1. seq \in s..seq /\ seq \in Nat
    BY <1>6
  <2>2. CASE log[seq].op = "set"
    BY <1>4, <1>6, <2>2
  <2>3. CASE log[seq].op = "delete"
    BY <1>4, <1>6, <2>1, <2>3
  <2>4. QED BY <1>3, <2>2, <2>3
<1>7. ASSUME NEW s \in D \cup {seq}, s <= seq, log[s].key # log[seq].key
      PROVE  \/ kv'[log[s].key] >= s
             \/ kv'[log[s].key] = 0 /\ \E d \in s..seq : log[d].op = "delete" /\ log[d].key = log[s].key
  <2>1. s \in D /\ s \in Nat
    BY <1>7
  <2>2. CASE s <= applied
    <3>1. s..applied \subseteq s..seq
      BY <1>1, <2>1
    <3>2. \/ kv[log[s].key] >= s
          \/ kv[log[s].key] = 0 /\ \E d \in s..applied : log[d].op = "delete" /\ log[d].key = log[s].key
      BY <2>1, <2>2 DEF Holds
    <3>3. kv'[log[s].key] = kv[log[s].key]
      BY <1>2, <1>7, <1>1
    <3>4. QED BY <3>1, <3>2, <3>3
  <2>3. CASE seq <= s
    BY <1>7, <2>1, <2>3
  <2>4. QED BY <2>1, <2>2, <2>3
<1>8. QED BY <1>2, <1>6, <1>7 DEF Holds

\* A map holds what it shows.
LEMMA HoldsShown ==
  ASSUME NEW values \in [Keys -> Nat], NEW upTo \in Nat, Covered(log, upTo, values)
  PROVE  Holds(log, Shown(values), values, upTo)
<1>1. SUFFICES ASSUME NEW s \in Shown(values), s <= upTo
               PROVE  values[log[s].key] >= s
  BY DEF Holds
<1>2. PICK k \in Keys : s = values[k] /\ s # 0
  BY DEF Shown
<1>3. values[k] \in Nat /\ values[k] > 0
  BY <1>2
<1>4. log[s] = SetOf(k)
  BY <1>2, <1>3 DEF Covered
<1>5. QED BY <1>2, <1>3, <1>4 DEF SetOf

\* Less is held where more is.
LEMMA HoldsLess ==
  ASSUME NEW l, NEW D, NEW E, E \subseteq D, NEW values, NEW upTo, Holds(l, D, values, upTo)
  PROVE  Holds(l, E, values, upTo)
BY DEF Holds

LEMMA HoldsBoth ==
  ASSUME NEW l, NEW D, NEW E, NEW values, NEW upTo, Holds(l, D, values, upTo),
         Holds(l, E, values, upTo)
  PROVE  Holds(l, D \cup E, values, upTo)
BY DEF Holds

\* Nothing is held of what came later.
LEMMA HoldsBeyond ==
  ASSUME NEW l, NEW D, D \subseteq Nat, NEW values, NEW upTo \in Nat, \A s \in D : upTo < s
  PROVE  Holds(l, D, values, upTo)
BY DEF Holds

\* What is shown of a map was one of its values.
LEMMA ShownType ==
  ASSUME NEW values \in [Keys -> Nat], NEW upTo \in Nat, Covered(log, upTo, values)
  PROVE  Shown(values) \subseteq 1..upTo
<1>1. SUFFICES ASSUME NEW s \in Shown(values) PROVE s \in 1..upTo
  OBVIOUS
<1>2. PICK k \in Keys : s = values[k] /\ s # 0
  BY DEF Shown
<1>3. values[k] \in Nat /\ values[k] > 0 /\ values[k] <= upTo
  BY <1>2 DEF Covered
<1>4. QED BY <1>2, <1>3

LEMMA NothingShown == Shown(Empty) = {}
BY DEF Shown, Empty

-------------------------------------------------------------------------------
(* What a step does to the log, to the directory and to memory.             *)

LEMMA StepGrows ==
  ASSUME IInv, Next
  PROVE  LogGrows
<1>1. TypeOK /\ log \in Seq(Command) /\ durable \in Nat /\ Len(log) \in Nat /\ durable <= Len(log)
  BY DEF IInv, TypeOK
<1>2. ASSUME UNCHANGED <<log, durable>> PROVE LogGrows
  BY <1>1, <1>2, LogStays
<1>3. ASSUME FlushLog PROVE LogGrows
  BY <1>1, <1>3, LogFlushed
<1>4. CASE \E cmd \in Command : Update(cmd)
  BY <1>1, <1>4, LogWritten DEF Update
<1>5. CASE BatchAppend
  <2>1. Head(task.todo) \in Command
    BY <1>1, <1>5 DEF TypeOK, Task, BatchAppend
  <2>2. QED BY <1>1, <1>5, <2>1, LogWritten DEF BatchAppend
<1>6. CASE \E n \in durable..Len(log) : Open(n)
  <2>1. PICK n \in durable..Len(log) : Open(n)
    BY <1>6
  <2>2. log' = SubSeq(log, 1, n) /\ durable' = n
    BY <2>1 DEF Open, L!Restart
  <2>3. \A s \in 1..durable : log'[s] = log[s]
    BY <1>1, <2>2
  <2>4. QED BY <1>1, <2>2, <2>3 DEF LogGrows
<1>7. CASE FlushBehind
  BY <1>1, <1>7 DEF FlushBehind, L!Force, LogGrows
<1>8. CASE Forced \/ BatchSync \/ Replay \/ (\E p \in Paths : Snapshot(p)) \/ Recover
           \/ \E before \in 1..MaxSeq + 1 : \E gone \in kept..before : Clean(before, gone)
  BY <1>3, <1>8 DEF Forced, BatchSync, Replay, Snapshot, Recover, Clean
<1>9. CASE (\E cmds \in Batches : SetBatch(cmds)) \/ ForceFails \/ AppendFails \/ BatchSyncFails
           \/ ApplyNext \/ (\E k \in Keys : Get(k)) \/ Reload \/ LoadSnapshot \/ ReplayNext
           \/ ReplayReturns \/ ReloadFails \/ Rename \/ SyncDir \/ SnapshotFails
           \/ (\E name \in Names : DeleteSnapshot(name)) \/ Damage
  BY <1>2, <1>9 DEF SetBatch, ForceFails, AppendFails, BatchSyncFails, ApplyNext, Get, Reload,
       LoadSnapshot, ReplayNext, ReplayReturns, ReloadFails, Rename, SyncDir, SnapshotFails,
       DeleteSnapshot, Damage, logs
<1>10. CASE ProcessCrash \/ PowerLoss
  BY <1>2, <1>10 DEF ProcessCrash, PowerLoss, L!Stop
<1>11. QED
  BY <1>4, <1>5, <1>6, <1>7, <1>8, <1>9, <1>10 DEF Next

\* A file is what it was, what it was before that, or nothing.
LEMMA StepDir ==
  ASSUME IInv, Next, ~Rename, NEW p \in Paths
  PROVE  /\ files'[p] \in {files[p], settled[p], NoFile, BadFile}
         /\ settled'[p] \in {files[p], settled[p], NoFile, BadFile}
<1>1. files \in [Paths -> SnapshotFile] /\ settled \in [Paths -> SnapshotFile]
  BY DEF IInv, TypeOK
<1>2. CASE UNCHANGED dir
  BY <1>2 DEF dir
<1>3. CASE SyncDir
  BY <1>3 DEF SyncDir
<1>4. CASE \E name \in Names : DeleteSnapshot(name)
  BY <1>1, <1>4 DEF DeleteSnapshot
<1>5. CASE PowerLoss
  BY <1>1, <1>5 DEF PowerLoss
<1>6. CASE Damage
  BY <1>1, <1>6 DEF Damage
<1>7. CASE (\E cmd \in Command : Update(cmd)) \/ (\E cmds \in Batches : SetBatch(cmds))
           \/ BatchAppend \/ Forced \/ ForceFails \/ AppendFails \/ BatchSync \/ BatchSyncFails
           \/ ApplyNext \/ (\E k \in Keys : Get(k)) \/ (\E n \in durable..Len(log) : Open(n))
  BY <1>2, <1>7 DEF Update, SetBatch, BatchAppend, Forced, ForceFails, AppendFails, BatchSync,
       BatchSyncFails, ApplyNext, Get, Open
<1>8. CASE Reload \/ LoadSnapshot \/ Replay \/ ReplayNext \/ ReplayReturns \/ ReloadFails
           \/ (\E q \in Paths : Snapshot(q)) \/ SnapshotFails \/ FlushBehind \/ Recover \/ ProcessCrash
           \/ \E before \in 1..MaxSeq + 1 : \E gone \in kept..before : Clean(before, gone)
  BY <1>2, <1>8 DEF Reload, LoadSnapshot, Replay, ReplayNext, ReplayReturns, ReloadFails,
       Snapshot, SnapshotFails, FlushBehind, Recover, ProcessCrash, Clean
<1>9. QED BY <1>3, <1>4, <1>5, <1>6, <1>7, <1>8 DEF Next

\* Only these steps put anything into memory.
LEMMA StepMemory ==
  ASSUME IInv, Next, ~ApplyNext, ~ReplayNext, ~LoadSnapshot
  PROVE  UNCHANGED memory \/ (kv' = Empty /\ applied' = 0)
<1>1. CASE (\E cmd \in Command : Update(cmd)) \/ (\E cmds \in Batches : SetBatch(cmds))
           \/ BatchAppend \/ Forced \/ ForceFails \/ AppendFails \/ BatchSync \/ BatchSyncFails
           \/ (\E k \in Keys : Get(k)) \/ (\E n \in durable..Len(log) : Open(n))
  BY <1>1 DEF Update, SetBatch, BatchAppend, Forced, ForceFails, AppendFails, BatchSync,
       BatchSyncFails, Get, Open
<1>2. CASE Replay \/ ReplayReturns \/ ReloadFails \/ (\E q \in Paths : Snapshot(q)) \/ Rename
           \/ SyncDir \/ SnapshotFails \/ (\E name \in Names : DeleteSnapshot(name))
           \/ FlushBehind \/ Recover \/ Damage
           \/ \E before \in 1..MaxSeq + 1 : \E gone \in kept..before : Clean(before, gone)
  BY <1>2 DEF Replay, ReplayReturns, ReloadFails, Snapshot, Rename, SyncDir, SnapshotFails,
       DeleteSnapshot, FlushBehind, Recover, Damage, Clean
<1>3. CASE Reload \/ ProcessCrash \/ PowerLoss
  BY <1>3 DEF Reload, ProcessCrash, PowerLoss, Dies
<1>4. QED BY <1>1, <1>2, <1>3 DEF Next

\* The steps by what they do to the call under way.
Around == (\E k \in Keys : Get(k)) \/ FlushBehind \/ Recover \/ Damage
            \/ \E before \in 1..MaxSeq + 1 : \E gone \in kept..before : Clean(before, gone)
Fails  == ForceFails \/ AppendFails \/ BatchSyncFails \/ ReloadFails \/ SnapshotFails

LEMMA AroundQuiet ==
  ASSUME Around
  PROVE  UNCHANGED <<memory, control, up, acked>>
<1>1. CASE \E k \in Keys : Get(k)
  BY <1>1 DEF Get, logs
<1>2. CASE FlushBehind \/ Recover \/ Damage
  BY <1>2 DEF FlushBehind, Recover, Damage, L!Force, FlushLog, logs, history
<1>3. CASE \E before \in 1..MaxSeq + 1 : \E gone \in kept..before : Clean(before, gone)
  BY <1>3 DEF Clean, FlushLog, history
<1>4. QED BY <1>1, <1>2, <1>3 DEF Around

LEMMA FailsQuiet ==
  ASSUME Fails
  PROVE  Return /\ UNCHANGED <<logs, memory, dir, history>>
BY DEF Fails, ForceFails, AppendFails, BatchSyncFails, ReloadFails, SnapshotFails

LEMMA NextSteps ==
  ASSUME Next
  PROVE  \/ \E cmd \in Command : Update(cmd)
         \/ \E cmds \in Batches : SetBatch(cmds)
         \/ BatchAppend \/ Forced \/ BatchSync \/ ApplyNext
         \/ \E n \in durable..Len(log) : Open(n)
         \/ Reload \/ LoadSnapshot \/ Replay \/ ReplayNext \/ ReplayReturns
         \/ \E p \in Paths : Snapshot(p)
         \/ Rename \/ SyncDir
         \/ \E name \in Names : DeleteSnapshot(name)
         \/ ProcessCrash \/ PowerLoss \/ Around \/ Fails
BY DEF Next, Around, Fails

LEMMA IdleCall == NoTask.seqs = <<>> /\ NoTask.next = 0 /\ NoTask.body = NoFile
BY DEF NoTask

\* A step behind which no call is under way.
LEMMA ReturnsCopied ==
  ASSUME Return, up' \/ (kv' = Empty /\ applied' = 0)
  PROVE  Copied' /\ Spare'
BY IdleCall DEF Return, Copied, Spare

\* A step of a call that is neither starting nor copying memory.
LEMMA CallCopied ==
  ASSUME up', pc' \notin {"rename", "load"}, ~Updating' => task'.seqs = <<>>
  PROVE  Copied' /\ Spare'
BY DEF Copied, Spare

LEMMA StepCopied ==
  ASSUME IInv, Copied, Spare, Next
  PROVE  Copied' /\ Spare'
<1>1. task \in Task /\ (~up => pc = "idle")
  BY DEF IInv, TypeOK
<1>2. CASE Around
  <2>1. UNCHANGED <<kv, applied, task, pc, up>>
    BY <1>2, AroundQuiet DEF memory, control
  <2>2. Body' = Body
    BY <2>1 DEF Body
  <2>3. QED BY <2>1, <2>2 DEF Copied, Spare, Updating
<1>3. CASE Fails
  <2>1. Return /\ up' = up /\ UNCHANGED memory
    BY <1>3, FailsQuiet DEF logs
  <2>2. QED BY <2>1, ReturnsCopied DEF Copied, memory
<1>4. CASE ReplayReturns \/ SyncDir
  <2>1. Return /\ up'
    BY <1>4 DEF ReplayReturns, SyncDir, logs
  <2>2. QED BY <2>1, ReturnsCopied
<1>5. CASE ProcessCrash \/ PowerLoss
  BY <1>5, ReturnsCopied DEF ProcessCrash, PowerLoss, Dies
<1>6. CASE (\E cmd \in Command : Update(cmd)) \/ (\E cmds \in Batches : SetBatch(cmds))
           \/ BatchAppend \/ Forced \/ BatchSync
  <2>1. CASE (\E cmd \in Command : Update(cmd)) \/ \E cmds \in Batches : SetBatch(cmds)
    <3>1. up' /\ pc' \in {"append", "force"}
      <4>1. CASE \E cmd \in Command : Update(cmd)
        BY <4>1 DEF Update, Idle, L!Write
      <4>2. CASE \E cmds \in Batches : SetBatch(cmds)
        BY <4>2 DEF SetBatch, Idle, logs
      <4>3. QED BY <2>1, <4>1, <4>2
    <3>2. QED BY <3>1, CallCopied DEF Updating
  <2>2. CASE BatchAppend
    BY <2>2, CallCopied DEF BatchAppend, L!Write, Updating
  <2>3. CASE Forced \/ BatchSync
    <3>1. up' /\ pc' \in {"append", "force", "apply"}
      BY <2>3 DEF Forced, BatchSync, FlushLog
    <3>2. QED BY <3>1, CallCopied DEF Updating
  <2>4. QED BY <1>6, <2>1, <2>2, <2>3
<1>7. CASE ApplyNext
  <2>1. up' /\ (Return \/ pc' = "apply")
    BY <1>7 DEF ApplyNext, logs
  <2>2. QED BY <2>1, ReturnsCopied, CallCopied DEF Updating
<1>8. CASE \E n \in durable..Len(log) : Open(n)
  <2>1. /\ ~up /\ UNCHANGED memory /\ pc' = "load" /\ task' = [NoTask EXCEPT !.op = "new"]
    BY <1>8 DEF Open
  <2>2. task'.seqs = <<>>
    BY <2>1, IdleCall DEF NoTask
  <2>3. QED BY <2>1, <2>2 DEF Copied, Spare, memory
<1>9. CASE Reload
  <2>1. /\ kv' = Empty /\ applied' = 0 /\ pc' = "load" /\ task' = [NoTask EXCEPT !.op = "reload"]
    BY <1>9 DEF Reload
  <2>2. task'.seqs = <<>>
    BY <2>1, IdleCall DEF NoTask
  <2>3. QED BY <2>1, <2>2 DEF Copied, Spare
<1>10. CASE LoadSnapshot \/ Replay \/ ReplayNext
  <2>1. up' /\ pc' \in {"flush", "replay"} /\ pc \in {"load", "flush", "replay"}
    BY <1>10 DEF LoadSnapshot, Replay, ReplayNext, FlushLog, logs
  <2>2. task'.seqs = task.seqs
    BY <1>1, <1>10 DEF LoadSnapshot, Replay, ReplayNext, Task
  <2>3. task.seqs = <<>>
    BY <2>1 DEF Spare, Updating
  <2>4. QED BY <2>1, <2>2, <2>3, CallCopied
<1>11. CASE \E p \in Paths : Snapshot(p)
  <2>1. PICK p \in Paths : Snapshot(p)
    BY <1>11
  <2>2. /\ task' = [NoTask EXCEPT !.op = "snapshot", !.path = p, !.body = Body]
        /\ pc' = "rename" /\ up' /\ UNCHANGED <<kv, applied>>
    BY <2>1 DEF Snapshot, Idle, FlushLog, memory
  <2>3. task'.seqs = <<>> /\ task'.body = Body
    BY <2>2, IdleCall DEF NoTask
  <2>4. Body' = Body
    BY <2>2 DEF Body
  <2>5. QED BY <2>2, <2>3, <2>4 DEF Copied, Spare
<1>12. CASE Rename
  <2>1. pc = "rename" /\ pc' = "syncdir" /\ task' = task /\ up'
    BY <1>12 DEF Rename, logs
  <2>2. QED BY <2>1, CallCopied DEF Spare, Updating
<1>13. CASE \E name \in Names : DeleteSnapshot(name)
  <2>1. PICK name \in Names : DeleteSnapshot(name)
    BY <1>13
  <2>2. pc' = "syncdir" /\ up' /\ task' = [NoTask EXCEPT !.op = "remove", !.path = name]
    BY <2>1 DEF DeleteSnapshot, Idle, logs
  <2>3. task'.seqs = <<>>
    BY <2>2, IdleCall DEF NoTask
  <2>4. QED BY <2>2, <2>3, CallCopied
<1>14. QED
  BY <1>2, <1>3, <1>4, <1>5, <1>6, <1>7, <1>8, <1>9, <1>10, <1>11, <1>12, <1>13, NextSteps

\* A replay visits the sequences one by one.
LEMMA StepGapless ==
  ASSUME IInv, Reaches, Gapless, Next
  PROVE  Gapless'
<1>1. /\ task \in Task /\ applied \in Nat /\ (pc = "replay" => task.next \in Nat)
      /\ log \in Seq(Command) /\ durable \in Nat /\ durable <= Len(log)
  BY DEF IInv, TypeOK, Steps
<1>2. CASE Around
  BY <1>2, AroundQuiet DEF memory, control, Gapless
<1>3. CASE Replay
  <2>1. pc = "flush" /\ applied' = applied /\ task'.next = first
    BY <1>1, <1>3 DEF Replay, memory, Task
  <2>2. QED BY <2>1 DEF Reaches, Gapless
<1>4. CASE ReplayNext
  <2>1. pc = "replay" /\ Apply(task.next) /\ task'.next = task.next + 1 /\ task.next <= applied + 1
    BY <1>1, <1>4 DEF ReplayNext, Task, Gapless
  <2>2. applied' = IF task.next <= applied THEN applied ELSE task.next
    BY <2>1 DEF Apply, memory
  <2>3. QED BY <1>1, <2>1, <2>2 DEF Gapless
<1>5. ASSUME pc' # "replay" PROVE Gapless'
  BY <1>5 DEF Gapless
<1>6. CASE Fails \/ ReplayReturns \/ SyncDir \/ ProcessCrash \/ PowerLoss
  <2>1. pc' = "idle"
    BY <1>6, FailsQuiet DEF ReplayReturns, SyncDir, ProcessCrash, PowerLoss, Dies, Return
  <2>2. QED BY <1>5, <2>1
<1>7. CASE (\E cmd \in Command : Update(cmd)) \/ (\E cmds \in Batches : SetBatch(cmds))
           \/ BatchAppend \/ Forced \/ BatchSync \/ ApplyNext
  <2>1. pc' # "replay"
    BY <1>7 DEF Update, SetBatch, BatchAppend, Forced, BatchSync, ApplyNext, Return
  <2>2. QED BY <1>5, <2>1
<1>8. CASE (\E n \in durable..Len(log) : Open(n)) \/ Reload \/ LoadSnapshot \/ Rename
           \/ (\E p \in Paths : Snapshot(p)) \/ \E name \in Names : DeleteSnapshot(name)
  <2>1. pc' # "replay"
    BY <1>8 DEF Open, Reload, LoadSnapshot, Rename, Snapshot, DeleteSnapshot
  <2>2. QED BY <1>5, <2>1
<1>9. QED BY <1>2, <1>3, <1>4, <1>6, <1>7, <1>8, NextSteps

-------------------------------------------------------------------------------
(* Without failing updates memory is the whole log.                         *)

LEMMA WholeGrows ==
  ASSUME TypeOK, LogGrows, NEW values, NEW upTo \in Nat, upTo <= durable, Whole(values, upTo)
  PROVE  Holds(log', 1..upTo, values, upTo)
<1>1. durable \in Nat /\ 1..upTo \subseteq 1..durable
  BY DEF TypeOK
<1>2. QED BY <1>1, HoldsGrows DEF Whole

\* Every file that was there before, and none at all.
LEMMA FileWhole ==
  ASSUME IInv, AllWhole, LogGrows, NEW p \in Paths,
         NEW f \in {files[p], settled[p], NoFile, BadFile}
  PROVE  Holds(log', 1..f.applied, f.values, f.applied)
<1>1. TypeOK /\ files[p] \in SnapshotFile /\ settled[p] \in SnapshotFile
  BY DEF IInv, TypeOK
<1>2. ASSUME NEW g \in SnapshotFile, Backed(g.applied, g.values), Whole(g.values, g.applied)
      PROVE  Holds(log', 1..g.applied, g.values, g.applied)
  BY <1>1, <1>2, WholeGrows DEF SnapshotFile, Backed
<1>3. CASE f \in {files[p], settled[p]}
  BY <1>1, <1>2, <1>3 DEF IInv, AllBacked, AllWhole
<1>4. CASE f \in {NoFile, BadFile}
  <2>1. f.applied = 0
    BY <1>4 DEF NoFile, BadFile
  <2>2. QED BY <2>1, HoldsBeyond
<1>5. QED BY <1>3, <1>4

LEMMA MemoryWhole ==
  ASSUME IInv, AllWhole, LogGrows, UNCHANGED memory \/ (kv' = Empty /\ applied' = 0)
  PROVE  Whole(kv, applied)'
<1>1. TypeOK /\ applied \in Nat /\ applied <= durable
  BY DEF IInv, TypeOK, AllBacked, Backed
<1>2. CASE UNCHANGED memory
  <2>1. Holds(log', 1..applied, kv, applied)
    BY <1>1, WholeGrows DEF AllWhole
  <2>2. QED BY <1>2, <2>1 DEF memory, Whole
<1>3. CASE kv' = Empty /\ applied' = 0
  <2>1. Holds(log', 1..0, kv', 0)
    BY HoldsBeyond
  <2>2. QED BY <1>3, <2>1 DEF Whole
<1>4. QED BY <1>2, <1>3

\* The next command of the log is applied.
LEMMA ApplyWhole ==
  ASSUME IInv, AllWhole, UNCHANGED logs, NEW seq \in 1..Len(log), Apply(seq), seq <= applied + 1
  PROVE  Whole(kv, applied)'
<1>1. TypeOK /\ applied \in Nat /\ log' = log /\ Whole(kv, applied)
  BY DEF IInv, TypeOK, AllWhole, logs
<1>2. CASE seq <= applied
  BY <1>1, <1>2 DEF Apply, memory, Whole
<1>3. CASE ~(seq <= applied)
  <2>1. seq = applied + 1 /\ applied' = seq /\ applied < seq
    BY <1>1, <1>3 DEF Apply
  <2>2. \A s \in 1..applied : s <= applied \/ seq <= s
    OBVIOUS
  <2>3. 1..applied \subseteq Nat /\ Holds(log, 1..applied, kv, applied)
    BY <1>1 DEF Whole
  <2>4. Holds(log, 1..applied \cup {seq}, kv', applied')
    BY <1>1, <2>1, <2>2, <2>3, HoldsApply
  <2>5. 1..applied' \subseteq 1..applied \cup {seq}
    BY <1>1, <2>1
  <2>6. Holds(log, 1..applied', kv', applied')
    BY <2>4, <2>5, HoldsLess
  <2>7. QED BY <1>1, <2>6 DEF Whole
<1>4. QED BY <1>2, <1>3

LEMMA StepWhole ==
  ASSUME IInv, WInv, Next
  PROVE  AllWhole'
<1>1. TypeOK /\ LogGrows /\ AllWhole
  BY StepGrows DEF IInv, WInv
<1>2. CASE Rename
  <2>1. /\ files' = [files EXCEPT ![task.path] = task.body] /\ settled' = settled
        /\ log' = log /\ UNCHANGED memory /\ task.body = Body
    BY <1>2 DEF Rename, logs, WInv, Copied
  <2>2. Whole(kv, applied)'
    BY <1>1, <2>1, MemoryWhole
  <2>3. Whole(Body.values, Body.applied)
    BY <1>1 DEF Body, AllWhole
  <2>4. \A p \in Paths : files'[p] = files[p] \/ files'[p] = Body
    BY <1>1, <2>1 DEF TypeOK
  <2>5. \A p \in Paths : Whole(files[p].values, files[p].applied)'
    BY <1>1, <2>1, <2>3, <2>4 DEF AllWhole, Whole
  <2>6. \A p \in Paths : Whole(settled[p].values, settled[p].applied)'
    BY <1>1, <2>1 DEF AllWhole, Whole
  <2>7. QED BY <2>2, <2>5, <2>6 DEF AllWhole
<1>3. ASSUME ~Rename, Whole(kv, applied)' PROVE AllWhole'
  <2>1. ASSUME NEW p \in Paths
        PROVE  Whole(files[p].values, files[p].applied)' /\ Whole(settled[p].values, settled[p].applied)'
    <3>1. /\ files'[p] \in {files[p], settled[p], NoFile, BadFile}
          /\ settled'[p] \in {files[p], settled[p], NoFile, BadFile}
      BY <1>3, StepDir
    <3>2. Holds(log', 1..files'[p].applied, files'[p].values, files'[p].applied)
      BY <1>1, <3>1, FileWhole
    <3>3. Holds(log', 1..settled'[p].applied, settled'[p].values, settled'[p].applied)
      BY <1>1, <3>1, FileWhole
    <3>4. QED BY <3>2, <3>3 DEF Whole
  <2>2. QED BY <1>3, <2>1 DEF AllWhole
<1>4. CASE ApplyNext
  <2>1. /\ pc = "apply" /\ Apply(task.seqs[task.next]) /\ UNCHANGED logs /\ ~Rename
    BY <1>4 DEF ApplyNext, Rename
  <2>2. /\ task.next \in Nat \ {0} /\ task.next <= Len(task.seqs)
        /\ task.seqs \in Seq(Nat) /\ applied \in Nat
        /\ \A i \in 1..Len(task.seqs) : task.seqs[i] \in 1..Len(log)
    BY <2>1 DEF IInv, TypeOK, Task, Steps
  <2>3. task.next \in 1..Len(task.seqs)
    BY <2>2
  <2>4. task.seqs[task.next] + task.next = applied + 1 + task.next /\ task.seqs[task.next] \in 1..Len(log)
    <3>1. task.next <= task.next
      BY <2>2
    <3>2. Updating /\ Level
      BY <2>1 DEF WInv, Updating
    <3>3. QED BY <2>2, <2>3, <3>1, <3>2 DEF Level
  <2>5. task.seqs[task.next] <= applied + 1
    BY <2>2, <2>4
  <2>6. QED BY <1>1, <1>3, <2>1, <2>4, <2>5, ApplyWhole
<1>5. CASE ReplayNext
  <2>1. /\ pc = "replay" /\ Apply(task.next) /\ UNCHANGED logs /\ ~Rename /\ task.next <= durable
    BY <1>5 DEF ReplayNext, Rename
  <2>2. task.next \in 1..Len(log) /\ task.next <= applied + 1
    BY <2>1 DEF IInv, TypeOK, Steps, WInv, Gapless
  <2>3. QED BY <1>1, <1>3, <2>1, <2>2, ApplyWhole
<1>6. CASE LoadSnapshot
  <2>1. pc = "load" /\ ~Rename /\ log' = log /\ Primary \in Paths
    BY <1>6, NoTaskType DEF LoadSnapshot, Rename, logs
  <2>2. CASE files[Primary].kind = "ok"
    <3>1. kv' = files[Primary].values /\ applied' = files[Primary].applied
      BY <1>6, <2>2 DEF LoadSnapshot
    <3>2. Holds(log, 1..files[Primary].applied, files[Primary].values, files[Primary].applied)
      BY <1>1, <2>1 DEF AllWhole, Whole
    <3>3. Whole(kv, applied)'
      BY <2>1, <3>1, <3>2 DEF Whole
    <3>4. QED BY <1>3, <2>1, <3>3
  <2>3. CASE files[Primary].kind # "ok"
    <3>1. UNCHANGED memory
      BY <1>6, <2>3 DEF LoadSnapshot
    <3>2. QED BY <1>1, <1>3, <2>1, <3>1, MemoryWhole
  <2>4. QED BY <2>2, <2>3
<1>7. CASE ~Rename /\ ~ApplyNext /\ ~ReplayNext /\ ~LoadSnapshot
  BY <1>1, <1>3, <1>7, StepMemory, MemoryWhole
<1>8. QED BY <1>2, <1>4, <1>5, <1>6, <1>7

\* A step behind which no update is under way.
LEMMA LevelAtRest ==
  ASSUME pc' \notin {"append", "force", "apply", "replay"},
         up' /\ pc' \in {"idle", "rename", "syncdir"} => applied' = Len(log')
  PROVE  Level'
BY DEF Level, Updating

\* A step in the middle of one.
LEMMA LevelUpdating ==
  ASSUME pc' \in {"append", "force", "apply"},
         Len(log') + task'.next = applied' + Len(task'.seqs) + 1,
         \A i \in 1..Len(task'.seqs) : task'.next <= i => task'.seqs[i] + task'.next = applied' + 1 + i
  PROVE  Level'
BY DEF Level, Updating

LEMMA UpdatesLevel ==
  ASSUME IInv, WInv,
         \/ \E cmd \in Command : Update(cmd)
         \/ \E cmds \in Batches : SetBatch(cmds)
         \/ BatchAppend \/ Forced \/ BatchSync
  PROVE  Level'
<1>1. /\ log \in Seq(Command) /\ Len(log) \in Nat /\ applied \in Nat /\ task \in Task
      /\ Level /\ Spare /\ task.seqs \in Seq(Nat) /\ TypeOK
  BY DEF IInv, TypeOK, WInv, Task
<1>2. CASE \E cmd \in Command : Update(cmd)
  <2>1. PICK cmd \in Command : Update(cmd)
    BY <1>2
  <2>2. /\ task' = [NoTask EXCEPT !.op = "update", !.seqs = <<Len(log) + 1>>, !.next = 1]
        /\ pc' = "force" /\ applied' = applied /\ up /\ pc = "idle" /\ log' = Append(log, cmd)
    BY <2>1 DEF Update, Idle, L!Write, memory
  <2>3. /\ task'.seqs = <<Len(log) + 1>> /\ task'.next = 1 /\ Len(log') = Len(log) + 1
        /\ applied = Len(log)
    BY <1>1, <2>2 DEF NoTask, Level
  <2>4. Len(task'.seqs) = 1 /\ task'.seqs[1] = Len(log) + 1
    BY <2>3
  <2>5. \A i \in 1..Len(task'.seqs) : task'.next <= i => task'.seqs[i] + task'.next = applied' + 1 + i
    BY <1>1, <2>2, <2>3, <2>4
  <2>6. Len(log') + task'.next = applied' + Len(task'.seqs) + 1
    BY <1>1, <2>2, <2>3, <2>4
  <2>7. QED BY <2>2, <2>5, <2>6, LevelUpdating
<1>3. CASE \E cmds \in Batches : SetBatch(cmds)
  <2>1. PICK cmds \in Batches : SetBatch(cmds)
    BY <1>3
  <2>2. /\ task' = [NoTask EXCEPT !.op = "batch", !.todo = cmds, !.next = 1]
        /\ pc' = "append" /\ applied' = applied /\ up /\ pc = "idle" /\ log' = log
    BY <2>1 DEF SetBatch, Idle, logs, memory
  <2>3. task'.seqs = <<>> /\ task'.next = 1 /\ applied = Len(log)
    BY <1>1, <2>2 DEF NoTask, Level
  <2>4. Len(task'.seqs) = 0
    BY <2>3
  <2>5. Len(log') + task'.next = applied' + Len(task'.seqs) + 1
    BY <1>1, <2>2, <2>3, <2>4
  <2>6. QED BY <2>2, <2>4, <2>5, LevelUpdating
<1>4. CASE BatchAppend
  <2>1. /\ pc = "append" /\ pc' \in {"append", "force"} /\ applied' = applied
        /\ log' = Append(log, Head(task.todo))
        /\ task' = [task EXCEPT !.todo = Tail(task.todo), !.seqs = Append(task.seqs, Len(log) + 1)]
    BY <1>4 DEF BatchAppend, memory, L!Write
  <2>2. /\ task'.seqs = Append(task.seqs, Len(log) + 1) /\ task'.next = task.next /\ task.next = 1
        /\ Len(log') = Len(log) + 1
    <3>1. Head(task.todo) \in Command
      BY <1>1, <1>4 DEF BatchAppend, Task
    <3>2. Len(log') = Len(log) + 1
      BY <1>1, <2>1, <3>1
    <3>3. task.next = 1
      BY <2>1 DEF IInv, Steps
    <3>4. QED BY <1>1, <2>1, <3>2, <3>3 DEF Task
  <2>3. Len(log) + 1 = applied + Len(task.seqs) + 1
    BY <1>1, <2>1, <2>2 DEF Level, Updating
  <2>4. Len(task'.seqs) = Len(task.seqs) + 1 /\ Len(task.seqs) \in Nat
    BY <1>1, <2>2
  <2>5. ASSUME NEW i \in 1..Len(task'.seqs)
        PROVE  task'.seqs[i] + 1 = applied + 1 + i
    <3>1. CASE i = Len(task.seqs) + 1
      <4>1. task'.seqs[i] = Len(log) + 1
        BY <1>1, <2>2, <3>1
      <4>2. (Len(log) + 1) + 1 = applied + 1 + (Len(task.seqs) + 1)
        <5> DEFINE a == Len(log)
                   c == Len(task.seqs)
        <5>1. a \in Nat /\ c \in Nat /\ applied \in Nat /\ a + 1 = applied + c + 1
          BY <1>1, <2>3, <2>4, Zenon
        <5>2. (a + 1) + 1 = applied + 1 + (c + 1)
          <6> HIDE DEF a, c
          <6> QED BY <5>1
        <5>3. QED BY <5>2, Zenon
      <4>3. QED BY <3>1, <4>1, <4>2
    <3>2. CASE i \in 1..Len(task.seqs)
      <4>1. task'.seqs[i] = task.seqs[i] /\ 1 <= i
        BY <1>1, <2>2, <3>2
      <4>2. task.seqs[i] + task.next = applied + 1 + i
        <5>1. Updating /\ task.next <= i
          BY <2>1, <2>2, <4>1 DEF Updating
        <5>2. QED BY <1>1, <3>2, <5>1 DEF Level
      <4>3. QED BY <2>2, <4>1, <4>2
    <3>3. QED BY <2>4, <3>1, <3>2
  <2>6. Len(log') + task'.next = applied' + Len(task'.seqs) + 1
    BY <1>1, <2>1, <2>2, <2>3, <2>4
  <2>7. QED BY <2>1, <2>2, <2>5, <2>6, LevelUpdating
<1>5. CASE Forced \/ BatchSync
  <2>1. /\ pc \in {"append", "force"} /\ pc' \in {"append", "apply"} /\ applied' = applied
        /\ log' = log /\ task' = task
    BY <1>5 DEF Forced, BatchSync, FlushLog, memory
  <2>2. Updating
    BY <2>1 DEF Updating
  <2>3. QED BY <1>1, <2>1, <2>2, LevelUpdating DEF Level
<1>6. QED BY <1>2, <1>3, <1>4, <1>5

LEMMA ApplyLevel ==
  ASSUME IInv, WInv, ApplyNext
  PROVE  Level'
<1>1. /\ Len(log) \in Nat /\ applied \in Nat /\ task \in Task /\ Level
      /\ task.seqs \in Seq(Nat) /\ pc = "apply" /\ up /\ log' = log
      /\ task.next \in Nat \ {0} /\ task.next <= Len(task.seqs) /\ Apply(task.seqs[task.next])
  BY DEF IInv, TypeOK, WInv, Task, Steps, ApplyNext, logs
<1>2. task.next \in 1..Len(task.seqs) /\ task.next <= task.next /\ Updating
  BY <1>1 DEF Updating
<1>3. /\ Len(log) + task.next = applied + Len(task.seqs) + 1
      /\ \A i \in 1..Len(task.seqs) :
            task.next <= i => task.seqs[i] + task.next = applied + 1 + i
  BY <1>1, <1>2 DEF Level
<1>4. task.seqs[task.next] + task.next = applied + 1 + task.next /\ task.seqs[task.next] \in Nat
  <2>1. task.seqs[task.next] \in Nat
    BY <1>1, <1>2
  <2>2. QED BY <1>2, <1>3, <2>1, Zenon
<1>5. task.seqs[task.next] = applied + 1
  BY <1>1, <1>4
<1>6. applied' = applied + 1
  BY <1>1, <1>5 DEF Apply
<1>7. CASE task.next < Len(task.seqs)
  <2>1. task' = [task EXCEPT !.next = task.next + 1] /\ pc' = "apply"
    BY <1>1, <1>7 DEF ApplyNext
  <2>2. task'.seqs = task.seqs /\ task'.next = task.next + 1
    BY <1>1, <2>1 DEF Task
  <2>3. Len(log') + task'.next = applied' + Len(task'.seqs) + 1
    <3>1. Len(task.seqs) \in Nat /\ Len(log) \in Nat /\ task.next \in Nat /\ applied \in Nat
      BY <1>1
    <3> DEFINE a == Len(log)
               c == Len(task.seqs)
               n == task.next
    <3>a. a \in Nat /\ c \in Nat /\ n \in Nat /\ applied \in Nat /\ a + n = applied + c + 1
      BY <1>3, <3>1, Zenon
    <3>b. a + (n + 1) = (applied + 1) + c + 1
      <4> HIDE DEF a, c, n
      <4> QED BY <3>a
    <3>2. Len(log) + (task.next + 1) = (applied + 1) + Len(task.seqs) + 1
      BY <3>b, Zenon
    <3>3. Len(log') = Len(log) /\ Len(task'.seqs) = Len(task.seqs)
      BY <1>1, <2>2
    <3>4. QED BY <1>6, <2>2, <3>2, <3>3
  <2>4. ASSUME NEW i \in 1..Len(task'.seqs), task'.next <= i
        PROVE  task'.seqs[i] + task'.next = applied' + 1 + i
    <3>1. i \in 1..Len(task.seqs)
      BY <2>2, <2>4
    <3>2. i \in Nat /\ task.next \in Nat /\ applied \in Nat /\ task.seqs[i] \in Nat /\ task.next <= i
      BY <1>1, <2>2, <2>4, <3>1
    <3>3. task.seqs[i] + task.next = applied + 1 + i
      BY <1>3, <3>1, <3>2
    <3>4. task.seqs[i] + (task.next + 1) = (applied + 1) + 1 + i
      BY <3>2, <3>3
    <3>5. QED BY <1>6, <2>2, <3>4
  <2>5. QED BY <2>1, <2>3, <2>4, LevelUpdating
<1>8. CASE ~(task.next < Len(task.seqs))
  <2>1. pc' = "idle" /\ task.next = Len(task.seqs)
    BY <1>1, <1>8 DEF ApplyNext, Return
  <2>2. applied' = Len(log')
    BY <1>1, <1>3, <1>6, <2>1
  <2>3. QED BY <2>1, <2>2, LevelAtRest
<1>9. QED BY <1>7, <1>8

LEMMA StepLevel ==
  ASSUME Exact, IInv, WInv, Next
  PROVE  Level'
<1>1. Level /\ TypeOK /\ Gapless /\ applied <= durable /\ durable <= Len(log)
      /\ applied \in Nat /\ durable \in Nat /\ Len(log) \in Nat
  BY DEF WInv, IInv, AllBacked, Backed, TypeOK
<1>2. CASE Around
  <2>1. UNCHANGED <<applied, task, pc, up>>
    BY <1>2, AroundQuiet DEF memory, control
  <2>2. log' = log /\ (durable' = durable \/ pc # "replay")
    <3>1. CASE (\E k \in Keys : Get(k)) \/ Damage
      BY <3>1 DEF Get, Damage, logs
    <3>2. CASE FlushBehind \/ Recover
      BY <3>2 DEF FlushBehind, Recover, LogFree, FlushLog, L!Force
    <3>3. CASE \E before \in 1..MaxSeq + 1 : \E gone \in kept..before : Clean(before, gone)
      BY <3>3 DEF Clean, LogFree, FlushLog
    <3>4. QED BY <1>2, <3>1, <3>2, <3>3 DEF Around
  <2>3. CASE pc = "replay"
    BY <1>1, <2>1, <2>2, <2>3 DEF Level, Updating
  <2>4. CASE pc # "replay"
    BY <1>1, <2>1, <2>2, <2>4 DEF Level, Updating
  <2>5. QED BY <2>3, <2>4
<1>3. CASE Fails
  <2>1. SnapshotFails
    BY <1>3 DEF Fails, ForceFails, AppendFails, BatchSyncFails, ReloadFails, Exact
  <2>2. up /\ pc \in {"rename", "syncdir"} /\ pc' = "idle" /\ log' = log /\ applied' = applied
    BY <2>1 DEF SnapshotFails, Return, logs, memory
  <2>3. QED BY <1>1, <2>2, LevelAtRest DEF Level
<1>4. CASE ReplayReturns
  <2>1. /\ pc = "replay" /\ task.next > durable /\ pc' = "idle" /\ log' = log /\ applied' = applied
    BY <1>4 DEF ReplayReturns, Return, logs, memory
  <2>2. task.next \in Nat /\ task.next <= applied + 1 /\ durable = Len(log)
    BY <1>1, <2>1 DEF Gapless, Level, IInv, Steps
  <2>3. applied = Len(log)
    BY <1>1, <2>1, <2>2
  <2>4. QED BY <2>1, <2>3, LevelAtRest
<1>5. CASE SyncDir \/ Rename
  <2>1. up /\ pc \in {"rename", "syncdir"} /\ pc' \in {"idle", "syncdir"} /\ log' = log /\ applied' = applied
    BY <1>5 DEF SyncDir, Rename, Return, logs, memory
  <2>2. QED BY <1>1, <2>1, LevelAtRest DEF Level
<1>6. CASE (\E p \in Paths : Snapshot(p)) \/ \E name \in Names : DeleteSnapshot(name)
  <2>1. up /\ pc = "idle" /\ pc' \in {"rename", "syncdir"} /\ log' = log /\ applied' = applied
    <3>1. CASE \E p \in Paths : Snapshot(p)
      BY <3>1 DEF Snapshot, Idle, FlushLog, memory
    <3>2. CASE \E name \in Names : DeleteSnapshot(name)
      BY <3>2 DEF DeleteSnapshot, Idle, logs, memory
    <3>3. QED BY <1>6, <3>1, <3>2
  <2>2. QED BY <1>1, <2>1, LevelAtRest DEF Level
<1>7. CASE ProcessCrash \/ PowerLoss
  <2>1. pc' = "idle" /\ ~up'
    BY <1>7 DEF ProcessCrash, PowerLoss, Dies, Return, L!Stop
  <2>2. QED BY <2>1, LevelAtRest
<1>8. CASE (\E n \in durable..Len(log) : Open(n)) \/ Reload \/ LoadSnapshot
  <2>1. pc' \in {"load", "flush"}
    BY <1>8 DEF Open, Reload, LoadSnapshot
  <2>2. QED BY <2>1, LevelAtRest
<1>9. CASE Replay \/ ReplayNext
  <2>1. pc' = "replay" /\ durable' = Len(log')
    BY <1>1, <1>9 DEF Replay, ReplayNext, FlushLog, logs, Level
  <2>2. QED BY <2>1 DEF Level, Updating
<1>10. QED
  BY <1>2, <1>3, <1>4, <1>5, <1>6, <1>7, <1>8, <1>9, UpdatesLevel, ApplyLevel, NextSteps

LEMMA StartsEmpty ==
  ASSUME Init
  PROVE  /\ ~up /\ pc = "idle" /\ kv = Empty /\ applied = 0 /\ task.seqs = <<>> /\ durable = 0
         /\ acked = {} /\ seen = Empty /\ watermark = 0 /\ first = 1 /\ kept = 1
         /\ \A p \in Paths : files[p] = NoFile /\ settled[p] = NoFile
BY IdleCall DEF Init, L!Init

\* A replay that follows a snapshot begins no later than that snapshot ends: because the
\* cleaning respects the watermark, or because nobody cleans.
LEMMA ReachesHolds ==
  ASSUME Reliable \/ ~Cleaning
  PROVE  Spec => [](IInv /\ Reaches)
<1>1. CASE Reliable
  <2>1. Init => Watermarked
    <3>1. SUFFICES ASSUME Init PROVE Watermarked
      OBVIOUS
    <3>2. NoFile.applied = 0 /\ Primary \in Paths
      BY NoTaskType DEF NoFile
    <3>3. QED BY <3>1, <3>2, StartsEmpty DEF Watermarked
  <2>2. IInv /\ Watermarked /\ [Next]_vars => Watermarked'
    <3>1. ASSUME Watermarked, UNCHANGED vars PROVE Watermarked'
      BY <3>1 DEF Watermarked, vars, logs, memory, dir, control, history
    <3>2. QED BY <1>1, <3>1, WatermarkedKept
  <2>3. IInv /\ Watermarked => Reaches
    <3>1. SUFFICES ASSUME IInv, Watermarked, pc = "flush" PROVE first <= applied + 1
      BY DEF Reaches
    <3>2. first \in Nat /\ watermark \in Nat /\ applied \in Nat /\ up
      BY <3>1 DEF IInv, TypeOK
    <3>3. first <= watermark + 1 /\ watermark <= applied
      BY <3>1, <3>2 DEF Watermarked
    <3>4. QED BY <3>2, <3>3
  <2>4. QED BY <2>1, <2>2, <2>3, Inductive, PTL DEF Spec
<1>2. CASE ~Cleaning
  <2> DEFINE Uncleaned == first = 1 /\ kept = 1
  <2>1. Init => Uncleaned
    BY StartsEmpty
  <2>2. Uncleaned /\ [Next]_vars => Uncleaned'
    <3>1. SUFFICES ASSUME first = 1, kept = 1, [Next]_vars PROVE first' = 1 /\ kept' = 1
      OBVIOUS
    <3>2. CASE UNCHANGED vars
      BY <3>1, <3>2 DEF vars, logs
    <3>3. CASE (\E n \in durable..Len(log) : Open(n)) \/ Recover
      BY <3>1, <3>3 DEF Open, Recover
    <3>4. CASE \E before \in 1..MaxSeq + 1 : \E gone \in kept..before : Clean(before, gone)
      BY <1>2, <3>4 DEF Clean
    <3>5. CASE Fails
      BY <3>1, <3>5, FailsQuiet DEF logs
    <3>6. CASE (\E cmd \in Command : Update(cmd)) \/ (\E cmds \in Batches : SetBatch(cmds))
               \/ BatchAppend \/ Forced \/ BatchSync \/ ApplyNext
      BY <3>1, <3>6 DEF Update, SetBatch, BatchAppend, Forced, BatchSync, ApplyNext, logs
    <3>7. CASE Reload \/ LoadSnapshot \/ Replay \/ ReplayNext \/ ReplayReturns
               \/ (\E p \in Paths : Snapshot(p)) \/ Rename \/ SyncDir
               \/ \E name \in Names : DeleteSnapshot(name)
      BY <3>1, <3>7 DEF Reload, LoadSnapshot, Replay, ReplayNext, ReplayReturns, Snapshot, Rename,
           SyncDir, DeleteSnapshot, logs
    <3>8. CASE ProcessCrash \/ PowerLoss \/ (\E k \in Keys : Get(k)) \/ FlushBehind \/ Damage
      BY <3>1, <3>8 DEF ProcessCrash, PowerLoss, Get, FlushBehind, Damage, logs
    <3>9. QED BY <3>1, <3>2, <3>3, <3>4, <3>5, <3>6, <3>7, <3>8, NextSteps DEF Around
  <2>3. IInv /\ Uncleaned => Reaches
    BY DEF IInv, TypeOK, Reaches
  <2> HIDE DEF Uncleaned
  <2>4. QED BY <2>1, <2>2, <2>3, Inductive, PTL DEF Spec
<1>3. QED BY <1>1, <1>2

\* As long as no update and no reload fails, memory and every snapshot are what a replay of the
\* log makes of its first commands: through batches, reloads, restarts, crashes, failing and, unless
\* somebody cleans the log, damaged snapshots (store.go, snapshot.go).
THEOREM AlwaysMatchesReplay ==
  ASSUME Exact
  PROVE  Spec => []MatchesReplay
<1>1. Init => WInv
  <2>1. SUFFICES ASSUME Init PROVE WInv
    OBVIOUS
  <2>2. /\ ~up /\ pc = "idle" /\ kv = Empty /\ applied = 0 /\ task.seqs = <<>>
        /\ \A p \in Paths : files[p] = NoFile /\ settled[p] = NoFile
    BY <2>1, StartsEmpty
  <2>3. \A values : Whole(values, 0)
    BY HoldsBeyond DEF Whole
  <2>4. AllWhole
    BY <2>2, <2>3 DEF AllWhole, NoFile
  <2>5. QED BY <2>2, <2>4 DEF WInv, Level, Updating, Copied, Spare, Gapless
<1>2. IInv /\ Reaches /\ WInv /\ [Next]_vars => WInv'
  <2>1. ASSUME WInv, UNCHANGED vars PROVE WInv'
    <3>1. UNCHANGED <<log, durable, up, kv, applied, files, settled, task, pc>>
      BY <2>1 DEF vars, logs, memory, dir, control
    <3>2. AllWhole' /\ Level'
      BY <2>1, <3>1 DEF WInv, AllWhole, Whole, Level, Updating
    <3>3. Copied' /\ Spare' /\ Gapless'
      BY <2>1, <3>1 DEF WInv, Copied, Body, Spare, Updating, Gapless
    <3>4. QED BY <3>2, <3>3 DEF WInv
  <2>2. ASSUME IInv, Reaches, WInv, Next PROVE WInv'
    BY <2>2, StepWhole, StepLevel, StepCopied, StepGapless DEF WInv
  <2>3. QED BY <2>1, <2>2
<1>3. WInv => MatchesReplay
  BY DEF WInv, AllWhole, Whole, Holds, MatchesReplay, Reflects
<1>4. Reliable \/ ~Cleaning
  BY DEF Exact, Reliable
<1>5. QED BY <1>1, <1>2, <1>3, <1>4, ReachesHolds, PTL DEF Spec

-------------------------------------------------------------------------------
(* What was acknowledged or read is never lost.                             *)

LEMMA NothingFinished ==
  ASSUME task' = NoTask \/ task'.seqs = <<>> \/ task'.next = 1
  PROVE  Finished' = {}
<1>1. task'.seqs = <<>> \/ task'.next = 1
  BY IdleCall
<1>2. CASE task'.seqs = <<>>
  BY <1>2 DEF Finished
<1>3. CASE task'.next = 1
  BY <1>3 DEF Finished
<1>4. QED BY <1>1, <1>2, <1>3

\* Only the application of a command adds to what is owed to the callers.
LEMMA StepOwed ==
  ASSUME IInv, Spare, Next, ~ApplyNext
  PROVE  Owed' \subseteq Owed /\ acked' = acked
<1>1. task \in Task
  BY DEF IInv, TypeOK
<1>2. ASSUME acked' = acked, Finished' = {} PROVE Owed' \subseteq Owed /\ acked' = acked
  BY <1>2 DEF Owed
<1>3. ASSUME acked' = acked, task' = task PROVE Owed' \subseteq Owed /\ acked' = acked
  BY <1>3 DEF Owed, Finished
<1>4. CASE Around
  BY <1>3, <1>4, AroundQuiet DEF control
<1>5. CASE Fails
  BY <1>2, <1>5, FailsQuiet, NothingFinished DEF history, Return
<1>6. CASE ReplayReturns \/ SyncDir \/ ProcessCrash \/ PowerLoss
  <2>1. acked' = acked /\ task' = NoTask
    BY <1>6 DEF ReplayReturns, SyncDir, ProcessCrash, PowerLoss, Dies, Return, history
  <2>2. QED BY <1>2, <2>1, NothingFinished
<1>7. CASE (\E cmd \in Command : Update(cmd)) \/ \E cmds \in Batches : SetBatch(cmds)
  <2>1. acked' = acked /\ task'.next = 1
    <3>1. CASE \E cmd \in Command : Update(cmd)
      BY <3>1 DEF Update, history, NoTask
    <3>2. CASE \E cmds \in Batches : SetBatch(cmds)
      BY <3>2 DEF SetBatch, history, NoTask
    <3>3. QED BY <1>7, <3>1, <3>2
  <2>2. QED BY <1>2, <2>1, NothingFinished
<1>8. CASE BatchAppend
  <2>1. pc = "append" /\ acked' = acked /\ task'.next = task.next
    BY <1>1, <1>8 DEF BatchAppend, history, Task
  <2>2. task.next = 1
    BY <2>1 DEF IInv, Steps
  <2>3. QED BY <1>2, <2>1, <2>2, NothingFinished
<1>9. CASE Forced \/ BatchSync \/ LoadSnapshot \/ Rename
  BY <1>3, <1>9 DEF Forced, BatchSync, LoadSnapshot, Rename, history
<1>10. CASE (\E n \in durable..Len(log) : Open(n)) \/ Reload
  <2>1. acked' = acked /\ task'.seqs = <<>>
    <3>1. CASE \E n \in durable..Len(log) : Open(n)
      BY <3>1, IdleCall DEF Open, history, NoTask
    <3>2. CASE Reload
      BY <3>2, IdleCall DEF Reload, history, NoTask
    <3>3. QED BY <1>10, <3>1, <3>2
  <2>2. QED BY <1>2, <2>1, NothingFinished
<1>11. CASE Replay \/ ReplayNext
  <2>1. acked' = acked /\ task'.seqs = task.seqs /\ ~Updating
    BY <1>1, <1>11 DEF Replay, ReplayNext, history, Task, Updating
  <2>2. QED BY <1>2, <2>1, NothingFinished DEF Spare
<1>12. CASE (\E p \in Paths : Snapshot(p)) \/ \E name \in Names : DeleteSnapshot(name)
  <2>1. acked' = acked /\ task'.seqs = <<>>
    <3>1. CASE \E p \in Paths : Snapshot(p)
      BY <3>1, IdleCall DEF Snapshot, history, NoTask
    <3>2. CASE \E name \in Names : DeleteSnapshot(name)
      BY <3>2, IdleCall DEF DeleteSnapshot, history, NoTask
    <3>3. QED BY <1>12, <3>1, <3>2
  <2>2. QED BY <1>2, <2>1, NothingFinished
<1>13. QED
  BY <1>4, <1>5, <1>6, <1>7, <1>8, <1>9, <1>10, <1>11, <1>12, NextSteps

\* Only a Get adds to what the readers have seen, a value that memory shows.
LEMMA SeenStays ==
  ASSUME Next, ~\E k \in Keys : Get(k)
  PROVE  seen' = seen
<1>1. CASE (\E cmd \in Command : Update(cmd)) \/ (\E cmds \in Batches : SetBatch(cmds))
           \/ BatchAppend \/ Forced \/ BatchSync \/ ApplyNext \/ Fails
  BY <1>1, FailsQuiet DEF Update, SetBatch, BatchAppend, Forced, BatchSync, ApplyNext, history
<1>2. CASE (\E n \in durable..Len(log) : Open(n)) \/ Reload \/ LoadSnapshot \/ Replay \/ ReplayNext
           \/ ReplayReturns \/ (\E p \in Paths : Snapshot(p)) \/ Rename \/ SyncDir
           \/ \E name \in Names : DeleteSnapshot(name)
  BY <1>2 DEF Open, Reload, LoadSnapshot, Replay, ReplayNext, ReplayReturns, Snapshot, Rename,
       SyncDir, DeleteSnapshot, history
<1>3. CASE ProcessCrash \/ PowerLoss \/ FlushBehind \/ Recover \/ Damage
           \/ \E before \in 1..MaxSeq + 1 : \E gone \in kept..before : Clean(before, gone)
  BY <1>3 DEF ProcessCrash, PowerLoss, FlushBehind, Recover, Damage, Clean, history
<1>4. QED BY <1>1, <1>2, <1>3, NextSteps DEF Around

LEMMA StepSeen ==
  ASSUME IInv, Next
  PROVE  Shown(seen)' \subseteq Shown(seen) \cup Shown(kv)
<1>1. CASE seen' = seen
  BY <1>1 DEF Shown
<1>2. CASE \E k \in Keys : Get(k)
  <2>1. PICK k \in Keys : Get(k)
    BY <1>2
  <2>2. seen' = [seen EXCEPT ![k] = kv[k]] /\ seen \in [Keys -> Nat]
    BY <2>1 DEF Get, IInv, TypeOK
  <2>3. \A j \in Keys : seen'[j] = seen[j] \/ seen'[j] = kv[j]
    BY <2>2
  <2>4. QED BY <2>3 DEF Shown
<1>3. QED BY <1>1, <1>2, SeenStays

\* The application of a command adds that command.
LEMMA ApplyOwed ==
  ASSUME IInv, ApplyNext, NEW seq, seq = task.seqs[task.next]
  PROVE  Owed' \subseteq Owed \cup {seq}
<1>1. task \in Task /\ task.next \in 1..Len(task.seqs) /\ task.next \in Nat /\ Len(task.seqs) \in Nat
  BY DEF ApplyNext, IInv, TypeOK, Steps, Task
<1>2. CASE task.next < Len(task.seqs)
  <2>1. acked' = acked /\ task' = [task EXCEPT !.next = task.next + 1]
    BY <1>2 DEF ApplyNext
  <2>2. task'.seqs = task.seqs /\ task'.next = task.next + 1
    BY <1>1, <2>1 DEF Task
  <2>3. \A j \in 1..Len(task.seqs) : j < task.next + 1 => j < task.next \/ j = task.next
    BY <1>1
  <2>4. Finished' \subseteq Finished \cup {seq}
    BY <2>2, <2>3 DEF Finished
  <2>5. QED BY <2>1, <2>4 DEF Owed
<1>3. CASE ~(task.next < Len(task.seqs))
  <2>1. acked' = acked \cup {task.seqs[i] : i \in 1..Len(task.seqs)} /\ task' = NoTask
    BY <1>3 DEF ApplyNext, Return
  <2>2. \A j \in 1..Len(task.seqs) : j < task.next \/ j = task.next
    BY <1>1, <1>3
  <2>3. acked' \subseteq Owed \cup {seq}
    BY <2>1, <2>2 DEF Owed, Finished
  <2>4. QED BY <2>1, <2>3, NothingFinished DEF Owed
<1>4. QED BY <1>2, <1>3

\* Memory holds what is due and what it shows, however the log grows.
LEMMA BaseHeld ==
  ASSUME IInv, DueDurable, DueHeld, LogGrows
  PROVE  /\ Due \cup Shown(kv) \subseteq 1..durable /\ Shown(kv) \subseteq 1..applied
         /\ Holds(log, Due \cup Shown(kv), kv, applied)
         /\ Holds(log', Due \cup Shown(kv), kv, applied)
<1>1. /\ TypeOK /\ applied \in Nat /\ durable \in Nat /\ applied <= durable /\ kv \in [Keys -> Nat]
      /\ Covered(log, applied, kv)
  BY DEF IInv, TypeOK, AllBacked, Backed
<1>2. Shown(kv) \subseteq 1..applied /\ Holds(log, Shown(kv), kv, applied)
  BY <1>1, ShownType, HoldsShown
<1>3. Holds(log, Due \cup Shown(kv), kv, applied)
  BY <1>2, HoldsBoth DEF DueHeld
<1>4. Due \cup Shown(kv) \subseteq 1..durable
  <2>1. 1..applied \subseteq 1..durable
    BY <1>1
  <2>2. QED BY <1>2, <2>1 DEF DueDurable
<1>5. Holds(log', Due \cup Shown(kv), kv, applied)
  BY <1>1, <1>3, <1>4, HoldsGrows
<1>6. QED BY <1>2, <1>3, <1>4, <1>5

LEMMA StepDue ==
  ASSUME IInv, Spare, Next, ~ApplyNext
  PROVE  Due' \subseteq Due \cup Shown(kv)
BY StepOwed, StepSeen DEF Due

LEMMA ApplyDue ==
  ASSUME IInv, ApplyNext, NEW seq, seq = task.seqs[task.next]
  PROVE  Due' \subseteq Due \cup {seq}
<1>1. Shown(seen)' = Shown(seen)
  BY DEF ApplyNext, Shown
<1>2. QED BY <1>1, ApplyOwed DEF Due

\* The command that is applied: behind everything that was.
LEMMA Applying ==
  ASSUME IInv, Fresh, ApplyNext, NEW seq, seq = task.seqs[task.next]
  PROVE  /\ seq \in 1..Len(log) /\ seq <= durable /\ seq \in Nat /\ applied < seq
         /\ \A p \in Paths : files[p].applied < seq /\ settled[p].applied < seq
         /\ Apply(seq) /\ up /\ pc = "apply" /\ UNCHANGED <<logs, dir>>
         /\ applied' = seq
<1>1. Apply(seq) /\ up /\ pc = "apply" /\ UNCHANGED <<logs, dir>>
  BY DEF ApplyNext
<1>2. task.next \in 1..Len(task.seqs) /\ task.next <= task.next
  BY <1>1 DEF IInv, TypeOK, Task, Steps
<1>3. seq \in 1..Len(log) /\ seq <= durable
  BY <1>1, <1>2 DEF IInv, Steps
<1>4. /\ applied < seq
      /\ \A p \in Paths : files[p].applied < seq /\ settled[p].applied < seq
  BY <1>2 DEF Fresh
<1>5. seq \in Nat
  BY <1>3
<1>6. applied' = seq
  BY <1>1, <1>4, <1>5 DEF Apply, IInv, TypeOK
<1>7. QED BY <1>1, <1>3, <1>4, <1>5, <1>6

\* The next command of a replay.
LEMMA Replaying ==
  ASSUME IInv, Gapless, ReplayNext
  PROVE  /\ task.next \in 1..Len(log) /\ task.next <= applied + 1 /\ Apply(task.next)
         /\ up /\ pc = "replay" /\ UNCHANGED <<logs, dir, history>>
<1>1. up /\ pc = "replay" /\ task.next <= durable /\ Apply(task.next) /\ UNCHANGED <<logs, dir, history>>
  BY DEF ReplayNext
<1>2. task.next \in 1..Len(log)
  BY <1>1 DEF IInv, TypeOK, Steps
<1>3. QED BY <1>1, <1>2 DEF Gapless

LEMMA StepDueHeld ==
  ASSUME IInv, KInv, Next
  PROVE  DueDurable' /\ DueHeld'
<1>1. /\ LogGrows /\ TypeOK /\ durable \in Nat /\ durable' \in Nat /\ durable <= durable'
      /\ applied \in Nat /\ kv \in [Keys -> Nat]
  BY StepGrows DEF LogGrows, IInv, TypeOK
<1>2. DueDurable /\ DueHeld /\ CaughtUp /\ Filed /\ Primaries /\ Spare /\ Fresh /\ Gapless
  BY DEF KInv
<1>3. /\ Due \cup Shown(kv) \subseteq 1..durable
      /\ Holds(log, Due \cup Shown(kv), kv, applied)
      /\ Holds(log', Due \cup Shown(kv), kv, applied)
  BY <1>1, <1>2, BaseHeld DEF KInv
<1>4. CASE ApplyNext
  <2>1. PICK seq : seq = task.seqs[task.next]
    OBVIOUS
  <2>2. /\ seq \in 1..Len(log) /\ seq <= durable /\ seq \in Nat /\ applied < seq
        /\ Apply(seq) /\ up /\ pc = "apply" /\ log' = log /\ durable' = durable
    BY <1>2, <1>4, <2>1, Applying DEF logs
  <2>3. Due' \subseteq Due \cup {seq}
    BY <1>4, <2>1, ApplyDue
  <2>4. seq \in 1..durable
    BY <1>1, <2>2
  <2>5. DueDurable'
    BY <1>3, <2>2, <2>3, <2>4 DEF DueDurable
  <2>6. \A s \in Due : s <= applied \/ seq <= s
    BY <1>2, <2>2 DEF CaughtUp, Loading
  <2>7. Due \subseteq Nat /\ Holds(log, Due, kv, applied)
    BY <1>1, <1>2, <1>3 DEF DueHeld
  <2>8. Holds(log, Due \cup {seq}, kv', applied')
    BY <1>1, <2>2, <2>6, <2>7, HoldsApply
  <2>9. Holds(log', Due', kv', applied')
    BY <2>2, <2>3, <2>8, HoldsLess
  <2>10. QED BY <2>5, <2>9 DEF DueHeld
<1>5. ASSUME ~ApplyNext
      PROVE  Due' \subseteq Due \cup Shown(kv) /\ DueDurable'
  <2>1. Due' \subseteq Due \cup Shown(kv)
    BY <1>2, <1>5, StepDue
  <2>2. 1..durable \subseteq 1..durable'
    BY <1>1
  <2>3. QED BY <1>3, <2>1, <2>2 DEF DueDurable
<1>6. CASE ReplayNext
  <2>1. /\ task.next \in 1..Len(log) /\ task.next <= applied + 1 /\ Apply(task.next)
        /\ log' = log /\ pc = "replay"
    BY <1>2, <1>6, Replaying DEF logs
  <2>2. ~ApplyNext
    BY <2>1 DEF ApplyNext
  <2>3. CASE task.next <= applied
    <3>1. kv' = kv /\ applied' = applied
      BY <2>1, <2>3 DEF Apply, memory
    <3>2. Holds(log', Due', kv, applied)
      BY <1>3, <1>5, <2>2, HoldsLess
    <3>3. QED BY <1>5, <2>2, <3>1, <3>2 DEF DueHeld
  <2>4. CASE ~(task.next <= applied)
    <3>1. applied < task.next /\ task.next = applied + 1
      BY <1>1, <2>1, <2>4
    <3>2. Due \cup Shown(kv) \subseteq Nat
      BY <1>3
    <3>3. \A s \in Due \cup Shown(kv) : s <= applied \/ task.next <= s
      BY <1>1, <3>1, <3>2
    <3>4. Holds(log, (Due \cup Shown(kv)) \cup {task.next}, kv', applied')
      BY <1>1, <1>3, <2>1, <3>1, <3>2, <3>3, HoldsApply
    <3>5. Due' \subseteq (Due \cup Shown(kv)) \cup {task.next}
      BY <1>5, <2>2
    <3>6. Holds(log', Due', kv', applied')
      BY <2>1, <3>4, <3>5, HoldsLess
    <3>7. QED BY <1>5, <2>2, <3>6 DEF DueHeld
  <2>5. QED BY <2>3, <2>4
<1>7. CASE LoadSnapshot
  <2>1. /\ pc = "load" /\ log' = log /\ seen' = seen /\ acked' = acked /\ task' = task
    BY <1>7 DEF LoadSnapshot, logs, history
  <2>2. ~ApplyNext /\ Due' = Due /\ Primary \in Paths
    BY <2>1, NoTaskType DEF ApplyNext, Due, Owed, Finished, Shown
  <2>3. CASE files[Primary].kind = "ok"
    <3>1. kv' = files[Primary].values /\ applied' = files[Primary].applied
      BY <1>7, <2>3 DEF LoadSnapshot
    <3>2. Holds(log, Owed, files[Primary].values, files[Primary].applied)
      BY <1>2, <2>2 DEF Filed
    <3>3. Holds(log, Shown(seen) \cup Shown(kv), files[Primary].values, files[Primary].applied)
      BY <1>2 DEF Primaries, Succeeds
    <3>4. Holds(log, Shown(seen), files[Primary].values, files[Primary].applied)
      BY <3>3, HoldsLess
    <3>5. Holds(log, Due, files[Primary].values, files[Primary].applied)
      BY <3>2, <3>4, HoldsBoth DEF Due
    <3>6. QED BY <1>5, <2>1, <2>2, <3>1, <3>5 DEF DueHeld
  <2>4. CASE files[Primary].kind # "ok"
    <3>1. kv' = kv /\ applied' = applied
      BY <1>7, <2>4 DEF LoadSnapshot, memory
    <3>2. QED BY <1>2, <1>5, <2>1, <2>2, <3>1 DEF DueHeld
  <2>5. QED BY <2>3, <2>4
<1>8. CASE ~ApplyNext /\ ~ReplayNext /\ ~LoadSnapshot
  <2>1. Due' \subseteq Due \cup Shown(kv) /\ DueDurable'
    BY <1>5, <1>8
  <2>2. Holds(log', Due', kv, applied)
    BY <1>3, <2>1, HoldsLess
  <2>3. CASE UNCHANGED memory
    BY <2>1, <2>2, <2>3 DEF DueHeld, memory
  <2>4. CASE kv' = Empty /\ applied' = 0
    <3>1. Due' \subseteq Nat /\ \A s \in Due' : 0 < s
      BY <1>1, <1>3, <2>1
    <3>2. Holds(log', Due', Empty, 0)
      BY <3>1, HoldsBeyond
    <3>3. QED BY <2>1, <2>4, <3>2 DEF DueHeld
  <2>5. QED BY <1>8, <2>3, <2>4, StepMemory
<1>9. QED BY <1>4, <1>6, <1>7, <1>8

\* Behind any step but these, a store that serves did so before, with the same memory.
LEMMA StepServes ==
  ASSUME Reliable, Next, ~ApplyNext, ~ReplayReturns, up', ~Loading'
  PROVE  up /\ ~Loading /\ UNCHANGED memory
<1>1. CASE Around
  BY <1>1, AroundQuiet DEF control, Loading
<1>2. CASE Fails
  <2>1. ForceFails \/ AppendFails \/ BatchSyncFails \/ SnapshotFails
    BY <1>2 DEF Fails, ReloadFails, Reliable
  <2>2. up /\ ~Loading
    BY <2>1 DEF ForceFails, AppendFails, BatchSyncFails, SnapshotFails, Loading
  <2>3. QED BY <1>2, <2>2, FailsQuiet
<1>3. CASE (\E cmd \in Command : Update(cmd)) \/ (\E cmds \in Batches : SetBatch(cmds))
           \/ BatchAppend \/ Forced \/ BatchSync
  BY <1>3 DEF Update, SetBatch, BatchAppend, Forced, BatchSync, Idle, Loading
<1>4. CASE Rename \/ SyncDir \/ (\E p \in Paths : Snapshot(p)) \/ \E name \in Names : DeleteSnapshot(name)
  BY <1>4 DEF Rename, SyncDir, Snapshot, DeleteSnapshot, Idle, Loading
<1>5. CASE (\E n \in durable..Len(log) : Open(n)) \/ Reload \/ LoadSnapshot \/ Replay \/ ReplayNext
  <2>1. pc' \in {"load", "flush", "replay"}
    BY <1>5 DEF Open, Reload, LoadSnapshot, Replay, ReplayNext
  <2>2. QED BY <2>1 DEF Loading
<1>6. CASE ProcessCrash \/ PowerLoss
  <2>1. ~up'
    BY <1>6 DEF ProcessCrash, PowerLoss, L!Stop
  <2>2. QED BY <2>1
<1>7. QED BY <1>1, <1>2, <1>3, <1>4, <1>5, <1>6, NextSteps

LEMMA StepCaughtUp ==
  ASSUME Reliable, IInv, KInv, Next
  PROVE  CaughtUp'
<1>1. /\ LogGrows /\ TypeOK /\ applied \in Nat /\ durable \in Nat
      /\ DueDurable /\ DueHeld /\ CaughtUp /\ Spare /\ Fresh /\ Gapless
  BY StepGrows DEF KInv, IInv, TypeOK
<1>2. Due \cup Shown(kv) \subseteq 1..durable /\ Shown(kv) \subseteq 1..applied
  BY <1>1, BaseHeld
<1>3. CASE ApplyNext
  <2>1. PICK seq : seq = task.seqs[task.next]
    OBVIOUS
  <2>2. seq \in Nat /\ applied < seq /\ applied' = seq /\ up /\ pc = "apply"
    BY <1>1, <1>3, <2>1, Applying
  <2>3. Due' \subseteq Due \cup {seq}
    BY <1>3, <2>1, ApplyDue
  <2>4. \A s \in Due : s <= applied /\ s \in Nat
    BY <1>1, <1>2, <2>2 DEF CaughtUp, Loading
  <2>5. \A s \in Due' : s <= applied'
    BY <1>1, <2>2, <2>3, <2>4
  <2>6. QED BY <2>5 DEF CaughtUp
<1>4. CASE ReplayReturns
  <2>1. pc = "replay" /\ task.next > durable /\ applied' = applied
    BY <1>4 DEF ReplayReturns, memory
  <2>2. task.next \in Nat /\ task.next <= applied + 1 /\ ~ApplyNext
    BY <1>1, <2>1 DEF IInv, Steps, Gapless, ApplyNext
  <2>3. Due' \subseteq 1..durable
    BY <1>1, <1>2, <2>2, StepDue
  <2>4. \A s \in Due' : s <= applied'
    BY <1>1, <2>1, <2>2, <2>3
  <2>5. QED BY <2>4 DEF CaughtUp
<1>5. CASE ~ApplyNext /\ ~ReplayReturns
  <2>1. SUFFICES ASSUME up', ~Loading' PROVE \A s \in Due' : s <= applied'
    BY DEF CaughtUp
  <2>2. up /\ ~Loading /\ applied' = applied
    BY <1>5, <2>1, StepServes DEF memory
  <2>3. Due' \subseteq Due \cup Shown(kv)
    BY <1>1, <1>5, StepDue
  <2>4. \A s \in Due : s <= applied
    BY <1>1, <2>2 DEF CaughtUp
  <2>5. \A s \in Shown(kv) : s <= applied
    BY <1>1, <1>2
  <2>6. QED BY <2>2, <2>3, <2>4, <2>5
<1>6. QED BY <1>3, <1>4, <1>5

\* Every file that was there before, and none at all.
LEMMA FileOwed ==
  ASSUME IInv, DueDurable, Filed, LogGrows, NEW p \in Paths,
         NEW f \in {files[p], settled[p], NoFile, BadFile}
  PROVE  Holds(log', Owed, f.values, f.applied)
<1>1. TypeOK /\ files[p] \in SnapshotFile /\ settled[p] \in SnapshotFile
  BY DEF IInv, TypeOK
<1>2. Owed \subseteq 1..durable
  BY DEF DueDurable, Due
<1>3. ASSUME NEW g \in SnapshotFile, Backed(g.applied, g.values), Holds(log, Owed, g.values, g.applied)
      PROVE  Holds(log', Owed, g.values, g.applied)
  BY <1>1, <1>2, <1>3, HoldsGrows DEF SnapshotFile, Backed
<1>4. CASE f \in {files[p], settled[p]}
  BY <1>1, <1>3, <1>4 DEF IInv, AllBacked, Filed
<1>5. CASE f \in {NoFile, BadFile}
  <2>1. f.applied = 0
    BY <1>5 DEF NoFile, BadFile
  <2>2. Owed \subseteq Nat /\ \A s \in Owed : 0 < s
    BY <1>1, <1>2 DEF TypeOK
  <2>3. QED BY <2>1, <2>2, HoldsBeyond
<1>6. QED BY <1>4, <1>5

LEMMA StepFiled ==
  ASSUME IInv, KInv, Next
  PROVE  Filed'
<1>1. /\ LogGrows /\ TypeOK /\ files \in [Paths -> SnapshotFile] /\ settled \in [Paths -> SnapshotFile]
      /\ DueDurable /\ DueHeld /\ Filed /\ Copied /\ Spare /\ Fresh
  BY StepGrows DEF KInv, IInv, TypeOK
<1>2. CASE Rename
  <2>1. /\ files' = [files EXCEPT ![task.path] = task.body] /\ settled' = settled
        /\ log' = log /\ task.body = Body /\ ~ApplyNext
    BY <1>1, <1>2 DEF Rename, ApplyNext, logs, Copied
  <2>2. Owed' \subseteq Owed
    BY <1>1, <2>1, StepOwed
  <2>3. Holds(log, Owed, Body.values, Body.applied)
    BY <1>1 DEF DueHeld, Due, Body, Holds
  <2>4. \A p \in Paths : files'[p] = files[p] \/ files'[p] = Body
    BY <1>1, <2>1
  <2>5. ASSUME NEW p \in Paths
        PROVE  /\ Holds(log, Owed, files'[p].values, files'[p].applied)
               /\ Holds(log, Owed, settled'[p].values, settled'[p].applied)
    BY <1>1, <2>1, <2>3, <2>4, <2>5 DEF Filed
  <2>6. QED BY <2>1, <2>2, <2>5, HoldsLess DEF Filed
<1>3. CASE ApplyNext
  <2>1. PICK seq : seq = task.seqs[task.next]
    OBVIOUS
  <2>2. /\ seq \in Nat /\ log' = log /\ files' = files /\ settled' = settled
        /\ \A p \in Paths : files[p].applied < seq /\ settled[p].applied < seq
    BY <1>1, <1>3, <2>1, Applying DEF logs, dir
  <2>3. Owed' \subseteq Owed \cup {seq}
    BY <1>3, <2>1, ApplyOwed
  <2>4. ASSUME NEW f \in SnapshotFile, Holds(log, Owed, f.values, f.applied), f.applied < seq
        PROVE  Holds(log, Owed', f.values, f.applied)
    <3>1. Holds(log, {seq}, f.values, f.applied)
      BY <2>2, <2>4, HoldsBeyond DEF SnapshotFile
    <3>2. Holds(log, Owed \cup {seq}, f.values, f.applied)
      BY <2>4, <3>1, HoldsBoth
    <3>3. QED BY <2>3, <3>2, HoldsLess
  <2>5. QED BY <1>1, <2>2, <2>4 DEF Filed
<1>4. CASE ~Rename /\ ~ApplyNext
  <2>1. Owed' \subseteq Owed
    BY <1>1, <1>4, StepOwed
  <2>2. ASSUME NEW p \in Paths
        PROVE  /\ Holds(log', Owed, files'[p].values, files'[p].applied)
               /\ Holds(log', Owed, settled'[p].values, settled'[p].applied)
    <3>1. /\ files'[p] \in {files[p], settled[p], NoFile, BadFile}
          /\ settled'[p] \in {files[p], settled[p], NoFile, BadFile}
      BY <1>4, StepDir
    <3>2. QED BY <1>1, <3>1, FileOwed
  <2>3. QED BY <2>1, <2>2, HoldsLess DEF Filed
<1>5. QED BY <1>2, <1>3, <1>4

LEMMA FreshStays ==
  ASSUME Fresh, UNCHANGED <<applied, files, settled>>, task'.seqs = task.seqs, task'.next = task.next
  PROVE  Fresh'
BY DEF Fresh

LEMMA NothingFresh ==
  ASSUME task'.seqs = <<>>
  PROVE  Fresh'
BY DEF Fresh

LEMMA StepFresh ==
  ASSUME Reliable, IInv, KInv, Next, Spare'
  PROVE  Fresh'
<1>1. /\ TypeOK /\ task \in Task /\ task.seqs \in Seq(Nat) /\ applied \in Nat /\ durable \in Nat
      /\ Len(log) \in Nat /\ durable <= Len(log) /\ Fresh
      /\ files \in [Paths -> SnapshotFile] /\ settled \in [Paths -> SnapshotFile]
  BY DEF IInv, TypeOK, KInv, Task
<1>2. /\ applied <= Len(log)
      /\ \A p \in Paths : files[p].applied <= Len(log) /\ settled[p].applied <= Len(log)
      /\ \A p \in Paths : files[p].applied \in Nat /\ settled[p].applied \in Nat
  <2>1. \A p \in Paths : files[p].applied \in Nat /\ settled[p].applied \in Nat
    BY <1>1 DEF SnapshotFile
  <2>2. /\ applied <= durable
        /\ \A p \in Paths : files[p].applied <= durable /\ settled[p].applied <= durable
    BY DEF IInv, AllBacked, Backed
  <2>3. QED BY <1>1, <2>1, <2>2
<1>3. CASE Around
  <2>1. applied' = applied /\ task' = task
    BY <1>3, AroundQuiet DEF memory, control
  <2>2. files' = files /\ settled' = settled
    BY <1>3 DEF Around, Get, FlushBehind, Recover, Damage, Clean, Reliable, dir
  <2>3. QED BY <1>1, <2>1, <2>2, FreshStays
<1>4. CASE Forced \/ BatchSync
  BY <1>1, <1>4, FreshStays DEF Forced, BatchSync, memory, dir
<1>5. CASE \E cmd \in Command : Update(cmd)
  <2>1. PICK cmd \in Command : Update(cmd)
    BY <1>5
  <2>2. /\ task' = [NoTask EXCEPT !.op = "update", !.seqs = <<Len(log) + 1>>, !.next = 1]
        /\ UNCHANGED <<applied, files, settled>>
    BY <2>1 DEF Update, memory, dir
  <2>3. task'.seqs = <<Len(log) + 1>>
    BY <2>2 DEF NoTask
  <2>4. Len(task'.seqs) = 1 /\ task'.seqs[1] = Len(log) + 1
    BY <2>3
  <2>5. applied < Len(log) + 1 /\ \A p \in Paths : files[p].applied < Len(log) + 1 /\ settled[p].applied < Len(log) + 1
    BY <1>1, <1>2
  <2>6. QED BY <2>2, <2>4, <2>5 DEF Fresh
<1>6. CASE BatchAppend
  <2>1. /\ task'.seqs = Append(task.seqs, Len(log) + 1) /\ task'.next = task.next
        /\ UNCHANGED <<applied, files, settled>> /\ pc = "append"
    BY <1>1, <1>6 DEF BatchAppend, memory, dir, Task
  <2>2. \A i \in 1..Len(task.seqs) : task.seqs[i] \in 1..Len(log)
    BY <2>1 DEF IInv, Steps
  <2>3. /\ Len(task'.seqs) = Len(task.seqs) + 1 /\ Len(task.seqs) \in Nat
        /\ \A i \in 1..Len(task.seqs) : task'.seqs[i] = task.seqs[i]
        /\ task'.seqs[Len(task.seqs) + 1] = Len(log) + 1
    BY <1>1, <2>1
  <2>4. applied < Len(log) + 1 /\ \A p \in Paths : files[p].applied < Len(log) + 1 /\ settled[p].applied < Len(log) + 1
    BY <1>1, <1>2
  <2>5. ASSUME NEW i \in 1..Len(task'.seqs)
        PROVE  task'.next <= i => applied' < task'.seqs[i]
    <3>1. CASE i \in 1..Len(task.seqs)
      BY <1>1, <2>1, <2>3, <3>1 DEF Fresh
    <3>2. CASE i = Len(task.seqs) + 1
      BY <2>1, <2>3, <2>4, <3>2
    <3>3. QED BY <2>3, <3>1, <3>2
  <2>6. ASSUME NEW i \in 1..Len(task'.seqs), NEW p \in Paths
        PROVE  files'[p].applied < task'.seqs[i] /\ settled'[p].applied < task'.seqs[i]
    <3>1. CASE i \in 1..Len(task.seqs)
      BY <1>1, <2>1, <2>3, <3>1 DEF Fresh
    <3>2. CASE i = Len(task.seqs) + 1
      BY <2>1, <2>3, <2>4, <3>2
    <3>3. QED BY <2>3, <3>1, <3>2
  <2>7. ASSUME NEW i \in 1..Len(task'.seqs), NEW j \in 1..Len(task'.seqs), i < j
        PROVE  task'.seqs[i] < task'.seqs[j]
    <3>1. i \in 1..Len(task.seqs)
      BY <2>3, <2>7
    <3>2. CASE j \in 1..Len(task.seqs)
      BY <1>1, <2>3, <2>7, <3>1, <3>2 DEF Fresh
    <3>3. CASE j = Len(task.seqs) + 1
      <4>1. task'.seqs[j] = Len(log) + 1 /\ task'.seqs[i] = task.seqs[i]
        BY <2>3, <3>1, <3>3
      <4>2. task.seqs[i] \in Nat /\ task.seqs[i] <= Len(log)
        BY <2>2, <3>1
      <4>3. task.seqs[i] < Len(log) + 1
        BY <1>1, <4>2
      <4>4. QED BY <4>1, <4>3
    <3>4. QED BY <2>3, <3>2, <3>3
  <2>8. QED BY <2>5, <2>6, <2>7 DEF Fresh
<1>7. CASE ApplyNext
  <2>1. /\ applied' = task.seqs[task.next] /\ files' = files /\ settled' = settled
        /\ task.next \in 1..Len(task.seqs)
    <3>1. task.next \in 1..Len(task.seqs)
      BY <1>1, <1>7 DEF ApplyNext, IInv, Task, Steps
    <3>2. QED BY <1>1, <1>7, <3>1, Applying DEF dir
  <2>2. CASE task.next < Len(task.seqs)
    <3>1. task' = [task EXCEPT !.next = task.next + 1]
      BY <1>7, <2>2 DEF ApplyNext
    <3>2. task'.seqs = task.seqs /\ task'.next = task.next + 1
      BY <1>1, <3>1 DEF Task
    <3>3. ASSUME NEW i \in 1..Len(task'.seqs), task'.next <= i PROVE applied' < task'.seqs[i]
      <4>1. task.next < i /\ i \in 1..Len(task.seqs)
        BY <2>1, <3>2, <3>3
      <4>2. QED BY <1>1, <2>1, <3>2, <4>1 DEF Fresh
    <3>4. QED BY <1>1, <2>1, <3>2, <3>3 DEF Fresh
  <2>3. CASE ~(task.next < Len(task.seqs))
    BY <1>7, <2>3, IdleCall, NothingFresh DEF ApplyNext, Return
  <2>4. QED BY <2>2, <2>3
<1>8. ASSUME ~Updating' PROVE Fresh'
  BY <1>8, NothingFresh DEF Spare
<1>9. CASE Fails \/ ReplayReturns \/ SyncDir \/ ProcessCrash \/ PowerLoss
  <2>1. pc' = "idle"
    BY <1>9, FailsQuiet DEF ReplayReturns, SyncDir, ProcessCrash, PowerLoss, Dies, Return
  <2>2. QED BY <1>8, <2>1 DEF Updating
<1>10. CASE \E cmds \in Batches : SetBatch(cmds)
  <2>1. task'.seqs = <<>>
    BY <1>10, IdleCall DEF SetBatch, NoTask
  <2>2. QED BY <2>1, NothingFresh
<1>11. CASE (\E n \in durable..Len(log) : Open(n)) \/ Reload \/ LoadSnapshot \/ Replay \/ ReplayNext
           \/ (\E p \in Paths : Snapshot(p)) \/ Rename \/ \E name \in Names : DeleteSnapshot(name)
  <2>1. pc' \in {"load", "flush", "replay", "rename", "syncdir"}
    BY <1>11 DEF Open, Reload, LoadSnapshot, Replay, ReplayNext, Snapshot, Rename, DeleteSnapshot
  <2>2. QED BY <1>8, <2>1 DEF Updating
<1>12. QED BY <1>3, <1>4, <1>5, <1>6, <1>7, <1>9, <1>10, <1>11, NextSteps

\* The snapshots as the older of the two, or the newer one, in both places.
LEMMA SucceedsBoth ==
  ASSUME NEW D, NEW new, NEW old, old.values \in [Keys -> Nat], new.values \in [Keys -> Nat],
         old.applied \in Nat, new.applied \in Nat,
         Covered(log, new.applied, new.values), Covered(log, old.applied, old.values),
         Succeeds(log, D, new, old)
  PROVE  Succeeds(log, D, new, new) /\ Succeeds(log, D, old, old)
<1>1. Holds(log, D, old.values, old.applied)
  BY HoldsLess DEF Succeeds
<1>2. Holds(log, D \cup Shown(old.values), old.values, old.applied)
  BY <1>1, HoldsShown, HoldsBoth
<1>3. Holds(log, D \cup Shown(new.values), new.values, new.applied)
  BY HoldsShown, HoldsBoth DEF Succeeds
<1>4. old.applied <= old.applied /\ new.applied <= new.applied
  OBVIOUS
<1>5. QED BY <1>1, <1>2, <1>3, <1>4 DEF Succeeds

LEMMA SucceedsLess ==
  ASSUME NEW l, NEW D, NEW E, E \subseteq D, NEW new, NEW old, Succeeds(l, D, new, old)
  PROVE  Succeeds(l, E, new, old)
<1>1. E \cup Shown(new.values) \subseteq D \cup Shown(new.values)
  OBVIOUS
<1>2. QED BY <1>1, HoldsLess DEF Succeeds

\* A command behind both is held by both.
LEMMA SucceedsBeyond ==
  ASSUME NEW l, NEW D, NEW seq \in Nat, NEW new, NEW old, new.applied \in Nat, old.applied \in Nat,
         new.applied < seq, old.applied < seq, Succeeds(l, D, new, old)
  PROVE  Succeeds(l, D \cup {seq}, new, old)
<1>1. Holds(l, {seq}, new.values, new.applied) /\ Holds(l, {seq}, old.values, old.applied)
  BY HoldsBeyond
<1>2. Holds(l, D \cup {seq}, new.values, new.applied)
  BY <1>1, HoldsBoth DEF Succeeds
<1>3. Holds(l, (D \cup Shown(new.values)) \cup {seq}, old.values, old.applied)
  BY <1>1, HoldsBoth DEF Succeeds
<1>4. (D \cup {seq}) \cup Shown(new.values) \subseteq (D \cup Shown(new.values)) \cup {seq}
  OBVIOUS
<1>5. Holds(l, (D \cup {seq}) \cup Shown(new.values), old.values, old.applied)
  BY <1>3, <1>4, HoldsLess
<1>6. QED BY <1>2, <1>5 DEF Succeeds

LEMMA SucceedsGrows ==
  ASSUME TypeOK, LogGrows, NEW D, D \subseteq 1..durable, NEW new \in SnapshotFile,
         NEW old \in SnapshotFile, Backed(new.applied, new.values), Backed(old.applied, old.values),
         Succeeds(log, D, new, old)
  PROVE  Succeeds(log', D, new, old)
<1>1. /\ new.values \in [Keys -> Nat] /\ new.applied \in Nat /\ old.applied \in Nat
      /\ new.applied <= durable /\ old.applied <= durable /\ Covered(log, new.applied, new.values)
      /\ durable \in Nat
  BY DEF SnapshotFile, Backed, TypeOK
<1>2. Shown(new.values) \subseteq 1..new.applied
  BY <1>1, ShownType
<1>3. 1..new.applied \subseteq 1..durable
  BY <1>1
<1>4. D \cup Shown(new.values) \subseteq 1..durable
  BY <1>2, <1>3
<1>5. Holds(log', D, new.values, new.applied)
  BY <1>1, HoldsGrows DEF Succeeds
<1>6. Holds(log', D \cup Shown(new.values), old.values, old.applied)
  BY <1>1, <1>4, HoldsGrows DEF Succeeds
<1>7. QED BY <1>5, <1>6 DEF Succeeds

\* Unless a snapshot is put in its place, a primary snapshot goes back to the older one at most.
LEMMA StepPrimary ==
  ASSUME Reliable, IInv, Next, ~(Rename /\ task.path = Primary)
  PROVE  /\ files'[Primary] \in {files[Primary], settled[Primary]}
         /\ settled'[Primary] \in {files[Primary], settled[Primary]}
         /\ \/ files'[Primary] = files[Primary]
            \/ files'[Primary] = settled[Primary] /\ settled'[Primary] = settled[Primary]
<1>1. /\ files \in [Paths -> SnapshotFile] /\ settled \in [Paths -> SnapshotFile] /\ Primary \in Paths
      /\ task.path \in Paths
  BY NoTaskType DEF IInv, TypeOK, Task
<1>2. CASE UNCHANGED dir
  BY <1>2 DEF dir
<1>3. CASE SyncDir
  BY <1>1, <1>3 DEF SyncDir
<1>4. CASE Rename
  BY <1>1, <1>4 DEF Rename
<1>5. CASE \E name \in Names : DeleteSnapshot(name)
  <2>1. PICK name \in Names : DeleteSnapshot(name)
    BY <1>5
  <2>2. name # Primary
    BY <2>1, StoreAssumption
  <2>3. QED BY <1>1, <2>1, <2>2 DEF DeleteSnapshot
<1>6. CASE PowerLoss
  BY <1>1, <1>6 DEF PowerLoss
<1>7. CASE Around
  BY <1>2, <1>7 DEF Around, Get, FlushBehind, Recover, Damage, Clean, Reliable
<1>8. CASE Fails
  BY <1>2, <1>8, FailsQuiet
<1>9. CASE (\E cmd \in Command : Update(cmd)) \/ (\E cmds \in Batches : SetBatch(cmds))
           \/ BatchAppend \/ Forced \/ BatchSync \/ ApplyNext
           \/ (\E n \in durable..Len(log) : Open(n)) \/ Reload \/ LoadSnapshot
  BY <1>2, <1>9 DEF Update, SetBatch, BatchAppend, Forced, BatchSync, ApplyNext, Open, Reload,
       LoadSnapshot
<1>10. CASE Replay \/ ReplayNext \/ ReplayReturns \/ (\E p \in Paths : Snapshot(p)) \/ ProcessCrash
  BY <1>2, <1>10 DEF Replay, ReplayNext, ReplayReturns, Snapshot, ProcessCrash
<1>11. QED
  BY <1>3, <1>4, <1>5, <1>6, <1>7, <1>8, <1>9, <1>10, NextSteps

\* What a map shows after one more command.
LEMMA ApplyShows ==
  ASSUME TypeOK, NEW seq \in 1..Len(log), Apply(seq), applied < seq
  PROVE  Shown(kv)' \subseteq Shown(kv) \cup {seq}
<1>1. /\ kv' = [kv EXCEPT ![log[seq].key] = IF log[seq].op = "set" THEN seq ELSE 0]
      /\ kv \in [Keys -> Nat]
  BY DEF Apply, TypeOK
<1>2. \A k \in Keys : kv'[k] \in {kv[k], seq, 0}
  BY <1>1
<1>3. QED BY <1>2 DEF Shown

\* Both snapshots, whatever memory makes of the log.
LEMMA ShownHeld ==
  ASSUME IInv, KInv, Next, UNCHANGED <<log, files, settled>>,
         NEW seq \in 1..Len(log), Apply(seq), applied < seq,
         files[Primary].applied < seq, settled[Primary].applied < seq, seen' = seen
  PROVE  Succeeds(log, Shown(seen) \cup Shown(kv), files[Primary], settled[Primary])'
<1>1. /\ TypeOK /\ Succeeds(log, Shown(seen) \cup Shown(kv), files[Primary], settled[Primary])
      /\ seq \in Nat /\ files[Primary].applied \in Nat /\ settled[Primary].applied \in Nat
  BY NoTaskType DEF KInv, Primaries, IInv, TypeOK, SnapshotFile
<1>2. Succeeds(log, (Shown(seen) \cup Shown(kv)) \cup {seq}, files[Primary], settled[Primary])
  BY <1>1, SucceedsBeyond
<1>3. Shown(seen)' = Shown(seen)
  BY DEF Shown
<1>4. Shown(seen)' \cup Shown(kv)' \subseteq (Shown(seen) \cup Shown(kv)) \cup {seq}
  BY <1>1, <1>3, ApplyShows
<1>5. Succeeds(log, Shown(seen)' \cup Shown(kv)', files[Primary], settled[Primary])
  BY <1>2, <1>4, SucceedsLess
<1>6. QED BY <1>5

LEMMA StepSucceeds ==
  ASSUME Reliable, IInv, KInv, Next
  PROVE  Succeeds(log, Shown(seen) \cup Shown(kv), files[Primary], settled[Primary])'
<1> DEFINE D == Shown(seen) \cup Shown(kv)
           E == Shown(seen)' \cup Shown(kv)'
           new == files[Primary]
           old == settled[Primary]
<1>1. /\ LogGrows /\ TypeOK /\ Primary \in Paths /\ applied \in Nat
      /\ DueDurable /\ DueHeld /\ Primaries /\ Copied /\ Fresh /\ Gapless
      /\ new \in SnapshotFile /\ old \in SnapshotFile
      /\ Backed(new.applied, new.values) /\ Backed(old.applied, old.values)
  BY StepGrows, NoTaskType DEF KInv, IInv, TypeOK, AllBacked
<1>2. /\ new.values \in [Keys -> Nat] /\ new.applied \in Nat
      /\ old.values \in [Keys -> Nat] /\ old.applied \in Nat
      /\ Covered(log, new.applied, new.values) /\ Covered(log, old.applied, old.values)
  BY <1>1 DEF SnapshotFile, Backed
<1>3. Succeeds(log, D, new, old) /\ (up /\ pc # "load" => new.applied <= applied)
  BY <1>1 DEF Primaries
<1>4. D \subseteq 1..durable /\ Holds(log, D, kv, applied)
  <2>1. /\ Due \cup Shown(kv) \subseteq 1..durable
        /\ Holds(log, Due \cup Shown(kv), kv, applied)
    BY <1>1, BaseHeld
  <2>2. D \subseteq Due \cup Shown(kv)
    BY DEF Due
  <2>3. QED BY <2>1, <2>2, HoldsLess
<1>5. CASE ApplyNext
  <2>1. PICK seq : seq = task.seqs[task.next]
    OBVIOUS
  <2>2. /\ seq \in 1..Len(log) /\ applied < seq /\ Apply(seq) /\ UNCHANGED <<logs, dir>>
        /\ new.applied < seq /\ old.applied < seq
    BY <1>1, <1>5, <2>1, Applying
  <2>3. seen' = seen /\ UNCHANGED <<log, files, settled>>
    BY <1>5, <2>2 DEF ApplyNext, logs, dir
  <2>4. QED BY <2>2, <2>3, ShownHeld
<1>6. CASE ReplayNext
  <2>1. /\ task.next \in 1..Len(log) /\ Apply(task.next) /\ up /\ pc = "replay"
        /\ UNCHANGED <<log, files, settled, seen>>
    BY <1>1, <1>6, Replaying DEF logs, dir, history
  <2>2. CASE task.next <= applied
    <3>1. kv' = kv
      BY <2>1, <2>2 DEF Apply, memory
    <3>2. QED BY <1>3, <2>1, <3>1 DEF Shown
  <2>3. CASE ~(task.next <= applied)
    <3>1. applied < task.next
      BY <1>1, <2>1, <2>3
    <3>2. new.applied < task.next /\ old.applied < task.next
      <4>1. new.applied <= applied /\ old.applied <= new.applied
        BY <1>3, <2>1 DEF Succeeds
      <4>2. task.next \in Nat
        BY <2>1
      <4>3. QED BY <1>1, <1>2, <3>1, <4>1, <4>2
    <3>3. QED BY <2>1, <3>1, <3>2, ShownHeld
  <2>4. QED BY <2>2, <2>3
<1>7. CASE LoadSnapshot
  <2>1. UNCHANGED <<log, files, settled, seen>> /\ pc = "load"
    BY <1>7 DEF LoadSnapshot, logs, dir, history
  <2>2. CASE new.kind = "ok"
    <3>1. kv' = new.values
      BY <1>7, <2>2 DEF LoadSnapshot
    <3>2. Shown(kv)' = Shown(new.values) /\ Shown(seen)' = Shown(seen)
      BY <2>1, <3>1 DEF Shown
    <3>3. Holds(log, D \cup Shown(new.values), new.values, new.applied)
      BY <1>2, <1>3, HoldsShown, HoldsBoth DEF Succeeds
    <3>4. E \subseteq D \cup Shown(new.values) /\ E \cup Shown(new.values) \subseteq D \cup Shown(new.values)
      BY <3>2
    <3>5. Holds(log, E, new.values, new.applied)
      BY <3>3, <3>4, HoldsLess
    <3>6. Holds(log, E \cup Shown(new.values), old.values, old.applied)
      BY <1>3, <3>4, HoldsLess DEF Succeeds
    <3>7. Succeeds(log, E, new, old)
      BY <1>3, <3>5, <3>6 DEF Succeeds
    <3>8. QED BY <2>1, <3>7
  <2>3. CASE new.kind # "ok"
    <3>1. kv' = kv
      BY <1>7, <2>3 DEF LoadSnapshot, memory
    <3>2. QED BY <1>3, <2>1, <3>1 DEF Shown
  <2>4. QED BY <2>2, <2>3
<1>8. CASE ~ApplyNext /\ ~ReplayNext /\ ~LoadSnapshot
  <2>1. E \subseteq D
    <3>1. Shown(kv)' \subseteq Shown(kv)
      <4>1. CASE UNCHANGED memory
        BY <4>1 DEF memory, Shown
      <4>2. CASE kv' = Empty
        BY <4>2 DEF Shown, Empty
      <4>3. QED BY <1>8, <4>1, <4>2, StepMemory
    <3>2. QED BY <3>1, StepSeen
  <2>2. CASE Rename /\ task.path = Primary
    <3>1. /\ files'[Primary] = Body /\ settled' = settled /\ log' = log
      BY <1>1, <2>2 DEF Rename, logs, Copied, TypeOK
    <3>2. Body.kind = "ok" /\ Body.values = kv /\ Body.applied = applied
      BY DEF Body
    <3>3. up /\ pc = "rename"
      BY <2>2 DEF Rename
    <3>4. old.applied <= applied
      BY <1>1, <1>2, <1>3, <3>3 DEF Succeeds
    <3>5. D \cup Shown(kv) = D
      OBVIOUS
    <3>6. Holds(log, D \cup Shown(kv), old.values, old.applied)
      BY <1>3, <3>5, HoldsLess DEF Succeeds
    <3>7. Succeeds(log, D, Body, old)
      BY <1>3, <1>4, <3>2, <3>4, <3>6 DEF Succeeds
    <3>8. Succeeds(log, E, Body, old)
      BY <2>1, <3>7, SucceedsLess
    <3>9. QED BY <3>1, <3>8
  <2>3. CASE ~(Rename /\ task.path = Primary)
    <3>1. \/ files'[Primary] = new /\ settled'[Primary] = old
          \/ files'[Primary] = new /\ settled'[Primary] = new
          \/ files'[Primary] = old /\ settled'[Primary] = old
      BY <1>1, <2>3, StepPrimary
    <3>2. Succeeds(log, D, new, new) /\ Succeeds(log, D, old, old)
      BY <1>2, <1>3, SucceedsBoth
    <3>3. /\ Succeeds(log', D, new, old) /\ Succeeds(log', D, new, new) /\ Succeeds(log', D, old, old)
      BY <1>1, <1>3, <1>4, <3>2, SucceedsGrows
    <3>4. Succeeds(log', D, files'[Primary], settled'[Primary])
      BY <3>1, <3>3
    <3>5. Succeeds(log', E, files'[Primary], settled'[Primary])
      BY <2>1, <3>4, SucceedsLess
    <3>6. QED BY <3>5
  <2>4. QED BY <2>2, <2>3
<1>9. QED BY <1>5, <1>6, <1>7, <1>8

\* Memory stays ahead of the primary snapshot.
LEMMA StepAhead ==
  ASSUME Reliable, IInv, KInv, Next, up', pc' # "load"
  PROVE  files'[Primary].applied <= applied'
<1>1. /\ TypeOK /\ Primary \in Paths /\ applied \in Nat /\ Primaries /\ Copied /\ Fresh /\ Gapless
      /\ files \in [Paths -> SnapshotFile] /\ files[Primary].applied \in Nat
  BY NoTaskType DEF KInv, IInv, TypeOK, SnapshotFile
<1>2. ASSUME up, pc # "load", files'[Primary] = files[Primary], applied' = applied
      PROVE  files'[Primary].applied <= applied'
  BY <1>1, <1>2 DEF Primaries
<1>3. CASE ApplyNext
  <2>1. PICK seq : seq = task.seqs[task.next]
    OBVIOUS
  <2>2. applied' = seq /\ files' = files /\ files[Primary].applied < seq /\ seq \in Nat
    BY <1>1, <1>3, <2>1, Applying DEF dir
  <2>3. QED BY <1>1, <2>2
<1>4. CASE ReplayNext
  <2>1. /\ up /\ pc = "replay" /\ files' = files /\ Apply(task.next) /\ task.next \in 1..Len(log)
    BY <1>1, <1>4, Replaying DEF dir
  <2>2. applied' = applied \/ (applied' = task.next /\ ~(task.next <= applied))
    BY <2>1 DEF Apply, memory
  <2>3. files[Primary].applied <= applied
    BY <1>1, <2>1 DEF Primaries
  <2>4. QED BY <1>1, <2>1, <2>2, <2>3
<1>5. CASE LoadSnapshot
  <2>1. files' = files
    BY <1>5 DEF LoadSnapshot, dir
  <2>2. CASE files[Primary].kind = "ok"
    <3>1. applied' = files[Primary].applied
      BY <1>5, <2>2 DEF LoadSnapshot
    <3>2. QED BY <1>1, <2>1, <3>1
  <2>3. CASE files[Primary].kind # "ok"
    <3>1. applied' = applied /\ files[Primary].applied = 0
      BY <1>1, <1>5, <2>3 DEF LoadSnapshot, memory, Primaries, Succeeds
    <3>2. QED BY <1>1, <2>1, <3>1
  <2>4. QED BY <2>2, <2>3
<1>6. CASE Rename
  <2>1. /\ up /\ pc = "rename" /\ files' = [files EXCEPT ![task.path] = Body] /\ applied' = applied
    BY <1>1, <1>6 DEF Rename, memory, Copied
  <2>2. CASE task.path = Primary
    <3>1. files'[Primary].applied = applied
      BY <1>1, <2>1, <2>2 DEF Body
    <3>2. QED BY <1>1, <2>1, <3>1
  <2>3. CASE task.path # Primary
    BY <1>1, <1>2, <2>1, <2>3
  <2>4. QED BY <2>2, <2>3
<1>7. CASE (\E n \in durable..Len(log) : Open(n)) \/ Reload \/ ProcessCrash \/ PowerLoss
  <2>1. pc' = "load" \/ ~up'
    BY <1>7 DEF Open, Reload, ProcessCrash, PowerLoss, L!Stop
  <2>2. QED BY <2>1
<1>8. CASE Around
  <2>1. applied' = applied /\ pc' = pc /\ up' = up
    BY <1>8, AroundQuiet DEF memory, control
  <2>2. files' = files
    BY <1>8 DEF Around, Get, FlushBehind, Recover, Damage, Clean, Reliable, dir
  <2>3. QED BY <1>2, <2>1, <2>2
<1>9. CASE Fails
  <2>1. ForceFails \/ AppendFails \/ BatchSyncFails \/ SnapshotFails
    BY <1>9 DEF Fails, ReloadFails, Reliable
  <2>2. up /\ pc # "load"
    BY <2>1 DEF ForceFails, AppendFails, BatchSyncFails, SnapshotFails
  <2>3. QED BY <1>2, <1>9, <2>2, FailsQuiet DEF memory, dir
<1>10. CASE (\E cmd \in Command : Update(cmd)) \/ (\E cmds \in Batches : SetBatch(cmds))
            \/ BatchAppend \/ Forced \/ BatchSync
  <2>1. up /\ pc # "load" /\ UNCHANGED <<memory, dir>>
    BY <1>10 DEF Update, SetBatch, BatchAppend, Forced, BatchSync, Idle
  <2>2. QED BY <1>2, <2>1 DEF memory, dir
<1>11. CASE Replay \/ ReplayReturns \/ \E p \in Paths : Snapshot(p)
  <2>1. up /\ pc # "load" /\ UNCHANGED <<memory, dir>>
    BY <1>11 DEF Replay, ReplayReturns, Snapshot, Idle
  <2>2. QED BY <1>2, <2>1 DEF memory, dir
<1>12. CASE SyncDir
  <2>1. up /\ pc # "load" /\ UNCHANGED memory /\ files' = files
    BY <1>12 DEF SyncDir
  <2>2. QED BY <1>2, <2>1 DEF memory
<1>13. CASE \E name \in Names : DeleteSnapshot(name)
  <2>1. PICK name \in Names : DeleteSnapshot(name)
    BY <1>13
  <2>2. name # Primary
    BY <2>1, StoreAssumption
  <2>3. up /\ pc # "load" /\ UNCHANGED memory /\ files'[Primary] = files[Primary]
    BY <1>1, <2>1, <2>2 DEF DeleteSnapshot, Idle
  <2>4. QED BY <1>2, <2>3 DEF memory
<1>14. QED
  BY <1>3, <1>4, <1>5, <1>6, <1>7, <1>8, <1>9, <1>10, <1>11, <1>12, <1>13, NextSteps

\* Only New and Reload load.
LEMMA StepLoads ==
  ASSUME IInv, Loads, Next
  PROVE  Loads'
<1>1. task \in Task
  BY DEF IInv, TypeOK
<1>2. ASSUME ~Loading' PROVE Loads'
  BY <1>2 DEF Loads
<1>3. CASE Around
  BY <1>3, AroundQuiet DEF control, Loads, Loading
<1>4. CASE Fails \/ ReplayReturns \/ SyncDir \/ ProcessCrash \/ PowerLoss
  <2>1. pc' = "idle"
    BY <1>4, FailsQuiet DEF ReplayReturns, SyncDir, ProcessCrash, PowerLoss, Dies, Return
  <2>2. QED BY <1>2, <2>1 DEF Loading
<1>5. CASE (\E n \in durable..Len(log) : Open(n)) \/ Reload
  <2>1. task'.op \in {"new", "reload"}
    <3>1. CASE \E n \in durable..Len(log) : Open(n)
      BY <3>1 DEF Open, NoTask
    <3>2. CASE Reload
      BY <3>2 DEF Reload, NoTask
    <3>3. QED BY <1>5, <3>1, <3>2
  <2>2. QED BY <2>1 DEF Loads
<1>6. CASE LoadSnapshot \/ Replay \/ ReplayNext
  <2>1. pc \in {"load", "flush", "replay"} /\ task'.op = task.op
    BY <1>1, <1>6 DEF LoadSnapshot, Replay, ReplayNext, Task
  <2>2. QED BY <2>1 DEF Loads, Loading
<1>7. CASE (\E cmd \in Command : Update(cmd)) \/ (\E cmds \in Batches : SetBatch(cmds))
           \/ BatchAppend \/ Forced \/ BatchSync \/ ApplyNext
  <2>1. pc' \in {"append", "force", "apply", "idle"}
    <3>1. CASE (\E cmd \in Command : Update(cmd)) \/ \E cmds \in Batches : SetBatch(cmds)
      BY <3>1 DEF Update, SetBatch
    <3>2. CASE BatchAppend \/ Forced \/ BatchSync \/ ApplyNext
      BY <3>2 DEF BatchAppend, Forced, BatchSync, ApplyNext, Return
    <3>3. QED BY <1>7, <3>1, <3>2
  <2>2. QED BY <1>2, <2>1 DEF Loading
<1>8. CASE (\E p \in Paths : Snapshot(p)) \/ Rename \/ \E name \in Names : DeleteSnapshot(name)
  <2>1. pc' \in {"rename", "syncdir"}
    BY <1>8 DEF Snapshot, Rename, DeleteSnapshot
  <2>2. QED BY <1>2, <2>1 DEF Loading
<1>9. QED
  BY <1>3, <1>4, <1>5, <1>6, <1>7, <1>8, NextSteps

LEMMA InitDue ==
  ASSUME Init
  PROVE  KInv
<1>1. /\ ~up /\ pc = "idle" /\ kv = Empty /\ applied = 0 /\ task.seqs = <<>> /\ durable = 0
      /\ acked = {} /\ seen = Empty /\ \A p \in Paths : files[p] = NoFile /\ settled[p] = NoFile
  BY StartsEmpty
<1>2. Owed = {} /\ Due = {} /\ Shown(kv) = {} /\ Shown(seen) = {}
  BY <1>1, NothingShown DEF Owed, Due, Finished
<1>3. \A values : Holds(log, {}, values, 0)
  BY HoldsBeyond
<1>4. DueDurable /\ DueHeld /\ CaughtUp
  BY <1>1, <1>2, <1>3 DEF DueDurable, DueHeld, CaughtUp
<1>5. NoFile.applied = 0 /\ NoFile.values = Empty /\ Primary \in Paths
  BY NoTaskType DEF NoFile
<1>6. Filed
  BY <1>1, <1>2, <1>3, <1>5 DEF Filed
<1>7. Succeeds(log, {}, NoFile, NoFile)
  BY <1>3, <1>5, NothingShown DEF Succeeds
<1>8. Primaries
  BY <1>1, <1>2, <1>5, <1>7 DEF Primaries
<1>9. Copied /\ Spare /\ Fresh /\ Gapless /\ Loads
  BY <1>1 DEF Copied, Spare, Fresh, Gapless, Loads, Loading
<1>10. QED BY <1>4, <1>6, <1>8, <1>9 DEF KInv

LEMMA StepDueKept ==
  ASSUME Reliable, IInv, Reaches, KInv, [Next]_vars
  PROVE  KInv'
<1>1. CASE UNCHANGED vars
  <2>1. UNCHANGED <<log, durable, up, kv, applied, files, settled, task, pc, acked, seen>>
    BY <1>1 DEF vars, logs, memory, dir, control, history
  <2>2. Owed' = Owed /\ Due' = Due /\ Shown(kv)' = Shown(kv) /\ Shown(seen)' = Shown(seen)
    BY <2>1 DEF Owed, Due, Finished, Shown
  <2>3. DueDurable' /\ DueHeld' /\ CaughtUp'
    BY <2>1, <2>2 DEF KInv, DueDurable, DueHeld, CaughtUp, Loading
  <2>4. Filed'
    BY <2>1, <2>2 DEF KInv, Filed
  <2>5. Primaries'
    BY <2>1, <2>2 DEF KInv, Primaries
  <2>6. Copied' /\ Spare' /\ Fresh' /\ Gapless' /\ Loads'
    BY <2>1 DEF KInv, Copied, Body, Spare, Updating, Fresh, Gapless, Loads, Loading
  <2>7. QED BY <2>3, <2>4, <2>5, <2>6 DEF KInv
<1>2. CASE Next
  <2>1. Copied' /\ Spare' /\ Gapless' /\ Loads'
    BY <1>2, StepCopied, StepGapless, StepLoads DEF KInv
  <2>2. DueDurable' /\ DueHeld' /\ CaughtUp' /\ Filed' /\ Fresh'
    BY <1>2, <2>1, StepDueHeld, StepCaughtUp, StepFiled, StepFresh
  <2>3. Primaries'
    BY <1>2, StepSucceeds, StepAhead DEF Primaries
  <2>4. QED BY <2>1, <2>2, <2>3 DEF KInv
<1>3. QED BY <1>1, <1>2

LEMMA DueKept ==
  ASSUME Reliable
  PROVE  Spec => [](IInv /\ KInv)
<1>1. Init => KInv
  BY InitDue
<1>2. IInv /\ Reaches /\ KInv /\ [Next]_vars => KInv'
  BY StepDueKept
<1>3. Reliable \/ ~Cleaning
  OBVIOUS
<1>4. QED BY <1>1, <1>2, <1>3, ReachesHolds, PTL DEF Spec

\* Memory, whenever it is not being rebuilt, reflects all that is due.
LEMMA DueReflected ==
  ASSUME KInv, Rebuilt, NEW s \in Due
  PROVE  Reflects(kv, applied, s)
<1>1. up /\ ~Loading
  BY DEF KInv, Loads, Rebuilt, Serving
<1>2. s <= applied
  BY <1>1 DEF KInv, CaughtUp
<1>3. QED BY <1>2 DEF KInv, DueHeld, Holds, Reflects

\* While no reload fails and nothing damages the snapshot, an update that was reported successful
\* is never lost and never undone by an older one: through crashes, failing updates and snapshots,
\* a lost rename, cleaning and reloads (store.go, snapshot.go).
THEOREM AlwaysAckedKept ==
  ASSUME Reliable
  PROVE  Spec => []AckedKept
<1>1. KInv => AckedKept
  BY DueReflected DEF AckedKept, Due, Owed
<1>2. QED BY <1>1, DueKept, PTL

\* Under the same assumptions a value that a Get returned is never taken back, not even the
\* effect of an update that was reported failed (Store.Get).
THEOREM AlwaysSeenKept ==
  ASSUME Reliable
  PROVE  Spec => []SeenKept
<1>1. KInv => SeenKept
  <2>1. SUFFICES ASSUME KInv, Rebuilt, NEW k \in Keys, seen[k] > 0
                 PROVE  Reflects(kv, applied, seen[k])
    BY DEF SeenKept
  <2>2. seen[k] # 0
    BY <2>1
  <2>3. seen[k] \in Due
    BY <2>2 DEF Due, Shown
  <2>4. QED BY <2>1, <2>3, DueReflected
<1>2. QED BY <1>1, DueKept, PTL

\* Under the same assumptions every snapshot file, as the process sees it and as a loss of power
\* may leave it, holds the successful updates up to its watermark and nothing that is not durable.
THEOREM AlwaysSnapshotsExact ==
  ASSUME Reliable
  PROVE  Spec => []SnapshotsExact
<1>1. IInv /\ KInv => SnapshotsExact
  <2>1. SUFFICES ASSUME IInv, KInv, NEW p \in Paths, NEW f \in {files[p], settled[p]}
                 PROVE  /\ f.applied <= durable /\ Sourced(f.values, f.applied)
                        /\ \A s \in acked : s <= f.applied => Reflects(f.values, f.applied, s)
    BY DEF SnapshotsExact
  <2>2. f.applied <= durable /\ Sourced(f.values, f.applied)
    BY <2>1 DEF IInv, AllBacked, Backed, Covered, Sourced
  <2>3. Holds(log, Owed, f.values, f.applied)
    BY <2>1 DEF KInv, Filed
  <2>4. \A s \in acked : s <= f.applied => Reflects(f.values, f.applied, s)
    BY <2>3 DEF Holds, Owed, Reflects
  <2>5. QED BY <2>2, <2>4
<1>2. QED BY <1>1, DueKept, PTL

-------------------------------------------------------------------------------
(* The store is a durable map.                                              *)

\* Reflected and Told of a given log.
Reflecting(l, values, upTo) == {s \in 1..upTo : Holds(l, {s}, values, upTo)}
Knowing(l, updates, gets)   == updates \cup {s \in 1..Len(l) : s <= gets[l[s].key]}

\* What a Get returned was written by a set of its key.
SeenSourced == Covered(log, durable, seen)

\* New and Reload only load.
OnlyLoads == task.op \in {"new", "reload"} => Loading

Mapped == SeenSourced /\ OnlyLoads

LEMMA ReflectedIs ==
  /\ Reflected = Reflecting(log, kv, applied)
  /\ Reflected' = Reflecting(log', kv', applied')
  /\ Told = Knowing(log, acked, seen)
  /\ Told' = Knowing(log', acked', seen')
<1>1. \A s \in 1..applied : Reflects(kv, applied, s) <=> Holds(log, {s}, kv, applied)
  BY DEF Reflects, Holds
<1>2. \A s \in 1..applied' : Reflects(kv, applied, s)' <=> Holds(log', {s}, kv', applied')
  BY DEF Reflects, Holds
<1>3. Reflected = Reflecting(log, kv, applied)
  BY <1>1 DEF Reflected, Reflecting
<1>4. Reflected' = Reflecting(log', kv', applied')
  BY <1>2 DEF Reflected, Reflecting
<1>5. QED BY <1>3, <1>4 DEF Told, Knowing

\* A map is what a replay of the commands that it reflects makes.
LEMMA MapReplayed ==
  ASSUME NEW l \in Seq(Command), NEW values \in [Keys -> Nat], NEW upTo \in Nat, upTo <= Len(l),
         Covered(l, upTo, values)
  PROVE  values = Map!Replayed(l, Reflecting(l, values, upTo))
<1> DEFINE D == Reflecting(l, values, upTo)
<1>1. D \subseteq 1..Len(l) /\ D \subseteq 1..upTo
  BY DEF Reflecting
<1>2. \A s \in 1..Len(l) : l[s] \in Command
  OBVIOUS
<1>3. \A s \in D : \/ values[l[s].key] >= s
                   \/ values[l[s].key] = 0 /\ \E d \in s..upTo : l[d].op = "delete" /\ l[d].key = l[s].key
  BY DEF Reflecting, Holds
<1>4. \A s \in 1..upTo :
        \/ values[l[s].key] >= s
        \/ values[l[s].key] = 0 /\ \E d \in s..upTo : l[d].op = "delete" /\ l[d].key = l[s].key
        => s \in D
  BY DEF Reflecting, Holds
<1> HIDE DEF D
<1>5. ASSUME NEW k \in Keys, values[k] > 0
      PROVE  /\ \E s \in D : Map!Gives(l, D, k, s)
             /\ (CHOOSE s \in D : Map!Gives(l, D, k, s)) = values[k]
  <2>1. values[k] \in 1..upTo /\ l[values[k]] = SetOf(k)
    BY <1>5 DEF Covered
  <2>2. l[values[k]] = [op |-> "set", key |-> k] /\ l[values[k]].key = k
    BY <2>1 DEF SetOf
  <2>3. values[k] \in D
    <3>1. values[k] >= values[k]
      BY <2>1
    <3>2. QED BY <1>4, <2>1, <2>2, <3>1
  <2>4. \A t \in D : l[t].key = k => t <= values[k]
    <3>1. SUFFICES ASSUME NEW t \in D, l[t].key = k PROVE t <= values[k]
      OBVIOUS
    <3>2. t \in Nat /\ values[k] \in Nat
      BY <1>1, <2>1
    <3>3. values[k] >= t
      BY <1>3, <1>5, <3>1, <3>2
    <3>4. QED BY <3>2, <3>3
  <2>5. Map!Gives(l, D, k, values[k])
    BY <2>2, <2>3, <2>4 DEF Map!Gives
  <2>6. ASSUME NEW s \in D, Map!Gives(l, D, k, s) PROVE s = values[k]
    <3>1. l[s].key = k /\ values[k] <= s
      BY <2>2, <2>3, <2>6 DEF Map!Gives
    <3>2. s \in Nat /\ values[k] \in Nat /\ s <= values[k]
      BY <1>1, <2>1, <2>4, <3>1
    <3>3. QED BY <3>1, <3>2
  <2>7. QED BY <2>3, <2>5, <2>6
<1>6. ASSUME NEW k \in Keys, ~(values[k] > 0)
      PROVE  values[k] = 0 /\ \A s \in D : ~Map!Gives(l, D, k, s)
  <2>1. values[k] = 0
    BY <1>6
  <2>2. SUFFICES ASSUME NEW s \in D, Map!Gives(l, D, k, s) PROVE FALSE
    BY <2>1
  <2>3. l[s].key = k /\ l[s].op = "set" /\ s \in 1..upTo /\ \A t \in D : l[t].key = k => t <= s
    BY <1>1, <2>2 DEF Map!Gives
  <2>4. PICK d \in s..upTo : l[d].op = "delete" /\ l[d].key = k
    BY <1>3, <2>1, <2>3
  <2>5. d \in 1..upTo /\ d \in d..upTo
    BY <2>3
  <2>6. d \in D
    BY <1>4, <2>1, <2>4, <2>5
  <2>7. d = s
    BY <2>3, <2>4, <2>5, <2>6
  <2>8. QED BY <2>3, <2>4, <2>7
<1>7. Map!Replayed(l, D) =
        [k \in Keys |-> IF \E s \in D : Map!Gives(l, D, k, s)
                        THEN CHOOSE s \in D : Map!Gives(l, D, k, s) ELSE 0]
  BY DEF Map!Replayed
<1>8. \A k \in Keys : Map!Replayed(l, D)[k] = values[k]
  BY <1>5, <1>6, <1>7
<1>9. values = Map!Replayed(l, D)
  BY <1>7, <1>8
<1>10. QED BY <1>9 DEF D

\* A step leaves the map alone.
LEMMA MapStays ==
  ASSUME UNCHANGED <<log, kv, applied, acked, seen>>, State' = State
  PROVE  UNCHANGED Map!vars
<1>1. Reflected' = Reflected /\ Told' = Told
  BY ReflectedIs
<1>2. QED BY <1>1 DEF Map!vars

\* Whether the map is there, by the call under way.
LEMMA StateIs ==
  /\ ~up => State = "down"
  /\ up /\ task.op \in {"new", "reload"} => State = "rebuilding"
  /\ up /\ task.op \notin {"new", "reload"} => State = "ready"
  /\ ~up' => State' = "down"
  /\ up' /\ task'.op \in {"new", "reload"} => State' = "rebuilding"
  /\ up' /\ task'.op \notin {"new", "reload"} => State' = "ready"
BY DEF State, Rebuilt, Serving

LEMMA StepOnlyLoads ==
  ASSUME IInv, OnlyLoads, Next
  PROVE  OnlyLoads'
<1>1. task \in Task /\ NoTask.op = "none"
  BY DEF IInv, TypeOK, NoTask
<1>2. CASE Around
  BY <1>2, AroundQuiet DEF control, OnlyLoads, Loading
<1>3. CASE Fails \/ ReplayReturns \/ SyncDir \/ ProcessCrash \/ PowerLoss
  <2>1. task' = NoTask
    BY <1>3, FailsQuiet DEF ReplayReturns, SyncDir, ProcessCrash, PowerLoss, Dies, Return
  <2>2. QED BY <1>1, <2>1 DEF OnlyLoads
<1>4. CASE (\E n \in durable..Len(log) : Open(n)) \/ Reload \/ LoadSnapshot \/ Replay \/ ReplayNext
  <2>1. pc' \in {"load", "flush", "replay"}
    BY <1>4 DEF Open, Reload, LoadSnapshot, Replay, ReplayNext
  <2>2. QED BY <2>1 DEF OnlyLoads, Loading
<1>5. CASE (\E cmd \in Command : Update(cmd)) \/ (\E cmds \in Batches : SetBatch(cmds))
           \/ (\E p \in Paths : Snapshot(p)) \/ \E name \in Names : DeleteSnapshot(name)
  <2>1. task'.op \in {"update", "batch", "snapshot", "remove"}
    <3>1. CASE \E cmd \in Command : Update(cmd)
      BY <3>1 DEF Update, NoTask
    <3>2. CASE \E cmds \in Batches : SetBatch(cmds)
      BY <3>2 DEF SetBatch, NoTask
    <3>3. CASE \E p \in Paths : Snapshot(p)
      BY <3>3 DEF Snapshot, NoTask
    <3>4. CASE \E name \in Names : DeleteSnapshot(name)
      BY <3>4 DEF DeleteSnapshot, NoTask
    <3>5. QED BY <1>5, <3>1, <3>2, <3>3, <3>4
  <2>2. QED BY <2>1 DEF OnlyLoads
<1>6. CASE BatchAppend \/ Forced \/ BatchSync \/ ApplyNext \/ Rename
  <2>1. pc \in {"append", "force", "apply", "rename"}
    BY <1>6 DEF BatchAppend, Forced, BatchSync, ApplyNext, Rename
  <2>2. task'.op = task.op \/ task' = NoTask
    <3>1. CASE BatchAppend
      BY <1>1, <3>1 DEF BatchAppend, Task
    <3>2. CASE ApplyNext
      BY <1>1, <3>2 DEF ApplyNext, Return, Task
    <3>3. CASE Forced \/ BatchSync \/ Rename
      BY <3>3 DEF Forced, BatchSync, Rename
    <3>4. QED BY <1>6, <3>1, <3>2, <3>3
  <2>3. task.op \notin {"new", "reload"}
    BY <2>1 DEF OnlyLoads, Loading
  <2>4. QED BY <1>1, <2>2, <2>3 DEF OnlyLoads
<1>7. QED
  BY <1>2, <1>3, <1>4, <1>5, <1>6, NextSteps

LEMMA StepSeenSourced ==
  ASSUME IInv, SeenSourced, Next
  PROVE  SeenSourced'
<1>1. LogGrows /\ durable \in Nat /\ durable <= Len(log) /\ seen \in [Keys -> Nat]
  BY StepGrows DEF IInv, TypeOK
<1>2. SUFFICES ASSUME NEW k \in Keys, seen'[k] > 0
               PROVE  seen'[k] <= durable' /\ log'[seen'[k]] = SetOf(k)
  BY DEF SeenSourced, Covered
<1>3. seen'[k] = seen[k] \/ (seen'[k] = kv[k] /\ UNCHANGED <<log, durable>>)
  <2>1. CASE \E j \in Keys : Get(j)
    BY <1>1, <2>1 DEF Get, logs
  <2>2. CASE ~\E j \in Keys : Get(j)
    <3>1. seen' = seen
      BY <2>2, SeenStays
    <3>2. QED BY <3>1
  <2>3. QED BY <2>1, <2>2
<1>4. CASE seen'[k] = seen[k]
  <2>1. seen[k] \in 1..durable /\ log[seen[k]] = SetOf(k)
    BY <1>1, <1>2, <1>4 DEF SeenSourced, Covered
  <2>2. QED BY <1>1, <1>4, <2>1 DEF LogGrows
<1>5. CASE seen'[k] = kv[k] /\ UNCHANGED <<log, durable>>
  <2>1. applied <= durable /\ kv[k] <= applied /\ log[kv[k]] = SetOf(k)
    BY <1>2, <1>5 DEF IInv, AllBacked, Backed, Covered
  <2>2. applied \in Nat /\ kv[k] \in Nat
    BY DEF IInv, TypeOK
  <2>3. QED BY <1>1, <1>5, <2>1, <2>2
<1>6. QED BY <1>3, <1>4, <1>5

\* The map as it is and as it will be is a replay.
LEMMA MapType ==
  ASSUME IInv
  PROVE  /\ kv = Map!Replayed(log, Reflected) /\ Reflected \subseteq 1..applied
         /\ applied \in Nat /\ applied <= Len(log) /\ applied <= durable /\ durable <= Len(log)
         /\ durable \in Nat /\ Len(log) \in Nat /\ log \in Seq(Command)
         /\ kv \in [Keys -> Nat] /\ seen \in [Keys -> Nat] /\ acked \subseteq Nat \ {0}
         /\ \A s \in 1..Len(log) : log[s] \in Command /\ log[s].key \in Keys
<1>1. /\ log \in Seq(Command) /\ kv \in [Keys -> Nat] /\ seen \in [Keys -> Nat]
      /\ acked \subseteq Nat \ {0} /\ durable \in 0..Len(log) /\ applied \in Nat
  BY DEF IInv, TypeOK
<1>2. applied <= durable /\ Covered(log, applied, kv)
  BY DEF IInv, AllBacked, Backed
<1>3. Len(log) \in Nat /\ durable \in Nat /\ durable <= Len(log) /\ applied <= Len(log)
  BY <1>1, <1>2
<1>4. kv = Map!Replayed(log, Reflected)
  BY <1>1, <1>2, <1>3, MapReplayed, ReflectedIs
<1>5. \A s \in 1..Len(log) : log[s] \in Command /\ log[s].key \in Keys
  <2>1. \A s \in 1..Len(log) : log[s] \in Command
    BY <1>1
  <2>2. \A c \in Command : c.key \in Keys
    BY DEF Command
  <2>3. QED BY <2>1, <2>2
<1>6. QED BY <1>1, <1>2, <1>3, <1>4, <1>5 DEF Reflected

LEMMA NextMapType ==
  ASSUME IInv'
  PROVE  kv' = Map!Replayed(log', Reflected') /\ Reflected' \subseteq 1..applied'
<1>1. /\ log' \in Seq(Command) /\ kv' \in [Keys -> Nat] /\ durable' \in 0..Len(log') /\ applied' \in Nat
  BY DEF IInv, TypeOK
<1>2. applied' <= durable' /\ Covered(log', applied', kv')
  BY DEF IInv, AllBacked, Backed
<1>3. applied' <= Len(log')
  BY <1>1, <1>2
<1>4. kv' = Map!Replayed(log', Reflected')
  BY <1>1, <1>2, <1>3, MapReplayed, ReflectedIs
<1>5. QED BY <1>4 DEF Reflected

\* Nobody was told of anything that is not durable.
LEMMA ToldDurable ==
  ASSUME IInv, DueDurable
  PROVE  /\ Told \subseteq 1..durable
         /\ \A k \in Keys : seen[k] <= durable
<1>1. acked \subseteq 1..durable /\ Shown(seen) \subseteq 1..durable
  BY DEF DueDurable, Due, Owed
<1>2. \A k \in Keys : seen[k] <= durable
  <2>1. SUFFICES ASSUME NEW k \in Keys PROVE seen[k] <= durable
    OBVIOUS
  <2>2. seen[k] = 0 \/ seen[k] \in Shown(seen)
    BY DEF Shown
  <2>3. QED BY <1>1, <2>2, MapType
<1>3. \A s \in 1..Len(log) : s <= seen[log[s].key] => s \in 1..durable
  <2>1. SUFFICES ASSUME NEW s \in 1..Len(log), s <= seen[log[s].key] PROVE s <= durable
    BY MapType
  <2> DEFINE k == log[s].key
  <2>2. k \in Keys
    BY MapType
  <2>3. seen[k] \in Nat /\ seen[k] <= durable /\ s <= seen[k]
    BY <1>2, <2>1, <2>2, MapType
  <2> HIDE DEF k
  <2>4. QED BY <2>3, MapType
<1>4. QED BY <1>1, <1>2, <1>3 DEF Told

\* Commands behind the durable ones, and their loss, concern neither the map nor a caller.
LEMMA TailUnknown ==
  ASSUME IInv, DueDurable, log' \in Seq(Command), Len(log') >= durable,
         \A s \in 1..durable : log'[s] = log[s], UNCHANGED <<kv, applied, acked, seen>>
  PROVE  Reflected' = Reflected /\ Told' = Told
<1>1. Reflected' = Reflected
  <2>1. \A s \in 1..applied : log'[s] = log[s] /\ \A d \in s..applied : log'[d] = log[d]
    BY MapType
  <2>2. \A s \in 1..applied : Holds(log', {s}, kv, applied) <=> Holds(log, {s}, kv, applied)
    BY <2>1 DEF Holds
  <2>3. QED BY <2>2, ReflectedIs DEF Reflecting
<1>2. Told' = Told
  <2>1. \A s \in 1..durable : s <= seen[log'[s].key] <=> s <= seen[log[s].key]
    OBVIOUS
  <2>2. 1..durable \subseteq 1..Len(log) /\ 1..durable \subseteq 1..Len(log')
    BY MapType
  <2>3. \A s \in 1..Len(log) : s <= seen[log[s].key] => s \in 1..durable
    BY ToldDurable DEF Told
  <2>4. \A s \in 1..Len(log') : s <= seen[log'[s].key] => s \in 1..durable
    <3>1. SUFFICES ASSUME NEW s \in 1..Len(log'), s <= seen[log'[s].key] PROVE s <= durable
      BY MapType
    <3> DEFINE k == log'[s].key
    <3>2. k \in Keys
      <4>1. log'[s] \in Command
        OBVIOUS
      <4>2. \A c \in Command : c.key \in Keys
        BY DEF Command
      <4>3. QED BY <4>1, <4>2
    <3>3. seen[k] \in Nat /\ seen[k] <= durable /\ s <= seen[k]
      BY <3>1, <3>2, ToldDurable, MapType
    <3> HIDE DEF k
    <3>4. s \in Nat
      OBVIOUS
    <3>5. QED BY <3>3, <3>4, MapType
  <2>5. {s \in 1..Len(log') : s <= seen[log'[s].key]} = {s \in 1..Len(log) : s <= seen[log[s].key]}
    BY <2>1, <2>2, <2>3, <2>4
  <2>6. QED BY <2>5, ReflectedIs DEF Knowing
<1>3. QED BY <1>1, <1>2

\* A command that comes to the map is taken.
LEMMA Taken ==
  ASSUME IInv, IInv', NEW seq \in 1..Len(log), applied < seq, Apply(seq), UNCHANGED <<log, State>>,
         State # "down", Told \subseteq Told', Told' \ Told \subseteq Reflected'
  PROVE  Map!Take(seq)
<1>1. /\ kv' = [kv EXCEPT ![log[seq].key] = IF log[seq].op = "set" THEN seq ELSE 0]
      /\ applied' = seq
  BY MapType DEF Apply
<1>2. \A t \in Reflected : t < seq
  BY MapType
<1>3. Reflected' \subseteq 1..seq /\ kv' = Map!Replayed(log, Reflected')
  BY <1>1, NextMapType
<1>4. Reflected \cup {seq} \subseteq Reflected'
  <2>1. Reflected \subseteq Nat /\ \A s \in Reflected : s <= applied \/ seq <= s
    BY MapType
  <2>2. Holds(log, Reflected, kv, applied)
    BY ReflectedIs DEF Reflecting, Holds
  <2>3. Holds(log, Reflected \cup {seq}, kv', applied')
    BY <2>1, <2>2, HoldsApply DEF IInv
  <2>4. Reflected \cup {seq} \subseteq 1..seq
    BY <1>2, MapType
  <2>5. \A s \in Reflected \cup {seq} : Holds(log, {s}, kv', applied')
    BY <2>3, HoldsLess
  <2>6. QED BY <1>1, <2>4, <2>5, ReflectedIs DEF Reflecting
<1>5. QED BY <1>1, <1>2, <1>3, <1>4 DEF Map!Take

MapStep == [Map!Next]_(Map!vars)

\* Steps that only move the call along, or fail.
LEMMA CallsStay ==
  ASSUME Reliable, IInv, OnlyLoads,
         \/ \E cmds \in Batches : SetBatch(cmds)
         \/ Forced \/ BatchSync \/ Replay \/ Rename \/ SyncDir \/ Fails
         \/ \E p \in Paths : Snapshot(p)
         \/ \E name \in Names : DeleteSnapshot(name)
  PROVE  MapStep
<1>1. task \in Task /\ NoTask.op = "none" /\ (pc = "idle" <=> task.op = "none")
  BY DEF IInv, TypeOK, NoTask
<1>2. UNCHANGED <<log, up, kv, applied, acked, seen>>
  <2>1. CASE (\E cmds \in Batches : SetBatch(cmds)) \/ Forced \/ BatchSync \/ Replay
    BY <2>1 DEF SetBatch, Forced, BatchSync, Replay, FlushLog, logs, memory, history
  <2>2. CASE (\E p \in Paths : Snapshot(p)) \/ Rename \/ SyncDir \/ \E name \in Names : DeleteSnapshot(name)
    BY <2>2 DEF Snapshot, Rename, SyncDir, DeleteSnapshot, FlushLog, logs, memory, history
  <2>3. CASE Fails
    BY <2>3, FailsQuiet DEF logs, memory, history
  <2>4. QED BY <2>1, <2>2, <2>3
<1>3. task.op \in {"new", "reload"} <=> task'.op \in {"new", "reload"}
  <2>1. CASE \E cmds \in Batches : SetBatch(cmds)
    <3>1. task.op = "none" /\ task'.op = "batch"
      BY <1>1, <2>1 DEF SetBatch, Idle, NoTask
    <3>2. QED BY <3>1
  <2>2. CASE \E p \in Paths : Snapshot(p)
    <3>1. task.op = "none" /\ task'.op = "snapshot"
      BY <1>1, <2>2 DEF Snapshot, Idle, NoTask
    <3>2. QED BY <3>1
  <2>3. CASE \E name \in Names : DeleteSnapshot(name)
    <3>1. task.op = "none" /\ task'.op = "remove"
      BY <1>1, <2>3 DEF DeleteSnapshot, Idle, NoTask
    <3>2. QED BY <3>1
  <2>4. CASE Forced \/ BatchSync \/ Rename
    BY <2>4 DEF Forced, BatchSync, Rename
  <2>5. CASE Replay
    BY <1>1, <2>5 DEF Replay, Task
  <2>6. CASE SyncDir \/ Fails
    <3>1. task' = NoTask /\ pc \in {"syncdir", "rename", "force", "append"}
      <4>1. CASE SyncDir
        BY <4>1 DEF SyncDir, Return
      <4>2. CASE Fails
        BY <4>2 DEF Fails, Return, ForceFails, AppendFails, BatchSyncFails, SnapshotFails, ReloadFails,
             Reliable
      <4>3. QED BY <2>6, <4>1, <4>2
    <3>2. task.op \notin {"new", "reload"}
      BY <3>1 DEF OnlyLoads, Loading
    <3>3. QED BY <1>1, <3>1, <3>2
  <2>7. QED BY <2>1, <2>2, <2>3, <2>4, <2>5, <2>6
<1>4. State' = State
  BY <1>2, <1>3 DEF State, Rebuilt, Serving
<1>5. QED BY <1>2, <1>4, MapStays DEF MapStep

\* A Get tells what the map shows; the log's other callers and the archives change nothing.
LEMMA AroundTells ==
  ASSUME IInv, Around
  PROVE  MapStep
<1>1. UNCHANGED <<kv, applied, up, task, acked>>
  BY AroundQuiet DEF memory, control
<1>2. State' = State
  BY <1>1 DEF State, Rebuilt, Serving
<1>3. CASE FlushBehind \/ Recover \/ Damage
           \/ \E before \in 1..MaxSeq + 1 : \E gone \in kept..before : Clean(before, gone)
  <2>1. UNCHANGED <<log, seen>>
    BY <1>3 DEF FlushBehind, Recover, Damage, Clean, FlushLog, L!Force, logs, history
  <2>2. QED BY <1>1, <1>2, <2>1, MapStays DEF MapStep
<1>4. CASE \E k \in Keys : Get(k)
  <2>1. PICK k \in Keys : Get(k)
    BY <1>4
  <2>2. /\ Serving /\ kv[k] > seen[k] /\ log' = log
        /\ seen' = [seen EXCEPT ![k] = kv[k]]
    BY <2>1 DEF Get, logs
  <2>3. Reflected' = Reflected
    BY <1>1, <2>2, ReflectedIs
  <2>4. ASSUME NEW s \in Told PROVE s \in Told'
    <3>1. CASE s \in acked
      BY <1>1, <3>1 DEF Told
    <3>2. CASE s \in 1..Len(log) /\ s <= seen[log[s].key]
      <4>1. log[s].key \in Keys
        BY <3>2, MapType
      <4> DEFINE j == log[s].key
      <4>2. s \in Nat /\ seen[j] \in Nat /\ s <= seen[j]
        BY <3>2, <4>1, MapType
      <4>3. seen'[j] \in Nat /\ seen[j] <= seen'[j]
        BY <2>2, <4>1, MapType
      <4> HIDE DEF j
      <4>4. s <= seen'[j]
        BY <4>2, <4>3
      <4>5. QED BY <2>2, <3>2, <4>4 DEF Told, j
    <3>3. QED BY <3>1, <3>2 DEF Told
  <2>5. ASSUME NEW s \in Told', s \notin Told PROVE s \in Reflected
    <3>1. s \in 1..Len(log) /\ s <= seen'[log[s].key] /\ ~(s <= seen[log[s].key])
      BY <1>1, <2>2, <2>5 DEF Told
    <3>2. log[s].key = k
      BY <2>2, <3>1, MapType
    <3>3. seen'[k] = kv[k] /\ kv[k] \in Nat
      BY <2>2, MapType
    <3>4. s <= kv[k] /\ s \in Nat
      BY <3>1, <3>2, <3>3
    <3>5. kv[k] <= applied
      BY <3>1, <3>3, <3>4 DEF IInv, AllBacked, Backed, Covered
    <3>6. s \in 1..applied /\ kv[k] >= s
      BY <3>1, <3>3, <3>4, <3>5, MapType
    <3>7. QED BY <3>2, <3>6 DEF Reflected, Reflects
  <2>6. State # "down"
    BY <2>2, StateIs DEF Serving
  <2>7. Map!Tell(Told' \ Told)
    <3>1. Told' = Told \cup (Told' \ Told) /\ Told' \ Told \subseteq Reflected
      BY <2>4, <2>5
    <3>2. QED BY <1>1, <1>2, <2>2, <2>3, <2>6, <3>1 DEF Map!Tell
  <2>8. Told' \ Told \in SUBSET Reflected
    BY <2>5
  <2>9. Map!Next
    BY <2>7, <2>8 DEF Map!Next
  <2>10. QED BY <2>9 DEF MapStep
<1>5. QED BY <1>3, <1>4 DEF Around

\* An append gives a command to the map.
LEMMA AppendsGive ==
  ASSUME IInv, DueDurable, OnlyLoads, BatchAppend \/ \E cmd \in Command : Update(cmd)
  PROVE  MapStep
<1>1. task \in Task /\ (pc = "idle" => task.op = "none")
  BY DEF IInv, TypeOK
<1>2. PICK cmd \in Command :
        /\ up /\ up' = up /\ log' = Append(log, cmd) /\ UNCHANGED <<kv, applied, acked, seen>>
        /\ task.op \notin {"new", "reload"} /\ task'.op \notin {"new", "reload"}
  <2>1. CASE \E cmd \in Command : Update(cmd)
    <3>1. PICK cmd \in Command : Update(cmd)
      BY <2>1
    <3>2. task'.op = "update" /\ task.op = "none"
      BY <1>1, <3>1 DEF Update, Idle, NoTask
    <3>3. up /\ up' = up /\ log' = Append(log, cmd) /\ UNCHANGED <<kv, applied, acked, seen>>
      BY <3>1 DEF Update, L!Write, memory, history
    <3>4. QED BY <3>2, <3>3
  <2>2. CASE BatchAppend
    <3>1. Head(task.todo) \in Command
      BY <1>1, <2>2 DEF BatchAppend, Task
    <3>2. task.op \notin {"new", "reload"} /\ task'.op = task.op
      BY <1>1, <2>2 DEF BatchAppend, Task, OnlyLoads, Loading
    <3>3. /\ up /\ up' = up /\ log' = Append(log, Head(task.todo))
          /\ UNCHANGED <<kv, applied, acked, seen>>
      BY <2>2 DEF BatchAppend, L!Write, memory, history
    <3>4. QED BY <3>1, <3>2, <3>3
  <2>3. QED BY <2>1, <2>2
<1>3. State = "ready" /\ State' = "ready"
  BY <1>2, StateIs
<1>4. /\ log' \in Seq(Command) /\ Len(log') >= durable
      /\ \A s \in 1..durable : log'[s] = log[s]
  BY <1>2, MapType
<1>5. Reflected' = Reflected /\ Told' = Told
  BY <1>2, <1>4, TailUnknown
<1>6. Map!Give(cmd) /\ cmd \in Map!Command
  BY <1>2, <1>3, <1>5 DEF Map!Give, Map!Command, Command
<1>7. Map!Next
  BY <1>6 DEF Map!Next
<1>8. QED BY <1>7 DEF MapStep

\* All that the callers know of is reflected by a map that is there.
LEMMA ToldReflected ==
  ASSUME IInv', AckedKept', SeenKept', SeenSourced', Rebuilt'
  PROVE  Told' \subseteq Reflected' /\ acked' \subseteq Reflected'
<1>1. /\ log' \in Seq(Command) /\ kv' \in [Keys -> Nat] /\ seen' \in [Keys -> Nat]
      /\ acked' \subseteq Nat \ {0} /\ applied' \in Nat
  BY DEF IInv, TypeOK
<1>2. \A s \in 1..Len(log') : log'[s] \in Command /\ log'[s].key \in Keys
  <2>1. \A s \in 1..Len(log') : log'[s] \in Command
    BY <1>1
  <2>2. \A c \in Command : c.key \in Keys
    BY DEF Command
  <2>3. QED BY <2>1, <2>2
<1>3. acked' \subseteq Reflected'
  <2>1. SUFFICES ASSUME NEW s \in acked' PROVE s \in Reflected'
    OBVIOUS
  <2>2. Reflects(kv, applied, s)'
    BY DEF AckedKept
  <2>3. s <= applied'
    BY <2>2 DEF Reflects
  <2>4. s \in 1..applied'
    BY <1>1, <2>3
  <2>5. QED BY <2>2, <2>4 DEF Reflected
<1>4. ASSUME NEW s \in 1..Len(log'), s <= seen'[log'[s].key]
      PROVE  s \in Reflected'
  <2>1. PICK k \in Keys : k = log'[s].key
    BY <1>2
  <2>2. PICK v \in Nat : v = seen'[k]
    BY <1>1
  <2>3. s \in Nat /\ s >= 1 /\ s <= v
    BY <1>4, <2>1, <2>2
  <2>4. v > 0
    BY <2>3
  <2>5. log'[v].key = k
    <3>1. \A j \in Keys : seen'[j] > 0 => log'[seen'[j]] = SetOf(j)
      BY DEF SeenSourced, Covered
    <3>2. log'[v] = SetOf(k)
      BY <2>2, <2>4, <3>1
    <3>3. QED BY <3>2 DEF SetOf
  <2>6. Reflects(kv, applied, v)'
    <3>1. \A j \in Keys : seen'[j] > 0 => Reflects(kv, applied, seen[j])'
      BY DEF SeenKept
    <3>2. Reflects(kv, applied, seen[k])'
      BY <2>2, <2>4, <3>1
    <3>3. QED BY <2>2, <3>2 DEF Reflects
  <2>7. /\ v <= applied'
        /\ \/ kv'[k] >= v
           \/ kv'[k] = 0 /\ \E d \in v..applied' : log'[d].op = "delete" /\ log'[d].key = k
    BY <2>5, <2>6 DEF Reflects
  <2>8. s \in 1..applied' /\ v..applied' \subseteq s..applied'
    BY <1>1, <2>3, <2>7
  <2>9. kv'[k] >= v => kv'[k] >= s
    BY <1>1, <2>3
  <2>10. \/ kv'[k] >= s
         \/ kv'[k] = 0 /\ \E d \in s..applied' : log'[d].op = "delete" /\ log'[d].key = k
    BY <2>7, <2>8, <2>9
  <2>11. QED BY <2>1, <2>8, <2>10 DEF Reflected, Reflects
<1>5. QED BY <1>3, <1>4 DEF Told

\* Memory takes the next command, and the last one answers the call.
LEMMA ApplyTakes ==
  ASSUME IInv, IInv', Fresh, OnlyLoads, AckedKept', SeenKept', SeenSourced', ApplyNext
  PROVE  MapStep
<1> DEFINE seq == task.seqs[task.next]
<1>1. /\ seq \in 1..Len(log) /\ applied < seq /\ Apply(seq) /\ up /\ pc = "apply"
      /\ UNCHANGED <<log, up>>
  BY Applying DEF logs
<1>2. UNCHANGED seen
  BY DEF ApplyNext
<1>3. task.op \notin {"new", "reload"} /\ task'.op \notin {"new", "reload"}
  <2>1. task \in Task /\ NoTask.op = "none"
    BY DEF IInv, TypeOK, NoTask
  <2>2. task.op \notin {"new", "reload"}
    BY <1>1 DEF OnlyLoads, Loading
  <2>3. task'.op = task.op \/ task' = NoTask
    BY <2>1 DEF ApplyNext, Return, Task
  <2>4. QED BY <2>1, <2>2, <2>3
<1>4. State = "ready" /\ State' = "ready" /\ Rebuilt'
  BY <1>1, <1>3, StateIs DEF Rebuilt, Serving
<1>5. acked \subseteq acked'
  BY DEF ApplyNext
<1>6. Told \subseteq Told' /\ Told' \ Told \subseteq acked'
  BY <1>1, <1>2, <1>5 DEF Told
<1>7. Told' \ Told \subseteq Reflected'
  BY <1>4, <1>6, ToldReflected
<1> HIDE DEF seq
<1>8. Map!Take(seq)
  BY <1>1, <1>4, <1>6, <1>7, Taken
<1>9. Map!Next
  BY <1>1, <1>8 DEF Map!Next
<1>10. QED BY <1>9 DEF MapStep

\* A replay takes the commands behind the snapshot.
LEMMA ReplayTakes ==
  ASSUME IInv, IInv', Gapless, ReplayNext
  PROVE  MapStep
<1>1. /\ task.next \in 1..Len(log) /\ Apply(task.next) /\ up
      /\ UNCHANGED <<log, up, acked, seen>>
  BY Replaying DEF logs, history
<1>2. task'.op = task.op
  BY DEF ReplayNext, IInv, TypeOK, Task
<1>3. State' = State /\ State # "down"
  <2>1. State' = State
    BY <1>1, <1>2 DEF State, Rebuilt, Serving
  <2>2. QED BY <1>1, <2>1, StateIs
<1>4. Told' = Told
  BY <1>1, ReflectedIs
<1>5. CASE task.next <= applied
  <2>1. UNCHANGED <<kv, applied>>
    BY <1>1, <1>5 DEF Apply, memory
  <2>2. QED BY <1>1, <1>3, <2>1, MapStays DEF MapStep
<1>6. CASE ~(task.next <= applied)
  <2>1. applied < task.next
    BY <1>1, <1>6, MapType
  <2>2. Map!Take(task.next)
    BY <1>1, <1>3, <1>4, <2>1, Taken
  <2>3. Map!Next
    BY <1>1, <2>2 DEF Map!Next
  <2>4. QED BY <2>3 DEF MapStep
<1>7. QED BY <1>5, <1>6

\* An empty map reflects nothing.
LEMMA NothingReflected ==
  /\ kv = Empty /\ applied = 0 => Map!Nothing
  /\ kv' = Empty /\ applied' = 0 => Map!Nothing'
<1>1. applied = 0 => Reflected = {}
  BY DEF Reflected
<1>2. applied' = 0 => Reflected' = {}
  BY DEF Reflected
<1>3. QED BY <1>1, <1>2 DEF Map!Nothing, Empty

\* New and Reload begin with an empty map, into which the snapshot is loaded.
LEMMA LoadsBegin ==
  ASSUME IInv, IInv', DueDurable, Copied, Loads,
         Reload \/ LoadSnapshot \/ \E n \in durable..Len(log) : Open(n)
  PROVE  MapStep
<1>1. task \in Task /\ (pc = "idle" => task.op = "none")
  BY DEF IInv, TypeOK
<1>2. CASE Reload
  <2>1. /\ up /\ task.op = "none" /\ UNCHANGED <<log, up, acked, seen>>
        /\ kv' = Empty /\ applied' = 0 /\ task'.op = "reload"
    BY <1>1, <1>2 DEF Reload, Idle, NoTask, logs, history
  <2>2. State = "ready" /\ State' = "rebuilding" /\ Map!Nothing' /\ Told' = Told
    BY <2>1, StateIs, NothingReflected, ReflectedIs
  <2>3. Map!Rebuild
    BY <2>1, <2>2 DEF Map!Rebuild
  <2>4. QED BY <2>3 DEF MapStep, Map!Next
<1>3. CASE LoadSnapshot
  <2>1. /\ up /\ UNCHANGED <<log, up, task, acked, seen>> /\ kv = Empty /\ applied = 0
        /\ task.op \in {"new", "reload"}
    BY <1>3 DEF LoadSnapshot, Copied, Loads, Loading, logs, history
  <2>2. State = "rebuilding" /\ State' = "rebuilding" /\ Map!Nothing /\ Told' = Told
    BY <2>1, StateIs, NothingReflected, ReflectedIs
  <2>3. kv' = Map!Replayed(log, Reflected') /\ Reflected' \subseteq 1..applied'
    BY <2>1, NextMapType
  <2>4. Reflected' \in SUBSET (1..Len(log))
    <3>1. applied' \in Nat /\ applied' <= Len(log)
      BY <2>1 DEF IInv, TypeOK, AllBacked, Backed
    <3>2. QED BY <2>3, <3>1, MapType
  <2>5. Map!Load(Reflected')
    BY <2>1, <2>2, <2>3 DEF Map!Load
  <2>6. Map!Next
    BY <2>4, <2>5 DEF Map!Next
  <2>7. QED BY <2>6 DEF MapStep
<1>4. CASE \E n \in durable..Len(log) : Open(n)
  <2>1. PICK n \in durable..Len(log) : Open(n)
    BY <1>4
  <2>2. /\ ~up /\ up' /\ log' = SubSeq(log, 1, n) /\ task'.op = "new"
        /\ UNCHANGED <<kv, applied, acked, seen>>
    BY <2>1 DEF Open, L!Restart, NoTask, memory, history
  <2>3. n \in 0..Len(log) /\ durable <= n
    BY MapType
  <2>4. /\ log' \in Seq(Command) /\ Len(log') >= durable
        /\ \A s \in 1..durable : log'[s] = log[s]
    BY <2>2, <2>3, MapType
  <2>5. Reflected' = Reflected /\ Told' = Told
    BY <2>2, <2>4, TailUnknown
  <2>6. Told \subseteq 1..n
    BY <2>3, ToldDurable, MapType
  <2>7. State = "down" /\ State' = "rebuilding"
    BY <2>2, StateIs
  <2>8. Map!Start(n)
    BY <2>2, <2>5, <2>6, <2>7 DEF Map!Start
  <2>9. Map!Next
    BY <2>3, <2>8 DEF Map!Next
  <2>10. QED BY <2>9 DEF MapStep
<1>5. QED BY <1>2, <1>3, <1>4

\* A map that has been rebuilt is shown with all that anybody was told of.
LEMMA ReplayShows ==
  ASSUME IInv, IInv', Loads, AckedKept', SeenKept', SeenSourced', ReplayReturns
  PROVE  MapStep
<1>1. /\ up /\ pc = "replay" /\ UNCHANGED <<log, up, kv, applied, acked, seen>> /\ task' = NoTask
  BY DEF ReplayReturns, Return, logs, memory, history
<1>2. task.op \in {"new", "reload"} /\ NoTask.op = "none"
  BY <1>1 DEF Loads, Loading, NoTask
<1>3. State = "rebuilding" /\ State' = "ready" /\ Rebuilt'
  BY <1>1, <1>2, StateIs DEF Rebuilt, Serving
<1>4. Reflected' = Reflected /\ Told' = Told
  BY <1>1, ReflectedIs
<1>5. Told \subseteq Reflected
  BY <1>3, <1>4, ToldReflected
<1>6. Map!Show
  BY <1>1, <1>3, <1>4, <1>5 DEF Map!Show
<1>7. QED BY <1>6 DEF MapStep, Map!Next

LEMMA CrashStops ==
  ASSUME Copied, ProcessCrash \/ PowerLoss
  PROVE  MapStep
<1>1. /\ ~up' /\ UNCHANGED <<log, acked, seen>> /\ kv' = Empty /\ applied' = 0
  BY DEF ProcessCrash, PowerLoss, Dies, L!Stop, history
<1>2. Map!Nothing' /\ State' = "down" /\ Told' = Told
  BY <1>1, NothingReflected, StateIs, ReflectedIs
<1>3. CASE up
  <2>1. State # "down"
    BY <1>3, StateIs
  <2>2. Map!Stop
    BY <1>1, <1>2, <2>1 DEF Map!Stop
  <2>3. QED BY <2>2 DEF MapStep, Map!Next
<1>4. CASE ~up
  <2>1. kv = Empty /\ applied = 0 /\ State = "down"
    BY <1>4, StateIs DEF Copied
  <2>2. QED BY <1>1, <1>2, <2>1, MapStays DEF MapStep
<1>5. QED BY <1>3, <1>4

LEMMA StepMaps ==
  ASSUME Reliable, IInv, KInv, Mapped, IInv', AckedKept', SeenKept', Mapped', [Next]_vars
  PROVE  MapStep
<1>1. CASE UNCHANGED vars
  <2>1. UNCHANGED <<log, up, kv, applied, task, acked, seen>>
    BY <1>1 DEF vars, logs, memory, control, history
  <2>2. State' = State
    BY <2>1 DEF State, Rebuilt, Serving
  <2>3. QED BY <2>1, <2>2, MapStays DEF MapStep
<1>2. CASE Next
  <2>1. CASE \/ \E cmds \in Batches : SetBatch(cmds)
             \/ Forced \/ BatchSync \/ Replay \/ Rename \/ SyncDir \/ Fails
             \/ \E p \in Paths : Snapshot(p)
             \/ \E name \in Names : DeleteSnapshot(name)
    BY <2>1, CallsStay DEF Mapped
  <2>2. CASE BatchAppend \/ \E cmd \in Command : Update(cmd)
    BY <2>2, AppendsGive DEF Mapped, KInv
  <2>3. CASE Around
    BY <2>3, AroundTells
  <2>4. CASE ApplyNext
    BY <2>4, ApplyTakes DEF Mapped, KInv
  <2>5. CASE ReplayNext
    BY <2>5, ReplayTakes DEF KInv
  <2>6. CASE Reload \/ LoadSnapshot \/ \E n \in durable..Len(log) : Open(n)
    BY <2>6, LoadsBegin DEF KInv
  <2>7. CASE ReplayReturns
    BY <2>7, ReplayShows DEF Mapped, KInv
  <2>8. CASE ProcessCrash \/ PowerLoss
    BY <2>8, CrashStops DEF KInv
  <2>9. QED BY <1>2, <2>1, <2>2, <2>3, <2>4, <2>5, <2>6, <2>7, <2>8, NextSteps
<1>3. QED BY <1>1, <1>2

LEMMA InitMaps ==
  ASSUME Init
  PROVE  Mapped /\ Map!Init
<1>1. ~up /\ task = NoTask /\ log = <<>> /\ kv = Empty /\ applied = 0 /\ acked = {} /\ seen = Empty
  BY DEF Init, L!Init
<1>2. Mapped
  BY <1>1 DEF Mapped, SeenSourced, Covered, OnlyLoads, NoTask, Empty
<1>3. Told = {}
  BY <1>1 DEF Told
<1>4. Map!Nothing /\ State = "down"
  BY <1>1, NothingReflected, StateIs
<1>5. QED BY <1>1, <1>2, <1>3, <1>4 DEF Map!Init

\* While no reload fails and nothing damages the snapshot, the store is a durable map: whatever
\* fails, stops or is cleaned, memory is at every step the replay of commands taken in the order
\* of the log, a restart keeps all that a caller knows of, and nobody is served from a rebuilt
\* map that misses any of it (store.go, snapshot.go).
THEOREM StoreImplementsDurableMap ==
  ASSUME Reliable
  PROVE  Spec => ImplementsDurableMap
<1>1. Init => Mapped /\ Map!Init
  BY InitMaps
<1>2. IInv /\ Mapped /\ [Next]_vars => Mapped'
  <2>1. SUFFICES ASSUME IInv, Mapped, [Next]_vars PROVE Mapped'
    OBVIOUS
  <2>2. CASE UNCHANGED vars
    BY <2>1, <2>2 DEF vars, logs, control, history, Mapped, SeenSourced, OnlyLoads, Loading
  <2>3. CASE Next
    BY <2>1, <2>3, StepSeenSourced, StepOnlyLoads DEF Mapped
  <2>4. QED BY <2>1, <2>2, <2>3
<1>3. IInv /\ KInv /\ Mapped /\ IInv' /\ AckedKept' /\ SeenKept' /\ Mapped' /\ [Next]_vars
        => MapStep
  BY StepMaps
<1>4. MapStep => [Map!Next]_(Map!vars)
  BY DEF MapStep
<1>5. QED
  BY <1>1, <1>2, <1>3, <1>4, DueKept, AlwaysAckedKept, AlwaysSeenKept, PTL
     DEF Spec, ImplementsDurableMap, Map!Spec
===============================================================================
