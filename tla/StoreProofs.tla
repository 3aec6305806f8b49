----------------------------- MODULE StoreProofs -----------------------------
(***************************************************************************)
(* Theorems about the store, for any number of keys, commands, batches and *)
(* archives, whatever fails (NoGap: whatever fails but a reload, and while *)
(* nothing damages the snapshot).                                          *)
(***************************************************************************)
EXTENDS Store, TLAPS

-------------------------------------------------------------------------------
(* The inductive invariant.                                                 *)

\* Values that the first upTo commands of the log account for.
Covered(l, upTo, values) ==
  \A k \in Keys : values[k] > 0 => values[k] <= upTo /\ l[values[k]] = SetOf(k)

\* A map and the sequence up to which it follows the durable log.
Backed(seq, values) == seq <= durable /\ Covered(log, seq, values)

\* Memory, snapshots and the snapshot on its way are all backed by the log.
AllBacked ==
  /\ Backed(applied, kv)
  /\ Backed(task.body.applied, task.body.values)
  /\ \A p \in Paths : /\ Backed(files[p].applied, files[p].values)
                      /\ Backed(settled[p].applied, settled[p].values)

\* What each step of an update has behind it.
Steps ==
  /\ pc \in {"append", "force", "apply"} =>
       task.next \in Nat \ {0} /\ \A i \in 1..Len(task.seqs) : task.seqs[i] \in 1..Len(log)
  /\ pc \in {"append", "force"} => task.next = 1
  /\ pc = "append" => task.todo # <<>> \/ task.seqs # <<>>
  /\ pc = "force" => task.seqs # <<>>
  /\ pc = "apply" => task.next <= Len(task.seqs)
                     /\ \A i \in 1..Len(task.seqs) : task.seqs[i] <= durable
  /\ pc = "replay" => task.next \in Nat \ {0}

IInv == TypeOK /\ AllBacked /\ Steps

\* Nothing fails that leaves memory or the primary snapshot behind the log.
Reliable == Faults \cap {"replay", "damage"} = {}

\* The highest watermark that was handed out bounds the cleaning from above, and
\* memory and both primary snapshots from below.
Watermarked ==
  /\ kept <= watermark + 1 /\ first <= watermark + 1
  /\ watermark <= files[Primary].applied /\ watermark <= settled[Primary].applied
  /\ up /\ pc # "load" => watermark <= applied
  /\ pc \in {"rename", "syncdir"} /\ task.path = Primary =>
       watermark <= task.body.applied /\ task.body.applied <= applied
  /\ pc = "syncdir" /\ task.path = Primary => files[Primary].applied = task.body.applied
  /\ \A f \in {files[Primary], settled[Primary]} : f.kind # "ok" => f.applied = 0
  /\ pc = "rename" => task.body.kind = "ok"

-------------------------------------------------------------------------------
(* Lemmas.                                                                  *)

\* What the durable log accounts for, a longer log accounts for, too.
LogGrows == durable' \in Nat /\ durable <= durable' /\ \A s \in 1..durable : log'[s] = log[s]

LEMMA BackedKept ==
  ASSUME TypeOK, LogGrows,
         NEW seq \in Nat, NEW values \in [Keys -> Nat], Backed(seq, values)
  PROVE  seq <= durable' /\ Covered(log', seq, values)
<1>1. durable \in Nat /\ seq <= durable /\ Covered(log, seq, values)
  BY DEF TypeOK, Backed
<1>2. seq <= durable'
  BY <1>1 DEF LogGrows
<1>3. ASSUME NEW k \in Keys, values[k] > 0
      PROVE  values[k] <= seq /\ log'[values[k]] = SetOf(k)
  <2>1. values[k] \in Nat /\ values[k] <= seq /\ log[values[k]] = SetOf(k)
    BY <1>1, <1>3 DEF Covered
  <2>2. values[k] \in 1..durable
    BY <1>1, <1>3, <2>1
  <2>3. QED
    BY <2>1, <2>2 DEF LogGrows
<1>4. QED
  BY <1>2, <1>3 DEF Covered

\* One command applied to a map that the log accounts for.
LEMMA ApplyBacked ==
  ASSUME TypeOK, Backed(applied, kv), NEW seq \in 1..Len(log), seq <= durable,
         Apply(seq), UNCHANGED logs
  PROVE  /\ kv' \in [Keys -> Nat] /\ applied' \in Nat
         /\ Backed(applied, kv)' /\ applied <= applied'
<1>1. log[seq] \in Command
  BY DEF TypeOK
<1>2. CASE seq <= applied
  BY <1>2 DEF TypeOK, Apply, Backed, Covered, logs, memory
<1>3. CASE ~(seq <= applied)
  <2>1. /\ kv' = [kv EXCEPT ![log[seq].key] = IF log[seq].op = "set" THEN seq ELSE 0]
        /\ applied' = seq
    BY <1>3 DEF Apply
  <2>2. log[seq].key \in Keys /\ (log[seq].op = "set" => log[seq] = SetOf(log[seq].key))
    BY <1>1 DEF Command, SetOf
  <2>3. kv' \in [Keys -> Nat] /\ applied' \in Nat /\ applied <= applied'
    BY <1>3, <2>1, <2>2 DEF TypeOK
  <2>4. ASSUME NEW k \in Keys, kv'[k] > 0
        PROVE  kv'[k] <= seq /\ log[kv'[k]] = SetOf(k)
    <3>1. CASE k = log[seq].key
      BY <2>1, <2>2, <2>4, <3>1 DEF TypeOK
    <3>2. CASE k # log[seq].key
      BY <1>3, <2>1, <2>4, <3>2 DEF TypeOK, Backed, Covered
    <3>3. QED
      BY <3>1, <3>2
  <2>5. QED
    BY <2>1, <2>3, <2>4 DEF Backed, Covered, logs
<1>4. QED
  BY <1>2, <1>3

LEMMA NoTaskType ==
  /\ NoTask \in Task /\ NoFile \in SnapshotFile /\ Empty \in [Keys -> Nat]
  /\ BadFile \in SnapshotFile /\ Primary \in Paths
<1>1. Empty \in [Keys -> Nat] /\ Primary \in Paths
  BY DEF Empty, Paths
<1>2. NoFile \in SnapshotFile /\ BadFile \in SnapshotFile
  BY <1>1 DEF NoFile, BadFile, SnapshotFile
<1>3. NoTask \in Task
  BY <1>1, <1>2 DEF NoTask, Task
<1>4. QED
  BY <1>1, <1>2, <1>3

\* The type invariant in parts.
LogType  == /\ log \in Seq(Command) /\ durable \in 0..Len(log) /\ up \in BOOLEAN
            /\ kept \in Nat \ {0} /\ first \in Nat \ {0} /\ kept <= first
DataType == /\ kv \in [Keys -> Nat] /\ applied \in Nat
            /\ files \in [Paths -> SnapshotFile] /\ settled \in [Paths -> SnapshotFile]
CallType == /\ task \in Task
            /\ pc \in {"idle", "append", "force", "apply", "load", "flush", "replay",
                       "rename", "syncdir"}
            /\ pc = "idle" <=> task.op = "none"
            /\ ~up => pc = "idle"
PastType == acked \subseteq Nat \ {0} /\ seen \in [Keys -> Nat] /\ watermark \in Nat

LEMMA TypeParts == TypeOK <=> LogType /\ DataType /\ CallType /\ PastType
BY DEF TypeOK, LogType, DataType, CallType, PastType

\* The ways in which the log changes.
LEMMA LogStays ==
  ASSUME TypeOK, UNCHANGED <<log, durable>>
  PROVE  LogGrows
BY DEF TypeOK, LogGrows

LEMMA LogFlushed ==
  ASSUME TypeOK, FlushLog
  PROVE  LogGrows /\ durable' = Len(log') /\ durable' \in 0..Len(log')
<1>1. Len(log) \in Nat /\ durable \in Nat /\ durable <= Len(log)
  BY DEF TypeOK
<1>2. QED
  BY <1>1 DEF FlushLog, LogGrows

LEMMA LogWritten ==
  ASSUME TypeOK, NEW cmd \in Command, L!Write(cmd)
  PROVE  /\ LogGrows /\ log' \in Seq(Command) /\ Len(log') = Len(log) + 1
         /\ durable' \in 0..Len(log')
<1>1. log' = Append(log, cmd) /\ durable' = durable
  BY DEF L!Write
<1>2. log \in Seq(Command) /\ Len(log) \in Nat /\ durable \in Nat /\ durable <= Len(log)
  BY DEF TypeOK
<1>3. log' \in Seq(Command) /\ Len(log') = Len(log) + 1
  BY <1>1, <1>2
<1>4. \A s \in 1..Len(log) : log'[s] = log[s]
  BY <1>1, <1>2
<1>5. QED
  BY <1>1, <1>2, <1>3, <1>4 DEF LogGrows

\* What a step that leaves memory and snapshots alone keeps.
LEMMA QuietBacked ==
  ASSUME IInv, LogGrows, UNCHANGED <<memory, dir>>, task'.body \in {task.body, NoFile}
  PROVE  AllBacked'
<1>1. \A f \in SnapshotFile : Backed(f.applied, f.values) =>
        f.applied <= durable' /\ Covered(log', f.applied, f.values)
  <2>1. SUFFICES ASSUME NEW f \in SnapshotFile, Backed(f.applied, f.values)
                 PROVE  f.applied <= durable' /\ Covered(log', f.applied, f.values)
    OBVIOUS
  <2>2. f.applied \in Nat /\ f.values \in [Keys -> Nat]
    BY <2>1 DEF SnapshotFile
  <2>3. QED
    BY <2>1, <2>2, BackedKept DEF IInv
<1>2. Backed(applied, kv)'
  <2>1. applied \in Nat /\ kv \in [Keys -> Nat] /\ Backed(applied, kv)
    BY DEF IInv, TypeOK, AllBacked
  <2>2. applied <= durable' /\ Covered(log', applied, kv)
    BY <2>1, BackedKept DEF IInv
  <2>3. QED
    BY <2>2 DEF Backed, memory
<1>3. \A p \in Paths : /\ Backed(files[p].applied, files[p].values)'
                       /\ Backed(settled[p].applied, settled[p].values)'
  <2>1. SUFFICES ASSUME NEW p \in Paths
                 PROVE  /\ Backed(files[p].applied, files[p].values)'
                        /\ Backed(settled[p].applied, settled[p].values)'
    OBVIOUS
  <2>2. files[p] \in SnapshotFile /\ settled[p] \in SnapshotFile
    BY DEF IInv, TypeOK
  <2>3. /\ Backed(files[p].applied, files[p].values)
        /\ Backed(settled[p].applied, settled[p].values)
    BY DEF IInv, AllBacked
  <2>4. QED
    BY <1>1, <2>2, <2>3 DEF Backed, dir
<1>4. Backed(task.body.applied, task.body.values)'
  <2>1. CASE task'.body = task.body
    <3>1. task.body \in SnapshotFile /\ Backed(task.body.applied, task.body.values)
      BY DEF IInv, TypeOK, Task, AllBacked
    <3>2. QED
      BY <1>1, <2>1, <3>1 DEF Backed
  <2>2. CASE task'.body = NoFile
    BY <2>2 DEF Backed, Covered, NoFile, Empty, LogGrows
  <2>3. QED
    BY <2>1, <2>2
<1>5. QED
  BY <1>2, <1>3, <1>4 DEF AllBacked

LEMMA QuietType ==
  ASSUME IInv, UNCHANGED <<memory, dir>>
  PROVE  DataType'
BY DEF IInv, TypeOK, DataType, memory, dir

LEMMA PastStays ==
  ASSUME IInv, UNCHANGED history
  PROVE  PastType'
BY DEF IInv, TypeOK, PastType, history

LEMMA LogTypeStays ==
  ASSUME IInv, UNCHANGED logs
  PROVE  LogType' /\ LogGrows
<1>1. TypeOK /\ UNCHANGED <<log, durable, up, first, kept>>
  BY DEF IInv, logs
<1>2. QED
  BY <1>1, LogStays DEF TypeOK, LogType

LEMMA LogTypeFlushed ==
  ASSUME IInv, FlushLog, UNCHANGED <<first, kept>>
  PROVE  LogType' /\ LogGrows
<1>1. TypeOK
  BY DEF IInv
<1>2. LogGrows /\ durable' \in 0..Len(log') /\ log' = log /\ up' = up
  BY <1>1, LogFlushed DEF FlushLog
<1>3. QED
  BY <1>1, <1>2 DEF TypeOK, LogType

LEMMA LogTypeWritten ==
  ASSUME IInv, NEW cmd \in Command, L!Write(cmd), UNCHANGED <<first, kept>>
  PROVE  LogType' /\ LogGrows
<1>1. TypeOK
  BY DEF IInv
<1>2. LogGrows /\ log' \in Seq(Command) /\ durable' \in 0..Len(log')
  BY <1>1, LogWritten
<1>3. up' = up
  BY DEF L!Write
<1>4. QED
  BY <1>1, <1>2, <1>3 DEF TypeOK, LogType

LEMMA Returned ==
  ASSUME Return
  PROVE  CallType' /\ Steps' /\ task'.body = NoFile
<1>1. task' = NoTask /\ pc' = "idle"
  BY DEF Return
<1>2. NoTask.op = "none" /\ NoTask.body = NoFile
  BY DEF NoTask
<1>3. QED
  BY <1>1, <1>2, NoTaskType DEF CallType, Steps

\* A step that touches neither memory nor snapshots keeps the invariant if it
\* keeps the log's and the call's part of it.
LEMMA QuietKeeps ==
  ASSUME IInv, LogType', LogGrows, UNCHANGED <<memory, dir>>, PastType',
         task'.body \in {task.body, NoFile}, CallType', Steps'
  PROVE  IInv'
<1>1. AllBacked' /\ DataType'
  BY QuietBacked, QuietType
<1>2. TypeOK'
  BY <1>1, TypeParts DEF TypeOK, LogType, DataType, CallType, PastType
<1>3. QED
  BY <1>1, <1>2 DEF IInv

-------------------------------------------------------------------------------
(* The updates.                                                             *)

LEMMA UpdateKeeps ==
  ASSUME IInv, NEW cmd \in Command, Update(cmd)
  PROVE  IInv'
<1>1. LogType' /\ LogGrows /\ Len(log') = Len(log) + 1 /\ Len(log) \in Nat /\ up'
  <2>1. TypeOK /\ L!Write(cmd)
    BY DEF IInv, Update
  <2>2. QED
    BY <2>1, LogTypeWritten, LogWritten DEF Update, TypeOK, L!Write
<1>2. /\ task' = [NoTask EXCEPT !.op = "update", !.seqs = <<Len(log) + 1>>, !.next = 1]
      /\ pc' = "force"
  BY DEF Update
<1>3. /\ task' \in Task /\ task'.op = "update" /\ task'.seqs = <<Len(log) + 1>>
      /\ task'.next = 1 /\ task'.body = NoFile
  <2>1. <<Len(log) + 1>> \in Seq(Nat)
    BY <1>1
  <2>2. NoTask.body = NoFile
    BY DEF NoTask
  <2>3. QED
    BY <1>2, <2>1, <2>2, NoTaskType DEF Task
<1>4. CallType'
  BY <1>1, <1>2, <1>3 DEF CallType
<1>5. Steps'
  <2>1. Len(task'.seqs) = 1 /\ task'.seqs[1] = Len(log') /\ task'.seqs # <<>>
    BY <1>1, <1>3
  <2>2. QED
    BY <1>1, <1>2, <1>3, <2>1 DEF Steps
<1>6. QED
  BY <1>1, <1>3, <1>4, <1>5, PastStays, QuietKeeps DEF Update

LEMMA SetBatchKeeps ==
  ASSUME IInv, NEW cmds \in Seq(Command), SetBatch(cmds)
  PROVE  IInv'
<1>1. LogType' /\ LogGrows /\ up'
  BY LogTypeStays DEF SetBatch, Idle, logs
<1>2. /\ task' = [NoTask EXCEPT !.op = "batch", !.todo = cmds, !.next = 1]
      /\ pc' = "append" /\ cmds # <<>>
  BY DEF SetBatch
<1>3. /\ task' \in Task /\ task'.op = "batch" /\ task'.seqs = <<>> /\ task'.todo = cmds
      /\ task'.next = 1 /\ task'.body = NoFile
  BY <1>2, NoTaskType DEF NoTask, Task
<1>4. CallType'
  BY <1>1, <1>2, <1>3 DEF CallType
<1>5. Steps'
  <2>1. Len(task'.seqs) = 0
    BY <1>3
  <2>2. QED
    BY <1>2, <1>3, <2>1 DEF Steps
<1>6. QED
  BY <1>1, <1>3, <1>4, <1>5, PastStays, QuietKeeps DEF SetBatch

LEMMA BatchAppendKeeps ==
  ASSUME IInv, BatchAppend
  PROVE  IInv'
<1>1. task \in Task /\ task.todo # <<>> /\ pc = "append" /\ up /\ task.op # "none"
  BY DEF IInv, TypeOK, BatchAppend
<1>2. task.todo \in Seq(Command) /\ task.seqs \in Seq(Nat)
  BY <1>1 DEF Task
<1>3. Head(task.todo) \in Command /\ Tail(task.todo) \in Seq(Command)
  BY <1>1, <1>2
<1>4. LogType' /\ LogGrows /\ Len(log') = Len(log) + 1 /\ Len(log) \in Nat /\ up'
  <2>1. TypeOK /\ L!Write(Head(task.todo))
    BY DEF IInv, BatchAppend
  <2>2. QED
    BY <1>3, <2>1, LogTypeWritten, LogWritten DEF BatchAppend, TypeOK, L!Write
<1>5. /\ task' = [task EXCEPT !.todo = Tail(task.todo), !.seqs = Append(task.seqs, Len(log) + 1)]
      /\ pc' \in {"append", "force"}
  BY DEF BatchAppend
<1>6. Append(task.seqs, Len(log) + 1) \in Seq(Nat)
  BY <1>2, <1>4
<1>7. /\ task' \in Task /\ task'.op = task.op /\ task'.seqs = Append(task.seqs, Len(log) + 1)
      /\ task'.next = task.next /\ task'.body = task.body
  BY <1>1, <1>3, <1>5, <1>6 DEF Task
<1>8. CallType'
  BY <1>1, <1>4, <1>5, <1>7 DEF CallType
<1>9. Steps'
  <2>1. task.next = 1 /\ \A i \in 1..Len(task.seqs) : task.seqs[i] \in 1..Len(log)
    BY <1>1 DEF IInv, Steps
  <2>2. task'.seqs # <<>> /\ \A i \in 1..Len(task'.seqs) : task'.seqs[i] \in 1..Len(log')
    <3>1. Len(task'.seqs) = Len(task.seqs) + 1 /\ Len(task.seqs) \in Nat
      BY <1>2, <1>4, <1>7
    <3>2. \A i \in 1..Len(task.seqs) : task'.seqs[i] = task.seqs[i]
      BY <1>2, <1>4, <1>7
    <3>3. task'.seqs[Len(task.seqs) + 1] = Len(log')
      BY <1>2, <1>4, <1>7
    <3>4. ASSUME NEW i \in 1..Len(task'.seqs)
          PROVE  task'.seqs[i] \in 1..Len(log')
      <4>1. CASE i \in 1..Len(task.seqs)
        BY <1>4, <2>1, <3>2, <4>1
      <4>2. CASE i = Len(task.seqs) + 1
        BY <1>4, <3>3, <4>2
      <4>3. QED
        BY <3>1, <4>1, <4>2
    <3>5. QED
      BY <3>1, <3>4
  <2>3. QED
    BY <1>5, <1>7, <2>1, <2>2 DEF Steps
<1>10. QED
  BY <1>4, <1>7, <1>8, <1>9, PastStays, QuietKeeps DEF BatchAppend

LEMMA ForcedKeeps ==
  ASSUME IInv, Forced
  PROVE  IInv'
<1>1. LogType' /\ LogGrows
  BY LogTypeFlushed DEF Forced
<1>2. /\ up /\ up' = up /\ pc = "force" /\ log' = log /\ durable' = Len(log) /\ task' = task
      /\ pc' = IF task.op = "batch" THEN "append" ELSE "apply"
  BY DEF Forced, FlushLog
<1>3. task \in Task /\ task.op # "none"
  BY <1>2 DEF IInv, TypeOK
<1>4. CallType'
  BY <1>2, <1>3 DEF CallType
<1>5. Steps'
  <2>1. /\ task.next = 1 /\ task.seqs # <<>> /\ task.seqs \in Seq(Nat)
        /\ \A i \in 1..Len(task.seqs) : task.seqs[i] \in 1..Len(log)
    BY <1>2, <1>3 DEF IInv, Steps, Task
  <2>2. Len(task.seqs) >= 1 /\ Len(log) \in Nat
    BY <2>1 DEF IInv, TypeOK
  <2>3. \A i \in 1..Len(task.seqs) : task.seqs[i] <= durable'
    BY <1>2, <2>1, <2>2
  <2>4. QED
    BY <1>2, <2>1, <2>2, <2>3 DEF Steps
<1>6. QED
  BY <1>1, <1>2, <1>4, <1>5, PastStays, QuietKeeps DEF Forced

LEMMA BatchSyncKeeps ==
  ASSUME IInv, BatchSync
  PROVE  IInv'
<1>1. LogType' /\ LogGrows
  BY LogTypeFlushed DEF BatchSync
<1>2. /\ up /\ up' = up /\ pc = "append" /\ log' = log /\ durable' = Len(log) /\ task' = task
      /\ pc' = "apply" /\ task.todo = <<>>
  BY DEF BatchSync, FlushLog
<1>3. task \in Task /\ task.op # "none"
  BY <1>2 DEF IInv, TypeOK
<1>4. CallType'
  BY <1>2, <1>3 DEF CallType
<1>5. Steps'
  <2>1. /\ task.next = 1 /\ task.seqs # <<>> /\ task.seqs \in Seq(Nat)
        /\ \A i \in 1..Len(task.seqs) : task.seqs[i] \in 1..Len(log)
    BY <1>2, <1>3 DEF IInv, Steps, Task
  <2>2. Len(task.seqs) >= 1 /\ Len(log) \in Nat
    BY <2>1 DEF IInv, TypeOK
  <2>3. \A i \in 1..Len(task.seqs) : task.seqs[i] <= durable'
    BY <1>2, <2>1, <2>2
  <2>4. QED
    BY <1>2, <2>1, <2>2, <2>3 DEF Steps
<1>6. QED
  BY <1>1, <1>2, <1>4, <1>5, PastStays, QuietKeeps DEF BatchSync

\* The error returns, and the return of a replay.
LEMMA ErrorsKeep ==
  ASSUME IInv,
         ForceFails \/ AppendFails \/ BatchSyncFails \/ ReplayReturns \/ ReloadFails
  PROVE  IInv'
<1>1. Return /\ UNCHANGED <<logs, memory, dir, history>>
  BY DEF ForceFails, AppendFails, BatchSyncFails, ReplayReturns, ReloadFails
<1>2. QED
  BY <1>1, LogTypeStays, PastStays, Returned, QuietKeeps

\* Memory with one more command, behind an update or in a replay.
LEMMA AppliedKeeps ==
  ASSUME IInv, UNCHANGED <<logs, dir>>, NEW seq \in 1..Len(log), seq <= durable, Apply(seq),
         task'.body \in {task.body, NoFile}
  PROVE  LogType' /\ DataType' /\ AllBacked'
<1>1. LogType' /\ LogGrows
  BY LogTypeStays
<1>2. /\ kv' \in [Keys -> Nat] /\ applied' \in Nat /\ Backed(applied, kv)'
  BY ApplyBacked DEF IInv, AllBacked
<1>3. DataType'
  BY <1>2 DEF IInv, TypeOK, DataType, dir
<1>4. /\ \A p \in Paths : /\ Backed(files[p].applied, files[p].values)'
                          /\ Backed(settled[p].applied, settled[p].values)'
      /\ Backed(task.body.applied, task.body.values)'
  <2>1. durable' = durable /\ log' = log /\ files' = files /\ settled' = settled
    BY DEF logs, dir
  <2>2. \A p \in Paths : /\ Backed(files[p].applied, files[p].values)'
                         /\ Backed(settled[p].applied, settled[p].values)'
    BY <2>1 DEF IInv, AllBacked, Backed, Covered
  <2>3. Backed(task.body.applied, task.body.values)'
    <3>1. CASE task'.body = task.body
      BY <2>1, <3>1 DEF IInv, AllBacked, Backed, Covered
    <3>2. CASE task'.body = NoFile
      BY <1>1, <3>2 DEF LogType, NoFile, Empty, Backed, Covered
    <3>3. QED
      BY <3>1, <3>2
  <2>4. QED
    BY <2>2, <2>3
<1>5. QED
  BY <1>1, <1>2, <1>3, <1>4 DEF AllBacked

LEMMA ApplyNextKeeps ==
  ASSUME IInv, ApplyNext
  PROVE  IInv'
<1>1. /\ up /\ pc = "apply" /\ task \in Task /\ task.seqs \in Seq(Nat) /\ task.next \in Nat \ {0}
      /\ task.next <= Len(task.seqs) /\ task.op # "none"
      /\ \A i \in 1..Len(task.seqs) : task.seqs[i] \in 1..Len(log) /\ task.seqs[i] <= durable
  BY DEF IInv, TypeOK, Steps, ApplyNext, Task
<1>2. task.seqs[task.next] \in 1..Len(log) /\ task.seqs[task.next] <= durable
  BY <1>1
<1>3. /\ Apply(task.seqs[task.next]) /\ UNCHANGED <<logs, dir>>
      /\ seen' = seen /\ watermark' = watermark /\ up' = up
  BY DEF ApplyNext, logs
<1>4. CASE task.next < Len(task.seqs)
  <2>1. task' = [task EXCEPT !.next = @ + 1] /\ pc' = pc /\ acked' = acked
    BY <1>4 DEF ApplyNext
  <2>2. /\ task' \in Task /\ task'.op = task.op /\ task'.seqs = task.seqs
        /\ task'.next = task.next + 1 /\ task'.body = task.body
    <3>1. task \in Task /\ task.next + 1 \in Nat
      BY <1>1
    <3>2. QED
      BY <2>1, <3>1 DEF Task
  <2>3. CallType' /\ Steps'
    <3>1. CallType'
      BY <1>1, <1>3, <2>1, <2>2 DEF CallType
    <3>2. Steps'
      BY <1>1, <1>3, <1>4, <2>1, <2>2 DEF Steps, logs
    <3>3. QED
      BY <3>1, <3>2
  <2>4. PastType'
    BY <1>3, <2>1 DEF IInv, TypeOK, PastType
  <2>5. LogType' /\ DataType' /\ AllBacked'
    BY <1>2, <1>3, <2>2, AppliedKeeps
  <2>6. QED
    BY <2>3, <2>4, <2>5 DEF IInv, TypeOK, LogType, DataType, CallType, PastType
<1>5. CASE ~(task.next < Len(task.seqs))
  <2>1. Return /\ acked' = acked \cup {task.seqs[i] : i \in 1..Len(task.seqs)}
    BY <1>5 DEF ApplyNext
  <2>2. CallType' /\ Steps' /\ task'.body = NoFile
    BY <2>1, Returned
  <2>3. PastType'
    <3>1. \A i \in 1..Len(task.seqs) : task.seqs[i] \in Nat \ {0}
      BY <1>1
    <3>2. acked' \subseteq Nat \ {0}
      BY <2>1, <3>1 DEF IInv, TypeOK
    <3>3. QED
      BY <1>3, <3>2 DEF IInv, TypeOK, PastType
  <2>4. LogType' /\ DataType' /\ AllBacked'
    BY <1>2, <1>3, <2>2, AppliedKeeps
  <2>5. QED
    BY <2>2, <2>3, <2>4 DEF IInv, TypeOK, LogType, DataType, CallType, PastType
<1>6. QED
  BY <1>4, <1>5

LEMMA GetKeeps ==
  ASSUME IInv, NEW k \in Keys, Get(k)
  PROVE  IInv'
<1>1. LogType' /\ LogGrows /\ UNCHANGED <<logs, memory, dir, control>>
  BY LogTypeStays DEF Get
<1>2. CallType' /\ Steps' /\ task'.body = task.body
  BY <1>1 DEF IInv, TypeOK, CallType, Steps, control, logs
<1>3. PastType'
  BY DEF Get, IInv, TypeOK, PastType
<1>4. QED
  BY <1>1, <1>2, <1>3, QuietKeeps

-------------------------------------------------------------------------------
(* New and Reload.                                                          *)

LEMMA OpenKeeps ==
  ASSUME IInv, NEW n \in durable..Len(log), Open(n)
  PROVE  IInv'
<1>1. /\ up' = TRUE /\ log' = SubSeq(log, 1, n) /\ durable' = n /\ first' = kept /\ kept' = kept
      /\ task' = [NoTask EXCEPT !.op = "new"] /\ pc' = "load"
      /\ UNCHANGED <<memory, dir, history>>
  BY DEF Open, L!Restart
<1>2. /\ log \in Seq(Command) /\ durable \in Nat /\ durable <= n /\ n <= Len(log)
      /\ Len(log) \in Nat /\ n \in Nat /\ kept \in Nat \ {0}
  BY DEF IInv, TypeOK
<1>3. log' \in Seq(Command) /\ Len(log') = n /\ \A s \in 1..n : log'[s] = log[s]
  BY <1>1, <1>2
<1>4. LogGrows
  BY <1>1, <1>2, <1>3 DEF LogGrows
<1>5. LogType'
  <2>1. up' \in BOOLEAN
    BY <1>1, Zenon
  <2>2. durable' \in 0..Len(log')
    BY <1>1, <1>2, <1>3
  <2>3. QED
    BY <1>1, <1>2, <1>3, <2>1, <2>2 DEF LogType
<1>6. task' \in Task /\ task'.op = "new" /\ task'.body = NoFile
  <2>1. NoTask.body = NoFile
    BY DEF NoTask
  <2>2. QED
    BY <1>1, <2>1, NoTaskType DEF Task
<1>7. CallType'
  BY <1>1, <1>6 DEF CallType
<1>8. Steps'
  BY <1>1 DEF Steps
<1>9. QED
  BY <1>1, <1>4, <1>5, <1>6, <1>7, <1>8, PastStays, QuietKeeps

\* Nothing of memory is left: the empty map is backed by every log.
LEMMA EmptyKeeps ==
  ASSUME IInv, LogType', LogGrows, kv' = Empty, applied' = 0, DataType',
         \A p \in Paths : /\ files'[p] \in {files[p], settled[p], NoFile, BadFile}
                          /\ settled'[p] \in {files[p], settled[p], NoFile, BadFile},
         task'.body = NoFile
  PROVE  AllBacked'
<1>1. durable' \in Nat
  BY DEF LogGrows
<1>2. ASSUME NEW f \in SnapshotFile, Backed(f.applied, f.values)
      PROVE  f.applied <= durable' /\ Covered(log', f.applied, f.values)
  <2>1. f.applied \in Nat /\ f.values \in [Keys -> Nat]
    BY <1>2 DEF SnapshotFile
  <2>2. QED
    BY <1>2, <2>1, BackedKept DEF IInv
<1>3. ASSUME NEW p \in Paths,
             NEW f \in {files[p], settled[p], NoFile, BadFile}
      PROVE  f.applied <= durable' /\ Covered(log', f.applied, f.values)
  <2>1. /\ files[p] \in SnapshotFile /\ Backed(files[p].applied, files[p].values)
        /\ settled[p] \in SnapshotFile /\ Backed(settled[p].applied, settled[p].values)
    BY DEF IInv, TypeOK, AllBacked
  <2>2. CASE f = files[p]
    BY <1>2, <2>1, <2>2
  <2>3. CASE f = settled[p]
    BY <1>2, <2>1, <2>3
  <2>4. CASE f = NoFile \/ f = BadFile
    BY <1>1, <2>4 DEF NoFile, BadFile, Empty, Covered
  <2>5. QED
    BY <1>3, <2>2, <2>3, <2>4
<1>4. \A p \in Paths : /\ Backed(files[p].applied, files[p].values)'
                       /\ Backed(settled[p].applied, settled[p].values)'
  BY <1>3 DEF Backed
<1>5. Backed(applied, kv)' /\ Backed(task.body.applied, task.body.values)'
  BY <1>1 DEF Backed, Covered, Empty, NoFile
<1>6. QED
  BY <1>4, <1>5 DEF AllBacked

LEMMA ReloadKeeps ==
  ASSUME IInv, Reload
  PROVE  IInv'
<1>1. /\ up /\ up' = up /\ kv' = Empty /\ applied' = 0 /\ UNCHANGED <<logs, dir, history>>
      /\ task' = [NoTask EXCEPT !.op = "reload"] /\ pc' = "load"
  BY DEF Reload, Idle, logs
<1>2. task' \in Task /\ task'.op = "reload" /\ task'.body = NoFile
  <2>1. NoTask.body = NoFile
    BY DEF NoTask
  <2>2. QED
    BY <1>1, <2>1, NoTaskType DEF Task
<1>3. LogType' /\ LogGrows /\ PastType'
  BY <1>1, LogTypeStays, PastStays
<1>4. DataType'
  BY <1>1, NoTaskType DEF IInv, TypeOK, DataType, dir
<1>5. AllBacked'
  BY <1>1, <1>2, <1>3, <1>4, EmptyKeeps DEF dir
<1>6. CallType' /\ Steps'
  BY <1>1, <1>2 DEF CallType, Steps
<1>7. QED
  BY <1>3, <1>4, <1>5, <1>6 DEF IInv, TypeOK, LogType, DataType, CallType, PastType

LEMMA LoadSnapshotKeeps ==
  ASSUME IInv, LoadSnapshot
  PROVE  IInv'
<1>1. /\ up /\ pc = "load" /\ pc' = "flush" /\ UNCHANGED <<logs, dir, task, history>>
      /\ up' = up /\ log' = log /\ durable' = durable /\ files' = files /\ settled' = settled
      /\ task' = task /\ task.op # "none" /\ task \in Task
  BY DEF LoadSnapshot, logs, dir, IInv, TypeOK
<1>2. LogType' /\ PastType'
  BY <1>1, LogTypeStays, PastStays
<1>3. CallType' /\ Steps'
  BY <1>1 DEF CallType, Steps
<1>4. kv' \in [Keys -> Nat] /\ applied' \in Nat /\ Backed(applied, kv)'
  <2>1. /\ files[Primary] \in SnapshotFile /\ Backed(files[Primary].applied, files[Primary].values)
        /\ Backed(applied, kv) /\ kv \in [Keys -> Nat] /\ applied \in Nat
    BY NoTaskType DEF IInv, TypeOK, AllBacked
  <2>2. CASE files[Primary].kind = "ok"
    BY <1>1, <2>1, <2>2 DEF LoadSnapshot, SnapshotFile, Backed, Covered
  <2>3. CASE files[Primary].kind # "ok"
    BY <1>1, <2>1, <2>3 DEF LoadSnapshot, memory, Backed, Covered
  <2>4. QED
    BY <2>2, <2>3
<1>5. DataType'
  BY <1>1, <1>4 DEF IInv, TypeOK, DataType
<1>6. AllBacked'
  BY <1>1, <1>4 DEF IInv, AllBacked, Backed, Covered
<1>7. QED
  BY <1>2, <1>3, <1>5, <1>6 DEF IInv, TypeOK, LogType, DataType, CallType, PastType

LEMMA ReplayKeeps ==
  ASSUME IInv, Replay
  PROVE  IInv'
<1>1. LogType' /\ LogGrows /\ PastType'
  BY LogTypeFlushed, PastStays DEF Replay
<1>2. /\ up /\ up' = up /\ task \in Task /\ task.op # "none" /\ first \in Nat \ {0}
      /\ task' = [task EXCEPT !.next = first] /\ pc' = "replay" /\ UNCHANGED <<memory, dir>>
  BY DEF Replay, FlushLog, IInv, TypeOK
<1>3. task' \in Task /\ task'.op = task.op /\ task'.next = first /\ task'.body = task.body
  BY <1>2 DEF Task
<1>4. CallType' /\ Steps'
  BY <1>2, <1>3 DEF CallType, Steps
<1>5. QED
  BY <1>1, <1>2, <1>3, <1>4, QuietKeeps

LEMMA ReplayNextKeeps ==
  ASSUME IInv, ReplayNext
  PROVE  IInv'
<1>1. /\ up /\ up' = up /\ pc = "replay" /\ pc' = pc /\ task.next <= durable /\ Apply(task.next)
      /\ task' = [task EXCEPT !.next = @ + 1] /\ UNCHANGED <<logs, dir, history>>
  BY DEF ReplayNext, logs
<1>2. /\ task \in Task /\ task.op # "none" /\ task.next \in Nat \ {0}
      /\ durable \in Nat /\ durable <= Len(log) /\ Len(log) \in Nat
  BY <1>1 DEF IInv, TypeOK, Steps
<1>3. task' \in Task /\ task'.op = task.op /\ task'.next = task.next + 1 /\ task'.body = task.body
  <2>1. task.next + 1 \in Nat
    BY <1>2
  <2>2. QED
    BY <1>1, <1>2, <2>1 DEF Task
<1>4. CallType' /\ Steps'
  BY <1>1, <1>2, <1>3 DEF CallType, Steps
<1>5. LogType' /\ DataType' /\ AllBacked'
  <2>1. task.next \in 1..Len(log)
    BY <1>1, <1>2
  <2>2. QED
    BY <1>1, <1>3, <2>1, AppliedKeeps
<1>6. PastType'
  BY <1>1, PastStays
<1>7. QED
  BY <1>4, <1>5, <1>6 DEF IInv, TypeOK, LogType, DataType, CallType, PastType

-------------------------------------------------------------------------------
(* Snapshots.                                                               *)

LEMMA SnapshotKeeps ==
  ASSUME IInv, NEW p \in Paths, Snapshot(p)
  PROVE  IInv'
<1>1. LogType' /\ LogGrows /\ PastType'
  BY LogTypeFlushed, PastStays DEF Snapshot
<1>2. /\ up /\ up' = up /\ log' = log /\ UNCHANGED <<memory, dir>>
      /\ kv' = kv /\ applied' = applied /\ files' = files /\ settled' = settled
      /\ task' = [NoTask EXCEPT !.op = "snapshot", !.path = p, !.body = Body] /\ pc' = "rename"
  BY DEF Snapshot, FlushLog, Idle, memory, dir
<1>3. Body \in SnapshotFile /\ Body.applied = applied /\ Body.values = kv
  BY DEF IInv, TypeOK, Body, SnapshotFile
<1>4. task' \in Task /\ task'.op = "snapshot" /\ task'.body = Body
  BY <1>2, <1>3, NoTaskType DEF Task
<1>5. DataType'
  BY <1>2, QuietType
<1>6. CallType' /\ Steps'
  BY <1>2, <1>4 DEF CallType, Steps
<1>7. AllBacked'
  <2>1. ASSUME NEW seq \in Nat, NEW values \in [Keys -> Nat], Backed(seq, values)
        PROVE  seq <= durable' /\ Covered(log', seq, values)
    BY <1>1, <2>1, BackedKept DEF IInv
  <2>2. Backed(applied, kv)' /\ Backed(task.body.applied, task.body.values)'
    <3>1. applied \in Nat /\ kv \in [Keys -> Nat] /\ Backed(applied, kv)
      BY DEF IInv, TypeOK, AllBacked
    <3>2. QED
      BY <1>2, <1>3, <1>4, <2>1, <3>1 DEF Backed
  <2>3. ASSUME NEW q \in Paths
        PROVE  /\ Backed(files[q].applied, files[q].values)'
               /\ Backed(settled[q].applied, settled[q].values)'
    <3>1. /\ files[q] \in SnapshotFile /\ Backed(files[q].applied, files[q].values)
          /\ settled[q] \in SnapshotFile /\ Backed(settled[q].applied, settled[q].values)
      BY DEF IInv, TypeOK, AllBacked
    <3>2. /\ files[q].applied \in Nat /\ files[q].values \in [Keys -> Nat]
          /\ settled[q].applied \in Nat /\ settled[q].values \in [Keys -> Nat]
      BY <3>1 DEF SnapshotFile
    <3>3. QED
      BY <1>2, <2>1, <3>1, <3>2 DEF Backed
  <2>4. QED
    BY <2>2, <2>3 DEF AllBacked
<1>8. QED
  BY <1>1, <1>5, <1>6, <1>7 DEF IInv, TypeOK, LogType, DataType, CallType, PastType

\* Snapshot files that come from backed ones are backed.
LEMMA FilesKeep ==
  ASSUME IInv, UNCHANGED <<logs, memory>>,
         files' \in [Paths -> SnapshotFile], settled' \in [Paths -> SnapshotFile],
         \A p \in Paths : /\ files'[p] \in {files[p], settled[p], task.body, NoFile, BadFile}
                          /\ settled'[p] \in {files[p], settled[p], task.body, NoFile, BadFile},
         task'.body \in {task.body, NoFile}
  PROVE  LogType' /\ DataType' /\ AllBacked'
<1>1. LogType' /\ durable' = durable /\ log' = log /\ kv' = kv /\ applied' = applied
      /\ durable \in Nat
  BY LogTypeStays DEF logs, memory, IInv, TypeOK
<1>2. DataType'
  BY <1>1 DEF IInv, TypeOK, DataType
<1>3. ASSUME NEW p \in Paths, NEW f \in {files[p], settled[p], task.body, NoFile, BadFile}
      PROVE  f.applied <= durable' /\ Covered(log', f.applied, f.values)
  <2>1. CASE f \in {NoFile, BadFile}
    BY <1>1, <2>1 DEF NoFile, BadFile, Empty, Covered
  <2>2. CASE f \in {files[p], settled[p], task.body}
    BY <1>1, <2>2 DEF IInv, AllBacked, Backed
  <2>3. QED
    BY <1>3, <2>1, <2>2
<1>4. \A p \in Paths : /\ Backed(files[p].applied, files[p].values)'
                       /\ Backed(settled[p].applied, settled[p].values)'
  BY <1>3 DEF Backed
<1>5. Backed(applied, kv)' /\ Backed(task.body.applied, task.body.values)'
  BY <1>1, <1>3, NoTaskType DEF IInv, AllBacked, Backed
<1>6. QED
  BY <1>1, <1>2, <1>4, <1>5 DEF AllBacked

LEMMA RenameKeeps ==
  ASSUME IInv, Rename
  PROVE  IInv'
<1>1. /\ up /\ up' = up /\ task' = task /\ pc = "rename" /\ pc' = "syncdir"
      /\ files' = [files EXCEPT ![task.path] = task.body]
      /\ settled' = settled /\ UNCHANGED <<logs, memory, history>>
  BY DEF Rename, logs
<1>2. /\ files \in [Paths -> SnapshotFile] /\ settled \in [Paths -> SnapshotFile]
      /\ task \in Task /\ task.op # "none" /\ task.body \in SnapshotFile
  BY <1>1 DEF IInv, TypeOK, Task
<1>3. LogType' /\ DataType' /\ AllBacked'
  BY <1>1, <1>2, FilesKeep
<1>4. CallType' /\ Steps' /\ PastType'
  BY <1>1, <1>2, PastStays DEF CallType, Steps
<1>5. QED
  BY <1>3, <1>4 DEF IInv, TypeOK, LogType, DataType, CallType, PastType

LEMMA SyncDirKeeps ==
  ASSUME IInv, SyncDir
  PROVE  IInv'
<1>1. /\ Return /\ UNCHANGED <<logs, memory, files, acked, seen>>
      /\ settled' = [p \in Paths |-> IF (p = Primary) = (task.path = Primary)
                                     THEN files[p] ELSE settled[p]]
      /\ watermark' \in {task.body.applied, watermark}
  BY DEF SyncDir
<1>2. /\ files \in [Paths -> SnapshotFile] /\ settled \in [Paths -> SnapshotFile]
      /\ task.body \in SnapshotFile /\ task.body.applied \in Nat
  BY DEF IInv, TypeOK, Task, SnapshotFile
<1>3. CallType' /\ Steps' /\ task'.body = NoFile
  BY <1>1, Returned
<1>4. LogType' /\ DataType' /\ AllBacked'
  <2>1. settled' \in [Paths -> SnapshotFile]
    BY <1>1, <1>2
  <2>2. \A p \in Paths : settled'[p] \in {files[p], settled[p]}
    BY <1>1
  <2>3. QED
    BY <1>1, <1>2, <1>3, <2>1, <2>2, FilesKeep
<1>5. PastType'
  BY <1>1, <1>2 DEF IInv, TypeOK, PastType
<1>6. QED
  BY <1>3, <1>4, <1>5 DEF IInv, TypeOK, LogType, DataType, CallType, PastType

LEMMA SnapshotFailsKeeps ==
  ASSUME IInv, SnapshotFails
  PROVE  IInv'
<1>1. Return /\ UNCHANGED <<logs, memory, dir, history>>
  BY DEF SnapshotFails
<1>2. QED
  BY <1>1, LogTypeStays, PastStays, Returned, QuietKeeps

LEMMA DeleteSnapshotKeeps ==
  ASSUME IInv, NEW name \in Names, DeleteSnapshot(name)
  PROVE  IInv'
<1>1. /\ up /\ up' = up /\ UNCHANGED <<logs, memory, history>> /\ settled' = settled
      /\ files' = [files EXCEPT ![name] = NoFile] /\ pc' = "syncdir"
      /\ task' = [NoTask EXCEPT !.op = "remove", !.path = name]
  BY DEF DeleteSnapshot, Idle, logs
<1>2. task' \in Task /\ task'.op = "remove" /\ task'.body = NoFile
  <2>1. NoTask.body = NoFile /\ name \in Paths
    BY DEF NoTask, Paths
  <2>2. QED
    BY <1>1, <2>1, NoTaskType DEF Task
<1>3. files \in [Paths -> SnapshotFile] /\ settled \in [Paths -> SnapshotFile]
  BY DEF IInv, TypeOK
<1>4. LogType' /\ DataType' /\ AllBacked'
  BY <1>1, <1>2, <1>3, NoTaskType, FilesKeep
<1>5. CallType' /\ Steps' /\ PastType'
  BY <1>1, <1>2, PastStays DEF CallType, Steps
<1>6. QED
  BY <1>4, <1>5 DEF IInv, TypeOK, LogType, DataType, CallType, PastType

-------------------------------------------------------------------------------
(* The log's other callers, and the environment.                            *)

LEMMA LogCallersKeep ==
  ASSUME IInv, FlushBehind \/ Recover
               \/ \E before \in 1..MaxSeq + 1 : \E gone \in kept..before : Clean(before, gone)
  PROVE  IInv'
<1>1. /\ LogFree /\ log' = log /\ up' = up /\ durable' = Len(log)
      /\ UNCHANGED <<memory, dir, control, history>>
  BY DEF FlushBehind, Recover, Clean, FlushLog, L!Force
<1>2. LogGrows
  BY <1>1, LogFlushed DEF IInv, FlushLog
<1>3. LogType'
  <2>1. /\ kept \in Nat \ {0} /\ first \in Nat \ {0} /\ kept <= first
        /\ log \in Seq(Command) /\ Len(log) \in Nat /\ up \in BOOLEAN
    BY DEF IInv, TypeOK
  <2>2. kept' \in Nat \ {0} /\ first' \in Nat \ {0} /\ kept' <= first'
    <3>1. CASE FlushBehind
      BY <2>1, <3>1 DEF FlushBehind
    <3>2. CASE Recover
      BY <2>1, <3>2 DEF Recover
    <3>3. CASE \E before \in 1..MaxSeq + 1 : \E gone \in kept..before : Clean(before, gone)
      <4>1. PICK before \in 1..MaxSeq + 1 : \E gone \in kept..before : Clean(before, gone)
        BY <3>3
      <4>2. PICK gone \in kept..before : Clean(before, gone)
        BY <4>1
      <4>3. kept' = gone /\ first' = IF before > first THEN before ELSE first
        BY <4>2 DEF Clean
      <4>4. before \in Int /\ gone \in Int /\ kept <= gone /\ gone <= before
        BY <2>1, StoreAssumption
      <4>5. QED
        BY <2>1, <4>3, <4>4
    <3>4. QED
      BY <3>1, <3>2, <3>3
  <2>3. durable' \in 0..Len(log') /\ log' \in Seq(Command)
    BY <1>1, <2>1
  <2>4. up' \in BOOLEAN
    BY <1>1, <2>1, Zenon
  <2>5. QED
    BY <2>2, <2>3, <2>4 DEF LogType
<1>4. CallType' /\ Steps' /\ task'.body = task.body
  <2>1. task' = task /\ pc' = pc /\ pc # "force" /\ Len(log) \in Nat
    BY <1>1 DEF control, LogFree, IInv, TypeOK
  <2>2. CallType'
    BY <1>1, <2>1 DEF CallType, IInv, TypeOK
  <2>3. Steps'
    <3>1. \A i \in 1..Len(task.seqs) : task.seqs[i] \in 1..Len(log) => task.seqs[i] <= durable'
      BY <1>1, <2>1
    <3>2. QED
      BY <1>1, <2>1, <3>1 DEF Steps, IInv
  <2>4. QED
    BY <2>1, <2>2, <2>3
<1>5. QED
  BY <1>1, <1>2, <1>3, <1>4, PastStays, QuietKeeps

LEMMA ProcessCrashKeeps ==
  ASSUME IInv, ProcessCrash
  PROVE  IInv'
<1>1. /\ kv' = Empty /\ applied' = 0 /\ Return /\ UNCHANGED <<dir, history>>
      /\ log' = log /\ durable' = durable /\ up' = FALSE /\ first' = first /\ kept' = kept
  BY DEF ProcessCrash, Dies, L!Stop
<1>2. LogType' /\ LogGrows
  <2>1. LogGrows
    BY <1>1, LogStays DEF IInv
  <2>2. up' \in BOOLEAN
    BY <1>1, Zenon
  <2>3. QED
    BY <1>1, <2>1, <2>2 DEF LogType, IInv, TypeOK
<1>3. CallType' /\ Steps' /\ task'.body = NoFile /\ PastType'
  BY <1>1, Returned, PastStays
<1>4. DataType'
  BY <1>1, NoTaskType DEF IInv, TypeOK, DataType, dir
<1>5. AllBacked'
  BY <1>1, <1>2, <1>3, <1>4, EmptyKeeps DEF dir
<1>6. QED
  BY <1>2, <1>3, <1>4, <1>5 DEF IInv, TypeOK, LogType, DataType, CallType, PastType

LEMMA PowerLossKeeps ==
  ASSUME IInv, PowerLoss
  PROVE  IInv'
<1>1. /\ kv' = Empty /\ applied' = 0 /\ Return /\ UNCHANGED history /\ settled' = files'
      /\ log' = log /\ durable' = durable /\ up' = FALSE /\ first' = first /\ kept' = kept
  BY DEF PowerLoss, Dies
<1>2. LogType' /\ LogGrows
  <2>1. LogGrows
    BY <1>1, LogStays DEF IInv
  <2>2. up' \in BOOLEAN
    BY <1>1, Zenon
  <2>3. QED
    BY <1>1, <2>1, <2>2 DEF LogType, IInv, TypeOK
<1>3. CallType' /\ Steps' /\ task'.body = NoFile /\ PastType'
  BY <1>1, Returned, PastStays
<1>4. /\ files' \in [Paths -> SnapshotFile]
      /\ \A p \in Paths : files'[p] \in {files[p], settled[p]}
  <2>1. PICK lost \in SUBSET Paths :
          files' = [p \in Paths |-> IF p \in lost THEN settled[p] ELSE files[p]]
    BY DEF PowerLoss
  <2>2. files \in [Paths -> SnapshotFile] /\ settled \in [Paths -> SnapshotFile]
    BY DEF IInv, TypeOK
  <2>3. QED
    BY <2>1, <2>2
<1>5. DataType'
  BY <1>1, <1>4, NoTaskType DEF DataType
<1>6. AllBacked'
  BY <1>1, <1>2, <1>3, <1>4, <1>5, EmptyKeeps
<1>7. QED
  BY <1>2, <1>3, <1>5, <1>6 DEF IInv, TypeOK, LogType, DataType, CallType, PastType

LEMMA DamageKeeps ==
  ASSUME IInv, Damage
  PROVE  IInv'
<1>1. /\ UNCHANGED <<logs, memory, control, history>> /\ task' = task /\ pc' = pc
      /\ up' = up /\ log' = log /\ durable' = durable
      /\ files' = [files EXCEPT ![Primary] = BadFile]
      /\ settled' = [settled EXCEPT ![Primary] = BadFile]
  BY DEF Damage, logs, control
<1>2. files \in [Paths -> SnapshotFile] /\ settled \in [Paths -> SnapshotFile]
  BY DEF IInv, TypeOK
<1>3. LogType' /\ DataType' /\ AllBacked'
  BY <1>1, <1>2, NoTaskType, FilesKeep
<1>4. CallType' /\ Steps' /\ PastType'
  BY <1>1, PastStays DEF CallType, Steps, IInv, TypeOK
<1>5. QED
  BY <1>3, <1>4 DEF IInv, TypeOK, LogType, DataType, CallType, PastType

-------------------------------------------------------------------------------
(* The invariant is inductive.                                              *)

LEMMA InitEstablishes ==
  ASSUME Init
  PROVE  IInv
<1>1. /\ log = <<>> /\ durable = 0 /\ up = FALSE /\ first = 1 /\ kept = 1
      /\ kv = Empty /\ applied = 0 /\ task = NoTask /\ pc = "idle"
      /\ files = [p \in Paths |-> NoFile] /\ settled = files
      /\ acked = {} /\ seen = Empty /\ watermark = 0
  BY DEF Init, L!Init
<1>2. LogType
  <2>1. up \in BOOLEAN
    BY <1>1, Zenon
  <2>2. log \in Seq(Command) /\ Len(log) = 0
    BY <1>1
  <2>3. QED
    BY <1>1, <2>1, <2>2 DEF LogType
<1>3. DataType /\ PastType
  BY <1>1, NoTaskType DEF DataType, PastType
<1>4. CallType
  <2>1. NoTask.op = "none"
    BY DEF NoTask
  <2>2. QED
    BY <1>1, <2>1, NoTaskType DEF CallType
<1>5. AllBacked
  <2>1. Covered(log, 0, Empty)
    BY DEF Covered, Empty
  <2>2. NoFile.applied = 0 /\ NoFile.values = Empty /\ NoTask.body = NoFile
    BY DEF NoFile, NoTask
  <2>3. QED
    BY <1>1, <2>1, <2>2 DEF AllBacked, Backed
<1>6. Steps
  BY <1>1 DEF Steps
<1>7. QED
  BY <1>2, <1>3, <1>4, <1>5, <1>6 DEF IInv, TypeOK, LogType, DataType, CallType, PastType

LEMMA StutterKeeps ==
  ASSUME IInv, UNCHANGED vars
  PROVE  IInv'
<1>1. UNCHANGED <<logs, memory, dir, control, history>>
  BY DEF vars
<1>2. CallType' /\ Steps' /\ task'.body = task.body
  BY <1>1 DEF IInv, TypeOK, CallType, Steps, control, logs
<1>3. QED
  BY <1>1, <1>2, LogTypeStays, PastStays, QuietKeeps

LEMMA NextKeeps ==
  ASSUME IInv, Next
  PROVE  IInv'
<1>1. CASE \E cmd \in Command : Update(cmd)
  BY <1>1, UpdateKeeps
<1>2. CASE \E cmds \in Batches : SetBatch(cmds)
  <2>1. Batches \subseteq Seq(Command)
    <3>1. SUFFICES ASSUME NEW n \in 1..MaxBatch,
                          NEW cmds \in [1..n -> {SetOf(k) : k \in Keys}]
                   PROVE  cmds \in Seq(Command)
      BY DEF Batches
    <3>2. {SetOf(k) : k \in Keys} \subseteq Command
      BY DEF SetOf, Command
    <3>3. n \in Nat /\ cmds \in [1..n -> Command]
      BY <3>1, <3>2, StoreAssumption
    <3>4. QED
      BY <3>3
  <2>2. QED
    BY <1>2, <2>1, SetBatchKeeps
<1>3. CASE BatchAppend \/ Forced \/ BatchSync \/ ApplyNext
  BY <1>3, BatchAppendKeeps, ForcedKeeps, BatchSyncKeeps, ApplyNextKeeps
<1>4. CASE ForceFails \/ AppendFails \/ BatchSyncFails \/ ReplayReturns \/ ReloadFails
  BY <1>4, ErrorsKeep
<1>5. CASE \E k \in Keys : Get(k)
  BY <1>5, GetKeeps
<1>6. CASE \E n \in durable..Len(log) : Open(n)
  BY <1>6, OpenKeeps
<1>7. CASE Reload \/ LoadSnapshot \/ Replay \/ ReplayNext
  BY <1>7, ReloadKeeps, LoadSnapshotKeeps, ReplayKeeps, ReplayNextKeeps
<1>8. CASE \E p \in Paths : Snapshot(p)
  BY <1>8, SnapshotKeeps
<1>9. CASE Rename \/ SyncDir \/ SnapshotFails
  BY <1>9, RenameKeeps, SyncDirKeeps, SnapshotFailsKeeps
<1>10. CASE \E name \in Names : DeleteSnapshot(name)
  BY <1>10, DeleteSnapshotKeeps
<1>11. CASE FlushBehind \/ Recover
            \/ \E before \in 1..MaxSeq + 1 : \E gone \in kept..before : Clean(before, gone)
  BY <1>11, LogCallersKeep
<1>12. CASE ProcessCrash \/ PowerLoss \/ Damage
  BY <1>12, ProcessCrashKeeps, PowerLossKeeps, DamageKeeps
<1>13. QED
  BY <1>1, <1>2, <1>3, <1>4, <1>5, <1>6, <1>7, <1>8, <1>9, <1>10, <1>11, <1>12 DEF Next

-------------------------------------------------------------------------------
(* The theorems.                                                            *)

\* The invariant holds in every state, whatever fails, for any number of keys,
\* commands, batches and archives (store.go, snapshot.go).
THEOREM Inductive == Spec => []IInv
<1>1. Init => IInv
  BY InitEstablishes
<1>2. IInv /\ [Next]_vars => IInv'
  BY NextKeeps, StutterKeeps
<1>3. QED
  BY <1>1, <1>2, PTL DEF Spec

\* Every variable keeps its type, and writeMu is held exactly while a call is
\* under way, on every error path (store.go, snapshot.go).
THEOREM TypeCorrect == Spec => []TypeOK
<1>1. IInv => TypeOK
  BY DEF IInv
<1>2. QED
  BY <1>1, Inductive, PTL

\* Memory shows only commands that the log has made durable, in every step of an
\* update, a batch, a reload and a restart (Set, SetBatch, Delete, Apply, New).
THEOREM AlwaysWalBeforeMemory == Spec => []WalBeforeMemory
<1>1. IInv => WalBeforeMemory
  BY DEF IInv, AllBacked, Backed, Covered, WalBeforeMemory, Sourced
<1>2. QED
  BY <1>1, Inductive, PTL

-------------------------------------------------------------------------------
(* The log reaches back to the snapshot.                                    *)

LEMMA WatermarkStays ==
  ASSUME Watermarked, UNCHANGED <<dir, watermark>>,
         kept' <= watermark + 1, first' <= watermark + 1,
         up' /\ pc' # "load" => watermark <= applied',
         pc' \notin {"rename", "syncdir"} \/ UNCHANGED <<control, memory>>
  PROVE  Watermarked'
<1>1. files' = files /\ settled' = settled /\ watermark' = watermark
  BY DEF dir
<1>2. CASE pc' \notin {"rename", "syncdir"}
  BY <1>1, <1>2 DEF Watermarked
<1>3. CASE UNCHANGED <<control, memory>>
  BY <1>1, <1>3 DEF Watermarked, control, memory
<1>4. QED
  BY <1>2, <1>3

\* Updates, reads, and the steps of a replay: memory only moves forward.
LEMMA ForwardWatermarked ==
  ASSUME IInv, Watermarked, UNCHANGED <<first, kept, dir, watermark>>,
         applied <= applied', applied' \in Nat, up, pc # "load",
         pc' \notin {"rename", "syncdir"}
  PROVE  Watermarked'
<1>1. watermark <= applied /\ applied \in Nat /\ watermark \in Nat
  BY DEF Watermarked, IInv, TypeOK
<1>2. kept' <= watermark + 1 /\ first' <= watermark + 1 /\ watermark <= applied'
  BY <1>1 DEF Watermarked
<1>3. QED
  BY <1>2, WatermarkStays

LEMMA CallsWatermarked ==
  ASSUME IInv, Watermarked, Reliable,
         \/ \E cmd \in Command : Update(cmd)
         \/ \E cmds \in Batches : SetBatch(cmds)
         \/ BatchAppend \/ Forced \/ ForceFails \/ AppendFails \/ BatchSync \/ BatchSyncFails
         \/ ApplyNext \/ Replay \/ ReplayNext \/ ReplayReturns \/ SnapshotFails
  PROVE  Watermarked'
<1>1. CASE ApplyNext
  <2>1. /\ up /\ pc = "apply" /\ UNCHANGED <<first, kept, dir, watermark>>
        /\ pc' \in {"apply", "idle"} /\ UNCHANGED logs /\ Apply(task.seqs[task.next])
    BY <1>1 DEF ApplyNext, Return, logs
  <2>2. task.seqs[task.next] \in 1..Len(log) /\ task.seqs[task.next] <= durable
    <3>1. /\ task.next \in Nat \ {0} /\ task.next <= Len(task.seqs) /\ task.seqs \in Seq(Nat)
          /\ \A i \in 1..Len(task.seqs) : task.seqs[i] \in 1..Len(log) /\ task.seqs[i] <= durable
      BY <2>1 DEF IInv, TypeOK, Steps, Task
    <3>2. QED
      BY <3>1
  <2>3. applied <= applied' /\ applied' \in Nat
    BY <2>1, <2>2, ApplyBacked DEF IInv, AllBacked
  <2>4. QED
    BY <2>1, <2>3, ForwardWatermarked
<1>2. CASE ReplayNext
  <2>1. /\ up /\ pc = "replay" /\ pc' = pc /\ UNCHANGED <<first, kept, dir, watermark>>
        /\ UNCHANGED logs /\ Apply(task.next) /\ task.next <= durable
    BY <1>2 DEF ReplayNext, logs, history
  <2>2. task.next \in 1..Len(log)
    BY <2>1 DEF IInv, TypeOK, Steps
  <2>3. applied <= applied' /\ applied' \in Nat
    BY <2>1, <2>2, ApplyBacked DEF IInv, AllBacked
  <2>4. QED
    BY <2>1, <2>3, ForwardWatermarked
<1>3. CASE ~ApplyNext /\ ~ReplayNext
  <2>1. /\ up /\ pc # "load" /\ UNCHANGED <<first, kept, memory, dir, history>>
        /\ pc' \notin {"rename", "syncdir"}
    <3>1. CASE \E cmd \in Command : Update(cmd)
      BY <3>1 DEF Update, Idle
    <3>2. CASE \E cmds \in Batches : SetBatch(cmds)
      BY <3>2 DEF SetBatch, Idle, logs
    <3>3. CASE BatchAppend \/ Forced \/ BatchSync \/ Replay
      BY <3>3 DEF BatchAppend, Forced, BatchSync, Replay
    <3>4. CASE ForceFails \/ AppendFails \/ BatchSyncFails \/ ReplayReturns \/ SnapshotFails
      BY <3>4 DEF ForceFails, AppendFails, BatchSyncFails, ReplayReturns, SnapshotFails, Return, logs
    <3>5. QED
      BY <1>3, <3>1, <3>2, <3>3, <3>4
  <2>2. applied' = applied /\ watermark' = watermark /\ applied \in Nat
    BY <2>1 DEF memory, history, IInv, TypeOK
  <2>3. QED
    BY <2>1, <2>2, ForwardWatermarked
<1>4. QED
  BY <1>1, <1>2, <1>3

LEMMA RestartWatermarked ==
  ASSUME IInv, Watermarked, Reliable,
         (\E n \in durable..Len(log) : Open(n)) \/ Reload \/ LoadSnapshot \/ ReloadFails
  PROVE  Watermarked'
<1>1. CASE (\E n \in durable..Len(log) : Open(n)) \/ Reload
  <2>1. pc' = "load" /\ UNCHANGED <<dir, watermark>> /\ kept' = kept /\ first' \in {first, kept}
    BY <1>1 DEF Open, Reload, logs, history
  <2>2. kept' <= watermark + 1 /\ first' <= watermark + 1
    BY <2>1 DEF Watermarked
  <2>3. QED
    BY <2>1, <2>2, WatermarkStays
<1>2. CASE LoadSnapshot
  <2>1. /\ pc' = "flush" /\ UNCHANGED <<dir, watermark>> /\ kept' = kept /\ first' = first
        /\ applied' = IF files[Primary].kind = "ok" THEN files[Primary].applied ELSE applied
    BY <1>2 DEF LoadSnapshot, logs, history, memory
  <2>2. /\ watermark <= files[Primary].applied
        /\ files[Primary].kind # "ok" => files[Primary].applied = 0
        /\ applied \in Nat /\ watermark \in Nat
    BY DEF Watermarked, IInv, TypeOK
  <2>3. watermark <= applied'
    BY <2>1, <2>2
  <2>4. kept' <= watermark + 1 /\ first' <= watermark + 1
    BY <2>1 DEF Watermarked
  <2>5. QED
    BY <2>1, <2>3, <2>4, WatermarkStays
<1>3. CASE ReloadFails
  BY <1>3 DEF ReloadFails, Reliable
<1>4. QED
  BY <1>1, <1>2, <1>3

LEMMA CallersWatermarked ==
  ASSUME IInv, Watermarked, Reliable,
         \/ \E k \in Keys : Get(k)
         \/ FlushBehind \/ Recover
         \/ \E before \in 1..MaxSeq + 1 : \E gone \in kept..before : Clean(before, gone)
         \/ Damage
  PROVE  Watermarked'
<1>1. CASE \E k \in Keys : Get(k)
  BY <1>1, WatermarkStays DEF Get, logs, memory, control, Watermarked
<1>2. CASE FlushBehind
  BY <1>2, WatermarkStays DEF FlushBehind, memory, control, history, Watermarked, L!Force
<1>3. CASE Recover
  BY <1>3, WatermarkStays DEF Recover, FlushLog, memory, control, history, Watermarked
<1>4. CASE \E before \in 1..MaxSeq + 1 : \E gone \in kept..before : Clean(before, gone)
  <2>1. PICK before \in 1..MaxSeq + 1 : \E gone \in kept..before : Clean(before, gone)
    BY <1>4
  <2>2. PICK gone \in kept..before : Clean(before, gone)
    BY <2>1
  <2>3. /\ kept' = gone /\ first' = IF before > first THEN before ELSE first
        /\ before <= watermark + 1 /\ up' = up /\ UNCHANGED <<memory, dir, control, history>>
    BY <2>2 DEF Clean, FlushLog
  <2>4. before \in Int /\ kept \in Int /\ watermark \in Nat
    BY StoreAssumption DEF IInv, TypeOK
  <2>5. kept' <= watermark + 1 /\ first' <= watermark + 1
    <3>1. gone <= before /\ gone \in Int /\ first \in Int /\ first <= watermark + 1
      BY <2>4 DEF Watermarked, IInv, TypeOK
    <3>2. QED
      BY <2>3, <2>4, <3>1
  <2>6. up' /\ pc' # "load" => watermark <= applied'
    BY <2>3 DEF Watermarked, memory, control
  <2>7. QED
    BY <2>3, <2>5, <2>6, WatermarkStays DEF history
<1>5. CASE Damage
  BY <1>5 DEF Damage, Reliable
<1>6. QED
  BY <1>1, <1>2, <1>3, <1>4, <1>5

LEMMA SnapshotsWatermarked ==
  ASSUME IInv, Watermarked, (\E p \in Paths : Snapshot(p)) \/ Rename \/ SyncDir
                            \/ \E name \in Names : DeleteSnapshot(name)
  PROVE  Watermarked'
<1>1. /\ files \in [Paths -> SnapshotFile] /\ settled \in [Paths -> SnapshotFile]
      /\ task.body \in SnapshotFile /\ applied \in Nat /\ watermark \in Nat
      /\ Primary \in Paths /\ Primary \notin Names
  BY NoTaskType, StoreAssumption DEF IInv, TypeOK, Task
<1>2. CASE \E p \in Paths : Snapshot(p)
  <2>1. PICK p \in Paths : Snapshot(p)
    BY <1>2
  <2>2. /\ up /\ pc = "idle" /\ pc' = "rename" /\ first' = first /\ kept' = kept
        /\ applied' = applied /\ files' = files /\ settled' = settled /\ watermark' = watermark
        /\ task'.body = Body
    BY <2>1 DEF Snapshot, Idle, memory, dir, history, NoTask
  <2>3. Body.applied = applied /\ Body.kind = "ok" /\ watermark <= applied
    BY <2>2 DEF Body, Watermarked
  <2>4. QED
    BY <1>1, <2>2, <2>3 DEF Watermarked
<1>3. CASE Rename
  <2>1. /\ up /\ pc = "rename" /\ pc' = "syncdir" /\ task' = task /\ first' = first
        /\ kept' = kept /\ applied' = applied /\ settled' = settled /\ watermark' = watermark
        /\ files' = [files EXCEPT ![task.path] = task.body]
    BY <1>3 DEF Rename, logs, memory, history
  <2>2. files'[Primary] = IF task.path = Primary THEN task.body ELSE files[Primary]
    BY <1>1, <2>1
  <2>3. watermark <= files'[Primary].applied /\ (files'[Primary].kind # "ok" => files'[Primary].applied = 0)
    BY <2>1, <2>2 DEF Watermarked
  <2>4. QED
    BY <2>1, <2>2, <2>3 DEF Watermarked
<1>4. CASE SyncDir
  <2>1. /\ up /\ pc = "syncdir" /\ pc' = "idle" /\ first' = first /\ kept' = kept
        /\ applied' = applied /\ files' = files
        /\ settled' = [p \in Paths |-> IF (p = Primary) = (task.path = Primary)
                                       THEN files[p] ELSE settled[p]]
        /\ watermark' = IF task.op = "snapshot" /\ task.path = Primary
                           /\ task.body.applied > watermark
                        THEN task.body.applied ELSE watermark
    BY <1>4 DEF SyncDir, Return, logs, memory
  <2>2. settled'[Primary] = IF task.path = Primary THEN files[Primary] ELSE settled[Primary]
    BY <1>1, <2>1
  <2>3. /\ watermark <= watermark' /\ watermark' \in Nat
        /\ watermark' = watermark \/ (task.path = Primary /\ watermark' = task.body.applied)
    BY <1>1, <2>1 DEF SnapshotFile
  <2>4. task.path = Primary => files[Primary].applied = task.body.applied
    BY <2>1 DEF Watermarked
  <2>5. /\ watermark' <= files[Primary].applied /\ watermark' <= settled'[Primary].applied
        /\ watermark' <= applied
    <3>1. CASE watermark' = watermark
      BY <2>1, <2>2, <3>1 DEF Watermarked
    <3>2. CASE task.path = Primary /\ watermark' = task.body.applied
      BY <1>1, <2>1, <2>2, <2>4, <3>2 DEF Watermarked, SnapshotFile
    <3>3. QED
      BY <2>3, <3>1, <3>2
  <2>6. kept' <= watermark' + 1 /\ first' <= watermark' + 1
    BY <1>1, <2>1, <2>3 DEF Watermarked, IInv, TypeOK
  <2>7. \A f \in {files[Primary], settled'[Primary]} : f.kind # "ok" => f.applied = 0
    BY <2>2 DEF Watermarked
  <2>8. QED
    BY <2>1, <2>5, <2>6, <2>7 DEF Watermarked
<1>5. CASE \E name \in Names : DeleteSnapshot(name)
  <2>1. PICK name \in Names : DeleteSnapshot(name)
    BY <1>5
  <2>2. /\ up /\ pc = "idle" /\ pc' = "syncdir" /\ first' = first /\ kept' = kept
        /\ applied' = applied /\ settled' = settled /\ watermark' = watermark
        /\ files' = [files EXCEPT ![name] = NoFile] /\ task'.path = name
    BY <2>1, NoTaskType DEF DeleteSnapshot, Idle, logs, memory, history, NoTask
  <2>3. files'[Primary] = files[Primary] /\ task'.path # Primary
    BY <1>1, <2>2
  <2>4. QED
    BY <2>2, <2>3 DEF Watermarked
<1>6. QED
  BY <1>2, <1>3, <1>4, <1>5

LEMMA CrashWatermarked ==
  ASSUME IInv, Watermarked, ProcessCrash \/ PowerLoss
  PROVE  Watermarked'
<1>1. /\ up' = FALSE /\ pc' = "idle" /\ first' = first /\ kept' = kept /\ watermark' = watermark
  BY DEF ProcessCrash, PowerLoss, Dies, Return, history, L!Stop
<1>2. /\ files'[Primary] \in {files[Primary], settled[Primary]}
      /\ settled'[Primary] \in {files[Primary], settled[Primary]}
  <2>1. CASE ProcessCrash
    BY <2>1 DEF ProcessCrash, dir
  <2>2. CASE PowerLoss
    <3>1. PICK lost \in SUBSET Paths :
            files' = [p \in Paths |-> IF p \in lost THEN settled[p] ELSE files[p]]
      BY <2>2 DEF PowerLoss
    <3>2. settled' = files' /\ Primary \in Paths
      BY <2>2, NoTaskType DEF PowerLoss
    <3>3. QED
      BY <3>1, <3>2
  <2>3. QED
    BY <2>1, <2>2
<1>3. QED
  BY <1>1, <1>2 DEF Watermarked

LEMMA WatermarkedKept ==
  ASSUME IInv, Watermarked, Reliable, Next
  PROVE  Watermarked'
BY CallsWatermarked, RestartWatermarked, CallersWatermarked, SnapshotsWatermarked,
   CrashWatermarked DEF Next

\* As long as no reload fails and nothing damages the snapshot, a caller that cleans
\* the log up to a watermark Snapshot returned never opens a gap between the snapshot
\* a restart finds and the log (writeSnapshot, writeAtomic, CleanOldSegments).
THEOREM AlwaysNoGap ==
  ASSUME Reliable
  PROVE  Spec => []NoGap
<1>1. Init => Watermarked
  <2>1. SUFFICES ASSUME Init
                 PROVE  Watermarked
    OBVIOUS
  <2>2. /\ up = FALSE /\ first = 1 /\ kept = 1 /\ watermark = 0 /\ pc = "idle"
        /\ files[Primary] = NoFile /\ settled[Primary] = NoFile
    BY <2>1, NoTaskType DEF Init, L!Init
  <2>3. NoFile.applied = 0
    BY DEF NoFile
  <2>4. QED
    BY <2>2, <2>3 DEF Watermarked
<1>2. IInv /\ Watermarked /\ [Next]_vars => Watermarked'
  <2>1. ASSUME Watermarked, UNCHANGED vars
        PROVE  Watermarked'
    BY <2>1 DEF Watermarked, vars, logs, memory, dir, control, history
  <2>2. QED
    BY <2>1, WatermarkedKept
<1>3. IInv /\ Watermarked => NoGap
  <2>1. SUFFICES ASSUME IInv, Watermarked,
                        NEW f \in {files[Primary], settled[Primary]}
                 PROVE  kept <= f.applied + 1 /\ first <= f.applied + 1
    BY DEF NoGap
  <2>2. /\ files[Primary] \in SnapshotFile /\ settled[Primary] \in SnapshotFile
        /\ watermark \in Nat /\ kept \in Nat /\ first \in Nat
    BY <2>1, NoTaskType DEF IInv, TypeOK
  <2>3. f.applied \in Nat /\ watermark <= f.applied
    BY <2>1, <2>2 DEF Watermarked, SnapshotFile
  <2>4. QED
    BY <2>1, <2>2, <2>3 DEF Watermarked
<1>4. QED
  BY <1>1, <1>2, <1>3, Inductive, PTL DEF Spec

===============================================================================
