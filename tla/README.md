# A TLA+ model of wal-demo

wal-demo is a key/value daemon built on a segmented write-ahead log in Go. This
directory holds its specification: TLA+ modules translated from the source, TLC
configurations that check them on small instances, and TLAPS proofs for every
value of the constants. The log (`src/internal/wal`) comes first, because every
other part trusts it; the store and its snapshots stand on what the log promises;
the readers interleave with everything the log does; the daemon is about the
goroutines and what they wait for.

## Files

| file | what it is |
|---|---|
| `WalFormat.tla` | frames, the scan of a segment and of a directory, the index, the read path |
| `WalScan.tla` | the loops of the scan, and what it means that they do what `WalFormat` says of their outcome |
| `Wal.tla` | the log: memory, files, one action per step of every call, crashes, properties |
| `DurableLog.tla` | what the log promises, without segments, buffers or an index |
| `DurableMap.tla` | what the store promises, without snapshots, batches or calls |
| `Store.tla` | the map, its snapshots and the calls that change them, on top of `DurableLog` |
| `WalReader.tla` | `ReadRange` and `Reader.Next` between the steps of the log |
| `Daemon.tla` | goroutines, mutexes and channels of `wald`, from start to exit |
| `Options.tla` | defaults and validation of the options |
| `MCWal.tla`, `wal_*.cfg` | the instances of the log TLC checks |
| `MCStore.tla`, `store_*.cfg` | the instances of the store |
| `MCWalReader.tla`, `reader*.cfg`; `MCDaemon.tla`, `daemon*.cfg` | those of the readers and of the daemon |
| `WalFormatProofs.tla` | lemmas about the format, for segments of every length; the loops of the scan do what `WalFormat` says, in every directory |
| `WalProofs.tla` | the inductive invariant of the log and the theorems |
| `WalRefinement.tla` | the log implements `DurableLog`; the watermark is honest and monotonic |
| `WalIndexProofs.tla` | the index and the list of segments: a read returns what was appended, the index has no hole, segments are bounded, what is durable stays on the disk |
| `WalReaderProofs.tla` | what a range returns, while the log goes on around it |
| `StoreProofs.tla` | the inductive invariants of the store and the theorems |
| `StoreMemoryProofs.tla` | what memory and snapshots hold: the theorems about lost and undone updates; the store implements `DurableMap` |
| `DaemonProofs.tla` | the lock discipline of the daemon and the theorems; those of the options |
| `PROJECT.json` | components, runs, mutants, source map, findings, hazards, theorems |

## Inventory of the system

**Log** (`wal.go`, `fsync.go`, `buffer.go`, `segment.go`, `truncate.go`,
`recovery.go`, `replay.go`, `index.go`). State: a list of open segment files named
by their first sequence, the current one, a group-commit buffer (`pending`), an
index from sequence to file and offset, `nextSeq`, the watermark `durable`,
`unsyncedHigh`, `closed`. Operations: `Open`, `Append`/`AppendBatch`/`AppendSync`,
`Sync`, the ticker `periodicFlush`, `Read`, `Replay`, `Verify`, `Recover`,
`CleanOldSegments`, `Corrupt`, `SegmentInfo`, `Close`. All of them run under one
mutex. What is hard: every system call can fail, a write half-way; a flush is a
write, maybe a rollback, and an fsync, and the process or the machine may stop
between any two; a failed fsync is retried by whoever flushes next; the index is
filled before the bytes it points to are written. Correct means: the files are a
prefix of the log that holds all that was reported durable; Open accepts whatever
a crash leaves; a read returns what was appended; the watermark is honest and
never goes back; what is buffered becomes durable in the end.

**Record format** (`record.go`, `checksum.go`). A record is split into fragments
with a header, a checksum and the flags first and last. Correct means: a torn
fragment at the end of the last segment is told from damage.

**Readers** (`reader.go`). `Read` is one call under the mutex. `Reader.Next`
and `ReadRange` take it several times: the log may be cleaned or recovered between
two of them, and `Next` looks at the index a second time without the mutex.

**Options**, **Metrics** (`options.go`, `metrics.go`). Validation of numbers, and
counters nobody reads back into the log.

**Store** (`store.go`, `state.go`). A map and the sequence `applied`. `Set`,
`SetBatch` and `Delete` append, wait for the fsync, then apply, under `writeMu`;
`Get` and the listings read under `mu`; `New` and `Reload` load the snapshot and
replay the log. Hard: a call that returns an error may have left a record that
becomes durable later; `Reload` empties the map before it refills it while readers
look; a failed replay leaves it half full. Correct means: an acknowledged command
is visible, survives a restart and is applied once and in order; the map equals a
replay of the log up to `applied`.

**Snapshots** (`snapshot.go`). A file `{applied, values}`, replaced through a
temporary file, fsync, rename and fsync of the directory; named archives. Correct
means: snapshot and log together hold every acknowledged command, and a snapshot
is never ahead of what the log can replay.

**HTTP API** (`internal/api`), **daemon** (`cmd/wald/main.go`), **web console**
(`web/`). Handlers translate requests into calls; `handleCrash` kills the process,
`handleRecover` runs `Recover`; `main` opens log and store and closes them in the
reverse order after a signal.

How they interact: handlers call the store, the store calls the log, the ticker's
goroutine competes with them for the log's mutex, `Replay` and `Recover` call back
into the store, and the next process meets only the files of this one.

## Module by module

### WalFormat

A file is a sequence of frames; a frame is one fragment and has size one. Bytes
are abstracted to the outcome of decoding: `ok`, `torn` (its bytes run out), `bad`
(its checksum does not verify). The decoder sees a fragment's number only through
the two flags, so `FlagFirst` and `FlagLast` are all the scan and the reader use.

The scan is stated by what it accepts, not as a loop (`WalScan` has the loops).
`Follows` is the condition
`scanSegment` puts on each frame. `Intact` is a scan that is not the last segment's,
`ScanKeeps(d, base, k)` one of the last segment that keeps k frames and trims the
rest, `ScanRefuses` one that ends in a `CorruptionError`. `ScanKeeps` and
`ScanRefuses` may both hold: the missing bytes of a torn frame with data behind it
are taken from that data, and the decoder then reports a checksum error or runs
past the end, which the abstraction leaves open. `Linked` is the chain of segments
that `recoverLocked` checks, `IndexOf` the index a scan builds, `ReadsAt` and
`Spells` a `readLocation` that succeeds and the payload it puts together.

### Wal

| variable | in the code |
|---|---|
| `disk` | the directory; a file has frames, the length a loss of power must keep (`stable`), whether its directory entry is durable (`named`), whether a failed fsync lost its pages (`dropped`) |
| `open`, `segs`, `shut`, `cur` | a WAL that is not closed, `w.segments`, those with a closed handle, `w.cur` |
| `pending`, `before` | `w.pending`, and flushLocked's `before` while a write is under way |
| `index`, `nextSeq`, `durable`, `unsynced` | the fields of these names, `unsyncedHigh` |
| `pc`, `resume`, `call` | the step the call in progress takes next, the step behind its flush, its arguments |
| `hist`, `promised` | history: the payloads by sequence, and the highest sequence ever reported durable |

The mutex admits one call at a time, so a call is a path through `pc`:

| call | steps |
|---|---|
| append | `AppendInPlace`, or `AppendRotating`, the flush, `CreateSegment` (`CreateFails`), `AppendToNewSegment`; then the flush if the policy, the batch size or the caller asks for it |
| flushLocked | `StartFlush` chooses; `WriteAll`, or `WritePart` then `WriteRest`, `Rollback` or `RollbackFails`; `WriteFails`; `SyncFile` or `SyncFails` |
| Sync, the ticker | `Sync`, `PeriodicFlush`, the flush. `Replay`, `Verify` and a `Read` above the watermark flush in the same way and change nothing else |
| Recover | `Recover`, the flush, `RecoverScan`; or `RecoverFails`, or `TrimFails` with a torn tail that is still there or cut off and not synced |
| Open | `OpenDirectory`, `OpenEmptyDirectory`; `OpenInterrupted` when it dies, or its fsync fails, behind the truncation of a torn tail. Nothing else an Open that fails does leaves a trace |
| CleanOldSegments | `CleanOldSegments`, the flush, `CleanSegment` for each file (`CleanFails`), `CleanReturns` |
| Corrupt | `Corrupt`, the flush, `CorruptFlips` |
| Close | `Close`, the flush, `CloseReturns` |
| (the end) | `ProcessCrash`, `PowerLoss`, at any step |

`recoverLocked` scans, truncates, syncs and sets the fields under the mutex; it is
one step, except that `OpenInterrupted` separates the truncation, the only effect
on files, from the rest, as `TrimFails` does for the truncation that fails or whose fsync
does. In a running process the newest segment has no torn tail unless a rollback failed:
`NothingToTrim` proves it, and with it that `TrimFails` is no step where rollbacks succeed.

The environment is three constants, because what a disk does decides what holds.
`ExitSettles`: what a killed process wrote reaches the disk before power fails.
`SyncNamesFile`: fsync of a new file also persists its directory entry (true of
ext4 and xfs in practice, not promised by POSIX). `SyncFailDrops`: a failed fsync
marks the pages clean, so that a second fsync succeeds without writing them.
`Faults` names the system calls that may fail: `write` (before the first byte or
behind any), `rollback` (the truncation behind a partial write), `sync`, `create`,
`remove`; and `corrupt`, use of the Corrupt call.

### WalScan

`scanSegment` and `recoverLocked` as they run: `ScanFrame` takes the scan's state
(`assembling`, the record's sequence and start, the last finished record, the
index so far) over one frame, `Scanned` and `ScanSegment` over a file, `ScannedUpTo`
over the files in order, and `DropUnfinished` is the cut of an unfinished record
behind the loop. The loops are recursive functions, of the frame's number and of the
segment, whose values are the states behind each turn. `eof` is the one thing frames
do not tell: whether a torn frame with data behind it runs past the end of the file.
`ScansAgree(files)` compares the loops under both outcomes with `Refuses`, `Recovers`,
`LastSeqOf` and `IndexOf`. It is pure, about any directory; `Wal`, which extends this
module, states as `ScanAgrees` that every directory a scan may meet is one on which
they agree. So what the runs and the proofs say of the latter, they say of the loops.

### WalReader

It extends `Wal`, whose actions all come between a range's steps (`Around`), except
while `rpc` is `reading`: then `Read` holds the mutex, and the only step from outside
is one that ends the process.

| variable | in the code |
|---|---|
| `rpc` | where `ReadRange` or the `Next` inside it is, or how it returned |
| `next`, `args`, `entries` | `Reader.next`, the arguments, the entries so far; each with the location it was read from beside the one it was given |
| `goal`, `forgotten` | history: `LastSeq` when the range began; the highest mark given to `CleanOldSegments` |

| step | in the code |
|---|---|
| `NextRecord` | the head of ReadRange's loop: limit, context |
| `CheckLast` | `LastSeq`, under the mutex |
| `Read`, `ReadFlushes`, `ReadFlushFails` | `Read` takes the mutex and flushes if the record is not durable: the flush takes `Wal`'s own steps |
| `ReadReturns`, `ReadNotFound`, `ReadFails` | the rest of `Read` and what Next makes of it: an entry, the next sequence, a `CorruptionError` |
| `Locate` | Next's second look at the index, outside the mutex |
| `Finish` | the caller has its answer |

The second look is the hazard: between it and the read a cleaning or a recovery may
have changed the index. `Locate` may come at any step of any call, and while a
recovery fills the new index it may find nothing.

### Daemon

What the calls do to the data is elsewhere; the question here is who waits for whom, and
who learns of a failure. `Path` is the list of calls that a request's handler
makes, with the store's `lock` and `unlock`; every call of the log enters its mutex,
may find it closed, and returns, fails in its flush, in the creation of a segment or on a
damaged record. An error drops the rest of the path and the lock, as the deferred unlocks do.

Of the log's bytes `dirty` keeps what stands between them and the disk, as a set of marks:
`pending`, bytes wait in the buffer; `unsynced`, they are written and `unsyncedHigh` waits
for an fsync; `lost` and `stolen`, a rollback that failed has dropped a buffer
(`fsync.go:17`), in the first case under a caller that got the error, in the second under a
batch of somebody else. A flush has the outcomes of `flushLocked`: it succeeds, or finds
nothing to do, and takes away the first two marks, never the others (`Flushed`); its write
fails and is rolled back, which keeps the buffer; the rollback fails too, which drops it,
so that the next flush returns nil; or its fsync fails, which leaves `unsynced`
(`FlushError`). A `read` flushes only above the watermark (`reader.go:24`), so it may leave
the log as it was. Records that were dropped stay in the index, and a read of them fails.

| variable | in the code |
|---|---|
| `main`, `exit` | where `main` is, from `Open` to the deferred Close, and how the process ended |
| `listening`, `todo` | the server's listener, the calls each handler has left |
| `ticker`, `armed` | the goroutine of `periodicFlush`, the timer of `handleCrash` |
| `writeMu`, `logMu` | the holders of the two mutexes that are held while something is waited for |
| `dirty` | `w.pending`, `w.unsyncedHigh`, and what has been dropped from both |
| `closed`, `stop`, `done`, `handles` | Close's flag, its channels, the segments' file handles |

`Shutdown` waits ten seconds at most, so handlers may outlive it and run into a log
that is closing; a request may still come on a connection accepted before.

### Options

`Validates(o, n)` says that `Validate` accepts o and returns n: the defaults, for
which `SyncAlways` alone is no different from the zero value and becomes `SyncBatch`,
and the checks behind them. `Plus` is the sum of two ints and wraps around.

### DurableLog

`log`, the promised length `durable`, and `up`. A restart brings back any prefix
that keeps what was promised, and promises all of it. `Wal` implements it with
`log <- hist`, `durable <- promised`, `up <- open`.

### Store

`Store` is composed with `DurableLog`, which `Wal` implements, and not with `Wal`:
TLC then has room for the store's own interleavings. A value is identified by the
sequence of the set that wrote it, which tells more apart than its text does.

| variable | in the code |
|---|---|
| `log`, `durable`, `up` | the log, through `DurableLog` |
| `first`, `kept` | where the index starts, and where the files start: cleaning moves `first` to its argument and removes whole segments only, so `kept` may lag behind, and a recovery or an Open moves `first` back to it |
| `kv`, `applied` | `Store.values`, `Store.applied` |
| `files`, `settled` | the snapshot files as a running process sees them, and as a loss of power may leave them until their directory has been synced |
| `task`, `pc` | the call that holds `writeMu`: its arguments and its next step; `new` while the process starts |
| `acked`, `seen`, `watermark` | history: updates reported successful, values a Get returned, the highest watermark Snapshot returned |

| call | steps |
|---|---|
| Set, Delete | `Update` (the append), `Forced` or `ForceFails`, `ApplyNext` |
| SetBatch | `SetBatch`; `BatchAppend` for each pair, with the flush a full buffer causes (`Forced`, `ForceFails`), or `AppendFails`; `BatchSync` or `BatchSyncFails`; `ApplyNext` for each pair |
| Get | `Get`, at any step: readers take `mu` only |
| New | `Open`, `LoadSnapshot`, `Replay`, `ReplayNext`, `ReplayReturns` |
| Reload | `Reload` empties the map, then as New; `ReloadFails` |
| Snapshot, SaveSnapshot | `Snapshot` (sync, copy), `Rename`, `SyncDir` or `SnapshotFails` |
| DeleteSnapshot | `DeleteSnapshot`, `SyncDir` or `SnapshotFails` |
| the log's other callers | `FlushBehind` (ticker, sync, reads), `Recover` (handleRecover, in front of its Reload), `Clean` |
| the environment | `ProcessCrash`, `PowerLoss`, `Damage` |

`writeMu` admits one call, so `pc = "idle"` means that it is free. The log's mutex
is held across `Forced` and across the visits of a replay; in all other steps the
ticker, a recovery, a cleaning and the readers come between. `Replay` flushes the
log and visits the sequences one at a time, and a Get may look between two of them.

`Clean` is what `docs/PROJECT_DOC.md` line 173 allows: a caller that knows a
watermark Snapshot returned removes the log in front of it, at any later time, so
while the next snapshot is being written, too. The program itself never calls
CleanOldSegments; `Cleaning = FALSE` is the program alone.

A New that fails ends the process; that is `ProcessCrash` while `task.op = "new"`.

### DurableMap

What a caller may rely on. A command that is given (`Give`) gets the next sequence; it is
taken into the map at once, later or never (`Take`), in the order of the sequences, and
`map` is always the replay of the commands `taken`. `told` is what any caller knows of:
updates that were reported successful, and, for a value that was read, it and all
before it of its key. It only grows, and it bounds the rest: a crash (`Stop`) and a reload
(`Rebuild`) empty the map, a restart (`Start`) may lose only the end of the log that
nobody was told of, and the map is ready again (`Show`) only with all of `told` taken.
A failed update is a command that was given and may be taken after the next restart;
while it is not, the map goes on without it.

`Store` implements it with `taken <- Reflected`, the commands that memory reflects,
`map <- kv`, `told <- Told` and `state <- State`. A snapshot is one `Load`, a replay a
`Take` for each command behind it, an update a `Give` and a `Take`; a batch is answered
with its last `Take`; everything about files, flushes and the log's other callers leaves
the map alone. A reader may look at a map that is being rebuilt (`Tell` needs only that
it is not down), as `Get` may during a reload; what it is told then is kept, too.

## What is checked

Every property is broken by at least one mutant of the code in `PROJECT.json`, such
as a rotation that does not flush first, a rollback that forgets the buffer, an
index entry that ignores it, a segment removed at the mark instead of in front of
it. Deadlock is checked except in `wal_faults`, `wal_rollback` and `reader`, in
which Open may refuse a directory for good.

| run | environment | shows |
|---|---|---|
| `wal_power` | writes, fsyncs, creations fail; crashes and losses of power | `TypeOK`; `Recoverable`: Open accepts what is left; `ReadsBack`: every index entry leads to its payload; `DurableConfirmed`: the watermark covers only what no loss of power takes; `IndexCoversLog`, `SegmentBounded`, `SegmentInfoExact`, `NothingStranded`; `DurableUntilCleaned`, `DurableMonotonic`; `ImplementsDurableLog` |
| `wal_faults` | writes, rollbacks, fsyncs and trims fail, records are corrupted | `NeverMisread`: records are lost here, but a read returns an error or the right payload; `ScanAgrees`: the loops of the scan do what `WalFormat` says of them |
| `wal_live` | writes, fsyncs and removals fail now and then | `EventuallyDurable`; `Recoverable` and `DurableUntilCleaned` of a cleaning that stops at any file: no holes, and nothing removed that was not asked for |
| `wal_unsynced_tail` | `ExitSettles` false | finding 1 |
| `wal_rollback` | rollbacks fail | finding 2 |
| `store_faults` | appends, syncs, snapshots fail, the log is cleaned | `AckedKept`: a successful update is never lost nor undone by an older one; `SeenKept`: a value once read is never taken back, that of a failed update included; `SnapshotsExact`: a snapshot holds the successful updates up to its watermark and nothing that is not durable; `NoGap`: the log reaches back to the snapshot that the next start finds, whichever of two a loss of power leaves; `ImplementsDurableMap` |
| `store_errors` | every call fails at every step, snapshots are damaged, an archive | `TypeOK`, which says that `writeMu` is held exactly while a call is under way; `WalBeforeMemory`: memory never shows what the log has not made durable |
| `store_restart` | damaged and failing snapshots, no failing update | `MatchesReplay`: memory is the replay of the log |
| `reader` | writes, fsyncs and removals fail, records are corrupted | `EntriesDurable`: no range returns what a crash could take back; `RangeExact`: it returns whole records in order and skips only what a caller asked to forget; `LocationTrueOrNone`: an entry's location is its own or missing, never another record's; `CorruptionReal`: a `CorruptionError` is never a false alarm |
| `daemon` | every start, flush, rotation and read may fail, the crash endpoint; a partial write is rolled back | `TypeOK`, which says who holds each lock; `HandlesOpen`: nobody uses a file that Close released; `PublishedDurable`: an update is published only when nothing of it waits in the buffer or for an fsync or was dropped, whoever else flushed, or failed to flush, in between; `CleanExitKeepsAll`: a clean exit leaves nothing behind; `ShutdownEnds`, `RequestsAnswered`, `BufferFlushed`: nobody waits for ever |
| `store_failed_update` | appends fail | finding 3 |
| `store_failed_reload` | replays fail | finding 4 |

**Bounds.** `MaxSeq` caps the sequences of a log at 4 (3 in the smaller runs),
`MaxSegmentBytes` is 3 or 2 frames and the payloads have 1, 2 and 4: a segment
holds several records, a record of several fragments, exactly one oversized record
alone, and four records make up to four segments, so that rotation in front of an
oversized record, in front of an empty segment and in the middle of a batch all
happen, and a cleaning has several files to remove. `BatchSize` 3 lets a buffer of
several records build up. `MaxSeq` is the only bound on behaviours; crashes,
restarts and failures are unlimited. No symmetry is used: payloads differ in size.

The store runs use two keys, three commands and batches of up to two (two commands
in `store_errors`, which has an archive as well). Two keys and three
commands give a set, its overwrite or delete and a command of another key; two
snapshots of different watermarks with a cleaning between them; a failed update
with a successful one behind it; a batch cut in two by a failure. `MaxSeq` and
`MaxBatch` are the only bounds. Keys are interchangeable: no action
names one, and every property is an invariant or, like `ImplementsDurableMap`, a safety
property that treats all keys alike, so the symmetry is sound. The runs
differ in what may fail because the promises do: `AckedKept` survives every
failed append, `MatchesReplay` does not (finding 3), and nothing about memory
survives a failed reload (finding 4).

`reader` has one payload, of two fragments, segments of two records, a buffer of two
and three sequences: a range of two records begins in a segment that a cleaning removes
and ends in one that is still buffered, a record is whole only with both of its fragments, a
write stops between or inside them, and all of it happens between any two steps of the range.
Payloads of two sizes in one run exceed what TLC can visit; the theorems have no such bound.
`daemon` has two handlers, enough for one to hold `writeMu` while the other waits, and a
request of each shape: one call of the log, several, with and without `writeMu`, a
log call in front of the lock. The shapes left out are parts of those.

**Fairness** (`FairSpec` of `Wal`, for `EventuallyDurable`, and of `Daemon`; `Store`
claims no liveness). In `Wal` the ticker's goroutine
calls flushLocked for as long as the log is open, and Go's mutex hands the lock to
a waiter that starves, so `PeriodicFlush` is strongly fair although other calls keep
taking the mutex from it. The goroutine that holds the mutex runs to the end of its
call: its internal steps are weakly fair. `WriteAll \/ WriteRest` and `SyncFile`
are strongly fair: a disk that is asked again and again obeys once. Without that
no retry could help; the code's part is to ask again, and the mutant that forgets
an fsync that failed stops doing so. A crash, a Close or a cleaning are never
forced. In `Daemon` a handler, the ticker and Close are strongly fair, since a
waiter for a mutex is handed it in the end; select takes a ready `stop` in the end;
the interval and Shutdown's ten seconds pass. `TickerFlushes` asks the disk for the same obedience as above. Signals, requests and
crashes are never forced.

**Findings.**

1. Open reports the tail it scanned as durable, but nothing has fsynced it: the
   process that wrote it may have been killed between write and fsync
   (`recovery.go:73`, against `wal.go:129`).
2. When a write fails half-way and its rollback fails too, the buffer is dropped
   and the log goes on behind a torn frame; the next Open refuses the directory
   (`fsync.go:17`).
3. An update whose flush fails returns an error and is not applied, but its command
   stays in the log and becomes durable; the next update moves `applied` past it.
   Memory lacks a command that a replay applies (`store.go:89`).
4. Reload empties the map before it knows that it can fill it again. When it fails,
   the store goes on with a partial map; the next update raises `applied`, and a
   snapshot then makes the loss of acknowledged keys permanent (`store.go:212`).

**Assumptions that matter.** Other values of the constants break properties, too,
and say what the code relies on. With `rollback` among the faults of `daemon`
`PublishedDurable` and `CleanExitKeepsAll` fail, which is finding 2 as the callers see it.
The buffer that a failed rollback drops may be that of a batch between its `AppendBatch` and
its `Sync`, dropped by the ticker, which ignores the error (`fsync.go:67`): `Sync` then has
nothing to do, returns nil (`fsync.go:8`), and `SetBatch` applies and acknowledges records of
which nothing is on disk, against its own comment (`store.go:99`). `Close` returns nil behind
such a flush in the same way, and the process exits as if all were well.
With `SyncNamesFile` false `DurableConfirmed` fails:
the directory is never fsynced behind the creation of a segment (`segment.go:69`).
With `SyncFailDrops` true it fails as well: a failed fsync is answered by another
fsync, which reports success for data the kernel has dropped (`fsync.go:27`). With
`corrupt` among the faults `Recoverable` fails: Open refuses a directory with a
damaged record, as the top-level README says; `docs/PROJECT_DOC.md` line 69 has it
drop the record and what follows. With `damage` and `Cleaning` together `AckedKept`
fails: a damaged snapshot is dropped for a full replay, which New starts without
looking where the log begins (`store.go:47`).

## What is proved

`WalProofs` holds, for every segment size, batch size, policy, payload set and length
of the log. From the hypothesis `SoundEnvironment`:

| theorem | statement |
|---|---|
| `Inductive` | `Spec => []IInv` |
| `AlwaysRecoverable` | `Spec => []Recoverable` |
| `AlwaysDurableConfirmed` | `Spec => []DurableConfirmed` |

`SoundEnvironment` says: the faults are among write, sync, create and remove;
`SyncNamesFile`, `ExitSettles`, not `SyncFailDrops`. Each part is needed: drop one,
and TLC finds one of the theorems' statements violated (the runs
`wal_unsynced_tail` and `wal_rollback`, and the paragraph above).

The argument. None of the properties is inductive: that Open accepts a directory
says nothing of the process that is still writing it. `IInv` ties files, buffer and
index to one sequence of frames. `Base` is the part of the current file that a
rollback would keep, `Body` is `Base` and the buffer behind it. `Current`: `Body` is
complete, chained, carries the payloads of `hist` and ends at `nextSeq - 1`.
`FilesChained`: every file is chained, with a torn frame only at its end.
`FilesLinked`: every file but the newest is complete, durable and ends where its
successor starts; so only the newest file can be cut or lost. `Unsynced`: which
frames of `Body` the watermark covers, and what `unsyncedHigh` is; `Indexed`: every
index entry lies in `Body` or in its file. `Cleaning`: the files that are left of a
cleaning are the newest ones. `Directory`, `FilesSettled` and `Control` say what the
lists of segments, a dead process and each step of a call have behind them. Each
action has a lemma that it keeps all of this; the theorems follow from `IInv` alone.

`Chained` (in `WalFormatProofs`) is what makes this possible without induction over
a segment. Instead of describing a file frame by frame from its start, it says of
each frame where its record begins and ends (`Grouped`), and of each pair of frames
how they are ordered (`Ordered`, `Closed`). Each of these survives a cut, a torn
last frame and the arrival of a record, by arguments about a few frames.

What does not need the hypothesis, and so holds in every environment, with rollbacks that
fail, pages that a failed fsync drops, files whose name is lost, and bytes that Corrupt
flips, in any combination:

| theorem | statement |
|---|---|
| `AnyInductive` | `Spec => []AnyInv` |
| `TypeCorrect` | `Spec => []TypeOK` |
| `NeverMisreads` | `Spec => []NeverMisread` |
| `LoopsAgree` (in `WalFormatProofs`) | `ScansAgree(files)`, for every directory of segments with a newest one |
| `AlwaysScanAgrees` | `Spec => []ScanAgrees` |

In such an environment almost all of `IInv` is lost: a torn frame may lie in the middle of
a segment, with records behind it, a record may be missing from its segment or from
all of them, an index entry may point at the frames of another record, and a recovery may
give a sequence away again. What is left is `AnyInv`. `Genuine`: every frame, torn and damaged
ones included, still is one of a record of the log, and where two frames of one sequence
meet, the second is the next fragment. This survives a cut, a torn end and a flipped byte
(`Front`), a record that joins (`GenuineAppend`), and a recovery that takes back the end of the log,
because every frame it keeps has a sequence that it keeps as well (`GenuineBelow`,
`RecoveredFiles`). `Handles`: the segments run ahead of the directory and the current one is
its last; so a segment is created under a name behind all the others. That is enough for
`NeverMisreads`: the fragments that readLocation accepts have one sequence and follow one
another from a first one, so they are numbered 1, 2, ... (`ReadsInOrder`), and the last
one is where the payload ends.

`LoopsAgree` is about frames of any kind in any order, torn, damaged or of foreign
records, and any numbers of segments with any gaps. Its first step is that the recursive
functions exist and are what their equations say (`ScannedRuns`, `ScannedUpToRuns`): at
the least frame or segment where they were not, the one before gives the value. The loop
over a segment has the invariant `Walked`: what the state holds behind frame i is
determined by the i frames (`ScanState` says by which), as long as these are accepted;
the first frame that is not is the end of the scan, and the cases of `ScanFrame`, which
exclude each other, decide which end (`WalkKeeps`, `ScanEnds`, `FrameRejected`). The loop
over the directory has `Covers`: the index lists the records of the segments walked so
far, each at its one place (`SamePlace`), and these are linked up to the present one
(`LinkedTo`); `CoversIsIndex` turns that into the CHOOSE of `IndexOf`. `AlwaysScanAgrees` then has to
show that a scan only meets such directories, which `AnyInv` says: the names are those of
records of the log or the next one, so there is a greatest.

`WalRefinement` and `WalIndexProofs` build on `IInv`, under its hypothesis:

| theorem | statement |
|---|---|
| `WatermarkHolds` | `Spec => []MInv` |
| `AlwaysNothingStranded` | `Spec => []NothingStranded` |
| `AlwaysDurableMonotonic` | `Spec => DurableMonotonic` |
| `WalImplementsDurableLog` | `ReliableRemoval => (Spec => ImplementsDurableLog)` |
| `AlwaysSegmentInfoExact` | `Spec => []SegmentInfoExact` |
| `AlwaysReadsBack` | `ReliableRemoval => (Spec => []ReadsBack)` |
| `AlwaysIndexCoversLog` | `Spec => []IndexCoversLog` |
| `AlwaysSegmentBounded` | `Spec => []SegmentBounded` |
| `AlwaysDurableUntilCleaned` | `ReliableRemoval => (Spec => DurableUntilCleaned)` |

`Marked`, in `MInv`, says that the watermark is exactly the end of the stable frames
of the current file, and that these end with a whole record; so a recovery, which
scans behind its own flush, can only find it again or move it up. For the refinement
the open log is not enough: what was promised must survive the end of the process.
`Promises` ties `promised` to the watermark of an open log, `Left` says that a dead
process's files still hold it, in the files that no loss of power takes, and
`Rooted` that they begin where they can be found. `ReliableRemoval`, that a removal
does not fail, is needed here because a cleaning whose last removal succeeds and whose
directory sync fails may leave a new, still empty segment as the only file, whose own
directory entry a loss of power may take: the log would start again at 1. It is
needed in `AlwaysReadsBack` because CleanOldSegments closes the handle before it
removes the file: a failed removal leaves a listed segment that cannot be read.
`Trailing` and `Placed` say that files that are gone are the oldest of the list and
that each indexed record lies in a listed segment in front of those that follow;
`Shut` says which handles are closed in the middle of a cleaning.

`Covered` is `IndexCoversLog` at every step of every call, not only between calls.
An append extends the index by one, a cleaning drops what lies below its mark, and a
failed write takes nothing from it; the steps that need an argument are Open and
Recover, which rebuild it from the files. `FilesDense`: a segment holds every
sequence from its name to its last (`SegmentDense`), the next one begins where it
ends, so a sequence between the oldest segment's name and the last sequence lies in
the last segment that begins no later (`LastBegun`). That these exist (the oldest
segment, the last one that begins no later, the first frame that reaches a sequence)
is `Least`: a nonempty set of numbers has a least element, which the library's
`WFMin` gives. `Bounds` says that no file, nor the current one with the buffer
behind it, outgrows the limit with more than one record (`Alone`), and that a
segment just created is empty: the guard of the rotation counts the buffer, so a
flush that stops half-way and is tried again cannot pass it.
`AlwaysDurableUntilCleaned` is an action property, shown from the invariants `RInv`,
`PInv` and `Shut` by `Spares`: each step keeps each frame of each file, unless the
frame lies behind the watermark or is one a cleaning was asked for.

`WalReaderProofs` is about `RSpec`, in the environment of `WalProofs`, removals that
fail included:

| theorem | statement |
|---|---|
| `ReaderInductive` | `RSpec => []ReaderInv` |
| `AlwaysEntriesDurable` | `RSpec => []EntriesDurable` |
| `AlwaysRangeExact` | `RSpec => []RangeExact` |
| `AlwaysLocationTrueOrNone` | `RSpec => []LocationTrueOrNone` |
| `CorruptionsAreReal` | `RSpec => CorruptionReal` |

The reader takes no step of the log but those of its flushes (`ReaderIsWal`), so all
that is proved of the log holds around it. `ReaderInv` has two halves. `FInv` is about the
log and what was forgotten: `Remembered`, that the index holds every sequence that no
caller asked to forget, is what makes a range exact, and it needs `Reaching`, that the
directory reaches back to the first record or to one that may be forgotten, because a
recovery builds the index from the files. `ShutForgotten` says why a read meets a closed
handle: a removal of a forgotten segment has failed. The other half is the range's own:
`Returned`, that the entries are durable records of the log, in order and with none
missing, and `Locating`, for the time between the read and the second look at the index.
That look is right because the place of a record is its only place (`Only`): no frame of an
assigned sequence comes to a place where it was not before (`FramesStay`), so `Only` stays
true while the segment is removed and the index built again (`OnlyStays`).
`CorruptionReal` then says that in this environment, where nobody damages a segment, the
only record reported as corrupt is one that may be forgotten; that a damaged record is
the other case is what the run `reader` checks.

`DaemonProofs` holds, for any number of handlers and any set of requests:

| theorem | statement |
|---|---|
| `Inductive` | `Spec => []IInv` |
| `TypeCorrect` | `Spec => []TypeOK` |
| `AlwaysHandlesOpen` | `Spec => []HandlesOpen` |
| `Accounted` | `Spec => [](Shown /\ NothingDropped)` |
| `AlwaysCleanExitKeepsAll` | `Spec => []CleanExitKeepsAll`, if `"rollback" \notin Faults` |
| `AlwaysPublishedDurable` | `Spec => []PublishedDurable`, if `"rollback" \notin Faults` |

The heart is `WriteLock`: `writeMu` is held by the handler whose remaining path has an
unlock and no lock in front of it. It holds because every suffix of every path is
bracketed, which is shown path by path, and because every error goes through
`ReturnError`. `Control` and `Kept` say what main, the ticker, the channels and
`dirty` have to do with one another once `closed` is set.

`Shown` says that an update which is about to be published waits neither in the buffer nor for
an fsync. Its own call has flushed, and nobody but the holder of `writeMu` adds to the log
(`LogsAlone`), so the failed flushes of others have nothing to leave behind. It holds with failed
rollbacks, too; `NothingDropped` says that only they drop a buffer. The last two
theorems put these together. Their hypothesis is needed: the paragraph on the assumptions
says what a failed rollback does to both properties.

It also has the four theorems about the options that the daemon opens its log with,
shown directly: `ValidatedIsStable`, `TickerAlwaysTicks`, `FragmentFitsSegment` (what
`Wal` assumes of its constants) and `OverflowAccepted`: the check of `options.go:96`
adds two ints and accepts a fragment that no segment holds.

`StoreProofs` holds, for any number of keys, commands, batches and archives:

| theorem | statement |
|---|---|
| `Inductive` | `Spec => []IInv` |
| `TypeCorrect` | `Spec => []TypeOK` |
| `AlwaysWalBeforeMemory` | `Spec => []WalBeforeMemory` |
| `AlwaysNoGap` | `Reliable => (Spec => []NoGap)` |

The first three need no hypothesis: any call may fail at any step, the log may be
cleaned, snapshots may be damaged. `WalBeforeMemory` alone is not inductive, since
memory is loaded from snapshots, snapshots are copies of memory, and a call
applies later what it appended earlier. `AllBacked` says of memory, of every
snapshot file, settled or not, and of the snapshot on its way, that the durable log
accounts for it; `Steps` says that a call applies only what lies in the log, and
in the durable log once it is at that step.

`NoGap` needs `Reliable`, that no reload fails and nothing damages the snapshot: behind
a failed reload a snapshot may be written with a watermark below an earlier one, and
a damaged one counts for nothing. `Watermarked` puts the highest watermark that was handed
out between the cleaning, which it bounds from above, and memory, the snapshot on
its way and both primary snapshots, which it bounds from below.

`StoreMemoryProofs` builds on it:

| theorem | statement |
|---|---|
| `AlwaysMatchesReplay` | `Exact => (Spec => []MatchesReplay)` |
| `AlwaysAckedKept` | `Reliable => (Spec => []AckedKept)` |
| `AlwaysSeenKept` | `Reliable => (Spec => []SeenKept)` |
| `AlwaysSnapshotsExact` | `Reliable => (Spec => []SnapshotsExact)` |
| `StoreImplementsDurableMap` | `Reliable => (Spec => ImplementsDurableMap)` |

`Exact` says that no update and no reload fails and that the log is not cleaned
in front of a snapshot that can be damaged; the findings 3 and 4 and the paragraph on
damage show what each part is for.

The argument is about `Holds(log, D, values, upTo)`: every command of the set D among
the first `upTo` is reflected in the map. It survives a growing log, a
smaller set and the application of a command behind all of D that was applied before; the
lemmas `HoldsGrows` to `HoldsBeyond` are all that is known of maps. For `MatchesReplay`,
D is the whole log up to `applied`: `Level` says that memory lags behind the log by
exactly the commands of the call under way, and `Gapless` that a replay skips none.
With failing updates memory may lack commands, and D is what is `Due`: what was
acknowledged, what the call under way has applied, and what was read. Three
things make that inductive. `Primaries`: the settled primary snapshot, which a loss of
power may bring back, holds what any reader may see before it comes back, that is,
the values of memory and those of the newer snapshot, since these may be loaded and
read. `Fresh`: the commands of the call under way lie behind memory and behind every
snapshot, so that none of these claims to cover them. `CaughtUp`: a store that
serves has passed all that is due; while it loads, it need not have.
`Reaches`, that a replay begins no later than the snapshot ends, comes from `Watermarked`,
or from the absence of a cleaning.

`StoreImplementsDurableMap` shows step by step that the store is a `DurableMap`. Its
centre is `MapReplayed`: a map whose values the log accounts for is the replay of the
commands it reflects, whatever those are. So nothing has to be said of which commands
memory lacks after failed updates; a `Take` only has to keep what was reflected
(`HoldsApply`) and to come behind it (`Fresh`). `TailUnknown` says that the end of the log
that is not durable concerns neither the map nor a caller, for an append and for the loss
of it; `ToldReflected`, that a map that is there reflects all that callers know of, comes
from `AckedKept` and `SeenKept`. Two small invariants are added: `SeenSourced`, that what was
read was written by a set of its key, and `OnlyLoads`, that New and Reload only load.

All safety invariants of the runs are proved, in the environment named with each.
Only model-checked: what the properties of the reader say when a byte is flipped (`reader`);
`EventuallyDurable`, `ShutdownEnds`, `RequestsAnswered` and `BufferFlushed`, because
liveness under fairness and ENABLED are not in the reach of the provers.

## What is abstracted or left out

- Bytes, magic numbers, CRC, padding frames, and damage other than a torn write
  and the byte Corrupt flips. A flipped length field can be taken for a torn tail
  (`truncate.go:9`); it needs sizes in frames, which the model does not have.
- A removed file that reappears because power fails before its directory is
  synced; an error of Stat behind the creation of a segment, which would leave
  an empty file behind.
- The callbacks of Replay and Recover: they touch the store, not the log.
- `pendingBuffer.take` empties the buffer before the write; nobody can look between
  the two, so `WriteAll` and `RollbackFails` empty it at the end.
- `closed` set by Close before its flush: no other call can look in between, and
  the ticker does nothing once it is set.
- In `Store`: names, sizes, the encoding of snapshots and commands and the checks
  on them. A snapshot decodes, is invalid or is not there; `Damage` makes it
  invalid. The listings and the paging read the same map as Get. The archives'
  directory exists from the start: its own entry, which nothing syncs
  (`snapshot.go:75`), is not at risk. `removeFileAndSyncDir` of the log is part
  of `Wal`.
- In `WalReader`: `Reader.Next` called by itself is a range without a limit; damage
  other than Corrupt's; a disk that fails to read, which `readLocation` reports as
  corruption, too (`reader.go:46`), so that `CorruptionReal` speaks of disks that can be read. In `Daemon`: the bodies of requests, status codes and timeouts
  of the server; a panic of a handler, which net/http recovers.
- Metrics: counters nobody reads back into the log. The web console and the encoding
  of HTTP. `ItemsPage` (`store.go:187`) cuts its offset to the number of items before
  it adds a limit that the handler keeps below 501, so the sum does not overflow.

## Plan

1. Damaged lengths: frames with sizes in `WalFormat`, so that a flipped length field
   can be taken for a torn tail.
