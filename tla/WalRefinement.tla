---------------------------- MODULE WalRefinement ----------------------------
(***************************************************************************)
(* The watermark of the WAL, and that the WAL is a durable log, for every  *)
(* value of its constants in the environment of WalProofs.                 *)
(***************************************************************************)
EXTENDS WalProofs

\* The last sequence in the first k frames of a segment that continues from base.
SeqAt(d, k, base) == IF k = 0 THEN base ELSE d[k].seq

\* The watermark is the end of what no loss of power takes from the current segment.
Marked ==
  open => /\ durable = SeqAt(disk[cur].data, disk[cur].stable, cur - 1)
          /\ Complete(disk[cur].data, disk[cur].stable)
          /\ disk[cur].stable > 0 => disk[cur].named

MInv == IInv /\ Marked

-------------------------------------------------------------------------------
(* The current file, once more.                                             *)

\* The frames that no loss of power takes are in front of a write under way.
LEMMA StableFrames ==
  ASSUME IInv, open
  PROVE  /\ cur \in DOMAIN disk /\ cur \in Nat \ {0} /\ cur - 1 \in Nat
         /\ disk[cur].data \in Seq(Frame) /\ disk[cur].stable \in 0..Len(disk[cur].data)
         /\ Base \in Seq(Frame) /\ disk[cur].stable <= Len(Base) /\ Len(Base) <= Len(disk[cur].data)
         /\ \A i \in 1..Len(Base) : Base[i] = disk[cur].data[i]
         /\ disk[cur].named \in BOOLEAN
<1>1. /\ cur \in DOMAIN disk /\ cur \in Nat \ {0} /\ cur - 1 \in Nat
      /\ Base \in Seq(Frame) /\ (pc = "partial" => before \in 0..Len(disk[cur].data))
  BY CurrentFile DEF IInv
<1>2. /\ disk[cur].data \in Seq(Frame) /\ disk[cur].stable \in Nat
      /\ disk[cur].stable <= Len(disk[cur].data) /\ disk[cur].named \in BOOLEAN
  BY <1>1, FileType DEF IInv
<1>3. disk[cur].stable <= Len(Base)
  BY DEF IInv, Unsynced
<1>4. Len(Base) <= Len(disk[cur].data) /\ \A i \in 1..Len(Base) : Base[i] = disk[cur].data[i]
  <2>1. CASE pc = "partial"
    BY <1>1, <1>2, <2>1 DEF Base
  <2>2. CASE pc # "partial"
    BY <1>2, <2>2 DEF Base
  <2>3. QED BY <2>1, <2>2
<1>5. QED BY <1>1, <1>2, <1>3, <1>4

\* A step that changes the current file only behind its stable frames.
LEMMA BehindMark ==
  ASSUME IInv, Marked, open, UNCHANGED <<open, cur, durable>>,
         disk'[cur].stable = disk[cur].stable, disk'[cur].named = disk[cur].named,
         \A i \in 1..disk[cur].stable : disk'[cur].data[i] = disk[cur].data[i]
  PROVE  Marked'
<1> DEFINE k == disk[cur].stable
<1>1. k \in Nat
  BY StableFrames
<1>2. k > 0 => k \in 1..k
  BY <1>1
<1>3. k > 0 => disk'[cur].data[k] = disk[cur].data[k]
  BY <1>2
<1> HIDE DEF k
<1>4. SeqAt(disk'[cur].data, k, cur - 1) = SeqAt(disk[cur].data, k, cur - 1)
      /\ (Complete(disk[cur].data, k) => Complete(disk'[cur].data, k))
  BY <1>1, <1>3 DEF SeqAt, Complete
<1>5. disk'[cur].stable = k /\ disk[cur].stable = k
  BY DEF k
<1>6. QED BY <1>4, <1>5 DEF Marked

\* So is a step that leaves the files and the watermark alone.
LEMMA MarkUnchanged ==
  ASSUME Marked, UNCHANGED <<disk, open, cur, durable>>
  PROVE  Marked'
BY DEF Marked

LEMMA ConcatFront ==
  ASSUME NEW s \in Seq(Frame), NEW t \in Seq(Frame), NEW u \in Seq(Frame)
  PROVE  s \o t \o u \in Seq(Frame) /\ \A i \in 1..Len(s) : (s \o t \o u)[i] = s[i]
<1> DEFINE b == s \o t
<1>1. b \in Seq(Frame) /\ Len(s) <= Len(b) /\ \A i \in 1..Len(s) : b[i] = s[i]
  OBVIOUS
<1> HIDE DEF b
<1>2. b \o u \in Seq(Frame) /\ \A i \in 1..Len(b) : (b \o u)[i] = b[i]
  BY <1>1
<1>3. \A i \in 1..Len(s) : i \in 1..Len(b)
  BY <1>1
<1>4. QED BY <1>1, <1>2, <1>3 DEF b

LEMMA SyncFailsUnseen ==
  ASSUME SoundEnvironment, IInv, SyncFails
  PROVE  disk' = disk /\ UNCHANGED <<memory, history>>
<1>1. cur \in DOMAIN disk /\ disk \in [DOMAIN disk -> File]
  BY DEF IInv, TypeOK, SyncFails
<1>2. disk[cur] \in File /\ disk[cur].dropped = FALSE
  BY <1>1 DEF IInv, FilesChained, File
<1>3. [disk[cur] EXCEPT !.dropped = FALSE] = disk[cur]
  BY <1>2 DEF File
<1>4. QED BY <1>1, <1>2, <1>3 DEF SyncFails, SoundEnvironment

-------------------------------------------------------------------------------
(* Every step keeps the watermark where it belongs.                         *)

LEMMA AppendsMark ==
  ASSUME MInv, Appends
  PROVE  Marked'
<1>1. CASE CreateSegment
  <2>1. /\ pc = "create" /\ pc' = "put" /\ cur' = nextSeq /\ pending = <<>> /\ unsynced = 0
        /\ disk' = [s \in DOMAIN disk \cup {nextSeq} |-> IF s = nextSeq THEN NewFile ELSE disk[s]]
        /\ durable' = durable
    BY <1>1 DEF CreateSegment, MInv, IInv, Control
  <2>2. open /\ nextSeq \in Nat
    BY <2>1 DEF MInv, IInv, TypeOK
  <2>3. disk'[nextSeq] = NewFile
    BY <2>1
  <2>4. NewFile.stable = 0
    BY DEF NewFile
  <2>5. durable = nextSeq - 1
    <3>1. Base = disk[cur].data /\ disk[cur].data \in Seq(Frame)
      BY <2>1, <2>2, StableFrames DEF Base, MInv
    <3>2. Body = Base
      BY <2>1, <3>1 DEF Body
    <3>3. disk[cur].stable = Len(disk[cur].data) /\ LastSeqOf(disk[cur].data, cur - 1) = nextSeq - 1
      BY <2>1, <2>2, <3>1, <3>2 DEF MInv, IInv, Unsynced, Current
    <3>4. Len(disk[cur].data) = 0 <=> disk[cur].data = <<>>
      BY <3>1
    <3>5. QED BY <2>2, <3>3, <3>4 DEF MInv, Marked, SeqAt, LastSeqOf
  <2>6. QED BY <2>1, <2>3, <2>4, <2>5 DEF Marked, SeqAt, Complete
<1>2. CASE CreateFails
  BY <1>2, MarkUnchanged DEF CreateFails, memory, MInv
<1>3. CASE AppendToNewSegment
  BY <1>3, MarkUnchanged DEF AppendToNewSegment, Buffer, MInv
<1>4. CASE \E p \in Payloads, force \in BOOLEAN : AppendInPlace(p, force) \/ AppendRotating(p, force)
  BY <1>4, MarkUnchanged DEF AppendInPlace, AppendRotating, Buffer, memory, MInv
<1>5. QED BY <1>1, <1>2, <1>3, <1>4 DEF Appends

LEMMA FlushesMark ==
  ASSUME SoundEnvironment, MInv, Flushes
  PROVE  Marked'
<1>1. IInv /\ Marked /\ TypeOK
  BY DEF MInv, IInv
<1>2. CASE Sync \/ PeriodicFlush \/ WriteFails
  BY <1>1, <1>2, MarkUnchanged DEF Sync, PeriodicFlush, WriteFails, memory
<1>3. CASE SyncFails
  BY <1>1, <1>3, SyncFailsUnseen, MarkUnchanged DEF memory
<1>4. CASE RollbackFails
  BY <1>4 DEF RollbackFails, SoundEnvironment
<1>5. ASSUME NEW w \in Seq(Frame), Writes(w), open, UNCHANGED <<open, cur, durable>>,
             \A i \in 1..Len(Base) : w[i] = Base[i]
      PROVE  Marked'
  <2>1. /\ cur \in DOMAIN disk /\ disk[cur].stable \in Nat /\ disk[cur].stable <= Len(Base)
        /\ Len(Base) \in Nat
        /\ \A i \in 1..Len(Base) : Base[i] = disk[cur].data[i]
    BY <1>1, <1>5, StableFrames
  <2>2. PICK f \in File : /\ disk' = [disk EXCEPT ![cur] = f]
                          /\ f.data = w /\ f.stable = disk[cur].stable
                          /\ f.named = disk[cur].named /\ f.dropped = disk[cur].dropped
    BY <1>1, <1>5, <2>1, WritesFile
  <2>3. disk'[cur] = f
    BY <2>1, <2>2
  <2>4. \A i \in 1..disk[cur].stable : i \in 1..Len(Base)
    BY <2>1
  <2>5. \A i \in 1..disk[cur].stable : disk'[cur].data[i] = disk[cur].data[i]
    BY <1>5, <2>1, <2>2, <2>3, <2>4
  <2>6. QED BY <1>1, <1>5, <2>2, <2>3, <2>5, BehindMark
<1>6. open /\ pc \in {"write", "partial"} =>
        /\ Base \in Seq(Frame) /\ pending \in Seq(Frame) /\ Body \in Seq(Frame)
        /\ \A i \in 1..Len(Base) : Body[i] = Base[i]
  BY <1>1, CurrentFile DEF IInv
<1>7. CASE WriteAll \/ WriteRest
  <2>1. open /\ UNCHANGED <<open, cur, durable>> /\ pc \in {"write", "partial"}
    BY <1>1, <1>7 DEF WriteAll, WriteRest, TypeOK
  <2>2. Writes(Body)
    BY <1>7 DEF WriteAll, WriteRest, Body, Base
  <2>3. QED BY <1>5, <1>6, <2>1, <2>2
<1>8. CASE Rollback
  <2>1. open /\ UNCHANGED <<open, cur, durable>> /\ pc = "partial" /\ Writes(Base)
    BY <1>1, <1>8 DEF Rollback, TypeOK, Base
  <2>2. QED BY <1>5, <1>6, <2>1
<1>9. CASE \E k \in 0..Len(pending), torn \in BOOLEAN : WritePart(k, torn)
  <2>1. PICK k \in 0..Len(pending), torn \in BOOLEAN : WritePart(k, torn)
    BY <1>9
  <2> DEFINE rest == IF torn THEN <<[pending[k+1] EXCEPT !.kind = "torn"]>> ELSE <<>>
             w    == disk[cur].data \o SubSeq(pending, 1, k) \o rest
  <2>2. /\ open /\ UNCHANGED <<open, cur, durable>> /\ pc = "write" /\ k < Len(pending)
        /\ Writes(w) /\ Base = disk[cur].data
    BY <1>1, <2>1 DEF WritePart, TypeOK, Base
  <2>3. Base \in Seq(Frame) /\ pending \in Seq(Frame)
    BY <1>6, <2>2
  <2>4. rest \in Seq(Frame)
    <3>1. k + 1 \in 1..Len(pending)
      BY <2>2, <2>3
    <3>2. pending[k+1] \in Frame
      BY <2>3, <3>1
    <3>3. [pending[k+1] EXCEPT !.kind = "torn"] \in Frame
      BY <3>2 DEF Frame
    <3>4. QED BY <3>3
  <2>5. SubSeq(pending, 1, k) \in Seq(Frame)
    BY <2>3
  <2> HIDE DEF rest
  <2>6. w \in Seq(Frame) /\ \A i \in 1..Len(Base) : w[i] = Base[i]
    <3> DEFINE c == SubSeq(pending, 1, k)
    <3>1. w = Base \o c \o rest /\ c \in Seq(Frame)
      BY <2>2, <2>5
    <3> HIDE DEF w, c
    <3>2. Base \o c \o rest \in Seq(Frame) /\ \A i \in 1..Len(Base) : (Base \o c \o rest)[i] = Base[i]
      BY <2>3, <2>4, <3>1, ConcatFront
    <3>3. QED BY <3>1, <3>2
  <2> HIDE DEF w
  <2>7. QED BY <1>5, <2>2, <2>6
<1>10. CASE SyncFile
  <2> DEFINE f == Synced(disk[cur])
  <2>1. /\ open /\ open' = open /\ pc = "sync" /\ pending = <<>> /\ unsynced > 0
        /\ durable' = unsynced /\ disk' = [disk EXCEPT ![cur] = f] /\ cur' = cur
    BY <1>1, <1>10 DEF TypeOK, SyncFile, IInv, Control
  <2>2. /\ cur \in DOMAIN disk /\ disk[cur].data \in Seq(Frame) /\ disk[cur] \in File
        /\ ~disk[cur].dropped
    BY <1>1, <2>1, StableFrames, FileType DEF IInv, FilesChained
  <2>3. f.data = disk[cur].data /\ f.stable = Len(disk[cur].data) /\ f.named
    BY <2>2, SyncedFile
  <2> HIDE DEF f
  <2>4. disk'[cur] = f
    BY <2>1, <2>2
  <2>5. Base = disk[cur].data
    BY <2>1 DEF Base
  <2>6. unsynced = LastSeqOf(disk[cur].data, cur - 1)
    BY <1>1, <2>1, <2>5 DEF IInv, Unsynced
  <2>7. Complete(disk[cur].data, Len(disk[cur].data))
    BY <1>1, <2>1, <2>5 DEF IInv, Current
  <2>8. Len(disk[cur].data) = 0 <=> disk[cur].data = <<>>
    BY <2>2
  <2>9. QED BY <2>1, <2>3, <2>4, <2>6, <2>7, <2>8 DEF Marked, SeqAt, LastSeqOf
<1>11. QED BY <1>2, <1>3, <1>4, <1>7, <1>8, <1>9, <1>10 DEF Flushes

\* A scan that succeeds keeps what the last complete record ends.
LEMMA ScanLast ==
  ASSUME SoundEnvironment, IInv, NEW top \in DOMAIN disk,
         NEW k \in 0..Len(disk[top].data),
         ScanKeeps(disk[top].data, top - 1, k)
  PROVE  LastSeqOf(SubSeq(disk[top].data, 1, k), top - 1) = SeqAt(disk[top].data, k, top - 1)
<1>1. disk[top].data \in Seq(Frame) /\ top - 1 \in Nat /\ Chained(disk[top].data, top - 1)
  BY FileType DEF IInv, FilesChained
<1>2. /\ SubSeq(disk[top].data, 1, k) \in Seq(Frame) /\ Len(SubSeq(disk[top].data, 1, k)) = k
      /\ \A i \in 1..k : SubSeq(disk[top].data, 1, k)[i] = disk[top].data[i]
  BY <1>1, ChainedPrefix
<1>3. k > 0 => k \in 1..k
  OBVIOUS
<1>4. SubSeq(disk[top].data, 1, k) = <<>> <=> k = 0
  BY <1>2
<1>5. QED BY <1>2, <1>3, <1>4 DEF SeqAt, LastSeqOf

\* Recovery puts the watermark at the end of what it keeps and has synced.
LEMMA RecoverLockedMarks ==
  ASSUME SoundEnvironment, IInv, NEW top \in DOMAIN disk,
         NEW k \in 0..Len(disk[top].data),
         RecoverLocked(DOMAIN disk, top, k),
         disk[top].stable = Len(disk[top].data),
         disk[top].data # <<>> => disk[top].named
  PROVE  Marked'
<1> DEFINE d == SubSeq(disk[top].data, 1, k)
<1>1. /\ DOMAIN Contents(DOMAIN disk) = DOMAIN disk
      /\ Contents(DOMAIN disk)[top] = disk[top].data
      /\ [Contents(DOMAIN disk) EXCEPT ![top] = SubSeq(@, 1, k)][top] = d
  BY DEF Contents
<1>2. /\ ScanKeeps(disk[top].data, top - 1, k) /\ disk' = Trimmed(top, k)
      /\ durable' = LastSeqOf(d, top - 1) /\ cur' = top
  BY <1>1 DEF RecoverLocked, Recovers
<1>3. /\ d \in Seq(Frame) /\ Complete(d, Len(d))
      /\ disk'[top].data = d /\ disk'[top].stable = Len(d)
      /\ d # <<>> => disk'[top].named
  BY <1>2, TrimmedFile DEF IInv
<1> HIDE DEF d
<1>4. Len(d) = 0 <=> d = <<>>
  BY <1>3
<1>5. QED BY <1>2, <1>3, <1>4 DEF Marked, SeqAt, LastSeqOf

\* What Recover finds: the current segment, complete and synced.
LEMMA RecoverFinds ==
  ASSUME IInv, NEW top \in segs \cap DOMAIN disk,
         NEW k \in 0..Len(disk[top].data), RecoverScan(top, k)
  PROVE  /\ open /\ segs = DOMAIN disk /\ top = cur
         /\ Base = disk[cur].data /\ Body = Base /\ unsynced = 0 /\ pending = <<>>
         /\ disk[top].stable = Len(disk[top].data)
         /\ disk[top].data # <<>> => disk[top].named
         /\ RecoverLocked(DOMAIN disk, top, k)
<1>1. pc = "recover" /\ shut = {} /\ RecoverLocked(segs, top, k)
  BY DEF RecoverScan
<1>2. open /\ segs = DOMAIN disk
  BY <1>1 DEF IInv, TypeOK, Directory
<1>3. cur \in DOMAIN disk /\ Newest(segs, cur) /\ \A s \in DOMAIN disk : s \in Nat
  BY <1>2, CurrentFile, FileType DEF IInv, Directory
<1>4. DOMAIN Contents(segs) = segs
  BY DEF Contents
<1>5. Newest(segs, top)
  BY <1>1, <1>4 DEF RecoverLocked, Recovers
<1>6. top = cur
  BY <1>2, <1>3, <1>5 DEF Newest
<1>7. Base = disk[cur].data /\ unsynced = 0 /\ pending = <<>>
  BY <1>1 DEF IInv, Control, Base
<1>8. Body = Base
  BY <1>2, <1>7, StableFrames DEF Body
<1>9. disk[top].stable = Len(disk[top].data) /\ (disk[top].data # <<>> => disk[top].named)
  BY <1>2, <1>6, <1>7 DEF IInv, Unsynced
<1>10. QED BY <1>1, <1>2, <1>6, <1>7, <1>8, <1>9

LEMMA RecoveriesMark ==
  ASSUME SoundEnvironment, MInv, Recoveries
  PROVE  Marked'
<1>1. IInv /\ Marked
  BY DEF MInv
<1>2. CASE Recover \/ RecoverFails
  BY <1>1, <1>2, MarkUnchanged DEF Recover, RecoverFails, memory
<1>3. CASE \E top \in segs \cap DOMAIN disk :
             \E k \in 0..Len(disk[top].data) : RecoverScan(top, k)
  <2>1. PICK top \in segs \cap DOMAIN disk :
          \E k \in 0..Len(disk[top].data) : RecoverScan(top, k)
    BY <1>3
  <2>2. PICK k \in 0..Len(disk[top].data) : RecoverScan(top, k)
    BY <2>1
  <2>3. QED BY <1>1, <2>2, RecoverFinds, RecoverLockedMarks
<1>4. CASE \E top \in DOMAIN disk :
             \E k \in 0..Len(disk[top].data) : OpenDirectory(top, k) \/ OpenInterrupted(top, k)
  <2>1. PICK top \in DOMAIN disk :
          \E k \in 0..Len(disk[top].data) : OpenDirectory(top, k) \/ OpenInterrupted(top, k)
    BY <1>4
  <2>2. PICK k \in 0..Len(disk[top].data) : OpenDirectory(top, k) \/ OpenInterrupted(top, k)
    BY <2>1
  <2>3. CASE OpenInterrupted(top, k)
    BY <2>3 DEF OpenInterrupted, memory, Marked
  <2>4. CASE OpenDirectory(top, k)
    <3>1. ~open /\ RecoverLocked(DOMAIN disk, top, k)
      BY <2>4 DEF OpenDirectory
    <3>2. disk[top].stable = Len(disk[top].data) /\ disk[top].named
      BY <1>1, <3>1 DEF IInv, FilesSettled
    <3>3. QED BY <1>1, <3>1, <3>2, RecoverLockedMarks
  <2>5. QED BY <2>2, <2>3, <2>4
<1>5. CASE OpenEmptyDirectory
  <2>1. disk' = [s \in {1} |-> NewFile] /\ cur' = 1 /\ durable' = 0
    BY <1>5 DEF OpenEmptyDirectory
  <2>2. disk'[1] = NewFile /\ NewFile.stable = 0
    BY <2>1 DEF NewFile
  <2>3. QED BY <2>1, <2>2 DEF Marked, SeqAt, Complete
<1>6. QED BY <1>1, <1>2, <1>3, <1>4, <1>5, RecoveriesSplit

\* A cleaning never touches the current segment, except that it names it.
LEMMA CleanLeaves ==
  ASSUME IInv, NEW s \in segs, CleanSegment(s) \/ CleanFails(s)
  PROVE  /\ open /\ UNCHANGED <<open, cur, durable, hist, promised>>
         /\ cur \in DOMAIN disk' /\ disk'[cur].data = disk[cur].data
         /\ disk'[cur].stable = disk[cur].stable
         /\ disk[cur].named => disk'[cur].named
<1>1. pc = "clean" /\ s \in call.todo /\ UNCHANGED <<open, cur, durable, hist, promised>>
  BY DEF CleanSegment, CleanFails, Oldest, history
<1>2. open /\ cur \in DOMAIN disk /\ s # cur
  BY <1>1 DEF IInv, TypeOK
<1>3. CASE CleanSegment(s)
  <2>1. disk' = [t \in DOMAIN disk \ {s} |-> [disk[t] EXCEPT !.named = TRUE]]
    BY <1>3 DEF CleanSegment
  <2>2. disk[cur] \in File
    BY <1>2, FileType DEF IInv
  <2>3. cur \in DOMAIN disk' /\ disk'[cur] = [disk[cur] EXCEPT !.named = TRUE]
    BY <1>2, <2>1
  <2>4. QED BY <1>1, <1>2, <2>2, <2>3 DEF File
<1>4. CASE CleanFails(s)
  <2>1. disk' = disk \/ disk' = [t \in DOMAIN disk \ {s} |-> disk[t]]
    BY <1>4 DEF CleanFails
  <2>2. QED BY <1>1, <1>2, <2>1
<1>5. QED BY <1>3, <1>4

LEMMA CleaningsMark ==
  ASSUME SoundEnvironment, MInv, Cleanings
  PROVE  Marked'
<1>1. IInv /\ Marked
  BY DEF MInv
<1>2. CASE \E s \in segs : CleanSegment(s) \/ CleanFails(s)
  BY <1>1, <1>2, CleanLeaves DEF Marked
<1>3. CASE CleanReturns
  BY <1>1, <1>3, MarkUnchanged DEF CleanReturns
<1>4. CASE \E mark \in 1..MaxSeq + 1 : CleanOldSegments(mark)
  BY <1>1, <1>4, MarkUnchanged DEF CleanOldSegments, memory
<1>5. CASE (\E seq \in 1..MaxSeq : Corrupt(seq)) \/ CorruptFlips
  BY <1>1, <1>5 DEF Corrupt, CorruptFlips, SoundEnvironment, IInv, Control
<1>6. QED BY <1>2, <1>3, <1>4, <1>5 DEF Cleanings

LEMMA EndingsMark ==
  ASSUME MInv, Endings
  PROVE  Marked'
<1>1. CASE Close
  BY <1>1, MarkUnchanged DEF Close, memory, MInv
<1>2. CASE CloseReturns \/ ProcessCrash \/ PowerLoss
  <2>1. open' = FALSE
    BY <1>2 DEF CloseReturns, ProcessCrash, PowerLoss, Down
  <2>2. QED BY <2>1 DEF Marked
<1>3. QED BY <1>1, <1>2 DEF Endings

\* The watermark is the end of what no loss of power takes from the current segment.
THEOREM WatermarkHolds ==
  ASSUME SoundEnvironment
  PROVE  Spec => []MInv
<1>1. Init => MInv
  BY InitEstablishes DEF MInv, Marked, Init
<1>2. MInv /\ [Next]_vars => MInv'
  <2>1. SUFFICES ASSUME MInv, [Next]_vars PROVE MInv'
    OBVIOUS
  <2>2. IInv /\ Marked
    BY <2>1 DEF MInv
  <2>3. CASE Next
    <3>1. IInv'
      BY <2>2, <2>3, AppendsKeep, FlushesKeep, RecoveriesKeep, CleaningsKeep, EndingsKeep DEF Next
    <3>2. Marked'
      BY <2>1, <2>3, AppendsMark, FlushesMark, RecoveriesMark, CleaningsMark, EndingsMark DEF Next
    <3>3. QED BY <3>1, <3>2 DEF MInv
  <2>4. CASE UNCHANGED vars
    BY <2>2, <2>4, StutterKeeps, MarkUnchanged DEF MInv, vars, memory
  <2>5. QED BY <2>1, <2>3, <2>4
<1>3. QED BY <1>1, <1>2, PTL DEF Spec

-------------------------------------------------------------------------------
(* What the watermark says of the log.                                      *)

\* With nothing buffered, the file holds the log up to the last sequence.
LEMMA AtEnd ==
  ASSUME MInv, open, pc # "partial", pending = <<>>
  PROVE  /\ LastSeqOf(disk[cur].data, cur - 1) = nextSeq - 1
         /\ AllOk(disk[cur].data) /\ Complete(disk[cur].data, Len(disk[cur].data))
         /\ unsynced > 0 => unsynced = nextSeq - 1
         /\ unsynced = 0 => durable = nextSeq - 1
         /\ durable \in Nat /\ nextSeq - 1 \in Nat /\ durable <= nextSeq - 1
         /\ nextSeq = Len(hist) + 1
<1>1. IInv /\ Marked
  BY DEF MInv
<1>2. Base = disk[cur].data /\ disk[cur].data \in Seq(Frame)
  BY <1>1, StableFrames DEF Base
<1>3. Body = Base
  BY <1>2 DEF Body
<1>4. /\ LastSeqOf(disk[cur].data, cur - 1) = nextSeq - 1 /\ nextSeq = Len(hist) + 1
      /\ AllOk(disk[cur].data) /\ Complete(disk[cur].data, Len(disk[cur].data))
  BY <1>1, <1>2, <1>3 DEF IInv, Current
<1>5. /\ unsynced > 0 => unsynced = nextSeq - 1
      /\ unsynced = 0 => disk[cur].stable = Len(disk[cur].data)
      /\ durable < nextSeq
  BY <1>1, <1>2, <1>4 DEF IInv, Unsynced
<1>6. Len(disk[cur].data) = 0 <=> disk[cur].data = <<>>
  BY <1>2
<1>7. unsynced = 0 => durable = nextSeq - 1
  BY <1>1, <1>4, <1>5, <1>6 DEF Marked, SeqAt, LastSeqOf
<1>8. durable \in Nat /\ nextSeq \in Nat \ {0}
  BY <1>1 DEF IInv, TypeOK
<1>9. QED BY <1>4, <1>5, <1>7, <1>8

\* Whatever fails, what was appended and is not durable still waits for a flush, in
\* the buffer or as unsyncedHigh: flushLocked never forgets an fsync that failed.
THEOREM AlwaysNothingStranded ==
  ASSUME SoundEnvironment
  PROVE  Spec => []NothingStranded
<1>1. MInv => NothingStranded
  <2>1. SUFFICES ASSUME MInv, Idle, durable < nextSeq - 1, pending = <<>>
                 PROVE  unsynced = nextSeq - 1
    BY DEF NothingStranded
  <2>2. open /\ pc = "idle" /\ unsynced \in Nat
    BY <2>1 DEF Idle, MInv, IInv, TypeOK
  <2>3. /\ unsynced > 0 => unsynced = nextSeq - 1
        /\ unsynced = 0 => durable = nextSeq - 1
        /\ durable \in Nat /\ nextSeq - 1 \in Nat
    BY <2>1, <2>2, AtEnd
  <2>4. QED BY <2>1, <2>2, <2>3
<1>2. QED BY <1>1, WatermarkHolds, PTL

\* The sequences that a scan keeps, and those in front of the first damage.
LEMMA ScanKeepsWhole ==
  ASSUME NEW base \in Nat, NEW d \in Seq(Frame), Chained(d, base),
         NEW k \in 0..Len(d), \A i \in 1..k : d[i].kind = "ok", Complete(d, k),
         NEW n \in 0..Len(d), ScanKeeps(d, base, n)
  PROVE  /\ k <= n
         /\ SeqAt(d, k, base) \in Nat /\ SeqAt(d, n, base) \in Nat
         /\ SeqAt(d, k, base) <= SeqAt(d, n, base)
<1>1. k <= n
  BY ScanReaches
<1>2. \A i \in 1..Len(d) : base < d[i].seq /\ d[i].seq \in Nat
  BY LastFrame, FrameTypes
<1>3. SeqAt(d, k, base) \in Nat /\ SeqAt(d, n, base) \in Nat
  <2>1. k > 0 => k \in 1..Len(d)
    OBVIOUS
  <2>2. n > 0 => n \in 1..Len(d)
    OBVIOUS
  <2>3. QED BY <1>2, <2>1, <2>2 DEF SeqAt
<1>4. SeqAt(d, k, base) <= SeqAt(d, n, base)
  <2>1. CASE k = 0
    <3>1. n > 0 => n \in 1..Len(d)
      OBVIOUS
    <3>2. QED BY <1>2, <2>1, <3>1 DEF SeqAt
  <2>2. CASE k > 0
    <3>1. n \in 1..Len(d) /\ k \in 1..n
      BY <1>1, <2>2
    <3>2. d[k].seq <= d[n].seq
      BY <3>1 DEF Chained, Ordered
    <3>3. QED BY <2>2, <3>1, <3>2 DEF SeqAt
  <2>3. QED BY <2>1, <2>2
<1>5. QED BY <1>1, <1>3, <1>4

\* Recover finds the log it had.
LEMMA RecoverRepeats ==
  ASSUME SoundEnvironment, MInv, NEW top \in segs \cap DOMAIN disk,
         NEW k \in 0..Len(disk[top].data), RecoverScan(top, k)
  PROVE  /\ open /\ top = cur /\ k = Len(disk[cur].data) /\ disk' = disk /\ cur' = cur
         /\ durable = nextSeq - 1 /\ durable' = durable /\ nextSeq' = nextSeq /\ hist' = hist
         /\ promised' = IF durable > promised THEN durable ELSE promised
<1>1. /\ open /\ top = cur /\ unsynced = 0 /\ pending = <<>> /\ IInv
      /\ RecoverLocked(DOMAIN disk, top, k)
  BY RecoverFinds DEF MInv
<1>2. pc = "recover"
  BY DEF RecoverScan
<1>3. /\ LastSeqOf(disk[cur].data, cur - 1) = nextSeq - 1 /\ durable = nextSeq - 1
      /\ AllOk(disk[cur].data) /\ Complete(disk[cur].data, Len(disk[cur].data))
      /\ nextSeq \in Nat \ {0} /\ nextSeq = Len(hist) + 1 /\ hist \in Seq(Payloads)
  BY <1>1, <1>2, AtEnd DEF IInv, TypeOK, MInv
<1> DEFINE d == disk[cur].data
           c == SubSeq(d, 1, k)
<1>4. d \in Seq(Frame) /\ cur - 1 \in Nat /\ Chained(d, cur - 1)
  BY <1>1, StableFrames DEF IInv, FilesChained
<1>5. /\ DOMAIN Contents(DOMAIN disk) = DOMAIN disk
      /\ Contents(DOMAIN disk)[top] = disk[top].data
      /\ [Contents(DOMAIN disk) EXCEPT ![top] = SubSeq(@, 1, k)][top] = c
  BY <1>1 DEF Contents
<1>6. /\ ScanKeeps(d, cur - 1, k) /\ disk' = Trimmed(top, k) /\ cur' = top
      /\ nextSeq' = LastSeqOf(c, cur - 1) + 1 /\ durable' = LastSeqOf(c, cur - 1)
      /\ hist' = SubSeq(hist, 1, LastSeqOf(c, cur - 1))
      /\ promised' = IF LastSeqOf(c, cur - 1) > promised
                     THEN LastSeqOf(c, cur - 1) ELSE promised
  BY <1>1, <1>5 DEF RecoverLocked, Recovers
<1>7. k = Len(d)
  <2>1. Len(d) \in 0..Len(d) /\ k \in 0..Len(d)
    BY <1>1, <1>4
  <2>2. Len(d) <= k
    BY <1>3, <1>4, <1>6, <2>1, ScanKeepsWhole DEF AllOk
  <2>3. QED BY <2>1, <2>2
<1>8. c = d
  BY <1>4, <1>7
<1> HIDE DEF d, c
<1>9. disk' = disk
  BY <1>1, <1>6, <1>7 DEF Trimmed, d
<1>10. LastSeqOf(c, cur - 1) = nextSeq - 1
  BY <1>3, <1>8 DEF d
<1>11. SubSeq(hist, 1, Len(hist)) = hist
  BY <1>3
<1>12. nextSeq - 1 = Len(hist) /\ nextSeq - 1 + 1 = nextSeq
  BY <1>3
<1>13. QED BY <1>1, <1>3, <1>6, <1>7, <1>9, <1>10, <1>11, <1>12 DEF d

\* A flush raises the watermark to what it synced, and Recover, behind its own flush,
\* finds all that was durable before.
LEMMA DurableGrows ==
  ASSUME SoundEnvironment, MInv, [Next]_vars, open, open'
  PROVE  durable' >= durable
<1>1. durable \in Nat
  BY DEF MInv, IInv, TypeOK
<1>2. CASE Appends
  <2>1. durable' = durable
    BY <1>2 DEF Appends, AppendInPlace, AppendRotating, CreateSegment, CreateFails,
                AppendToNewSegment, Buffer, memory
  <2>2. QED BY <1>1, <2>1
<1>3. CASE Flushes
  <2>1. CASE SyncFile
    <3>1. durable' = unsynced /\ pc = "sync"
      BY <2>1 DEF SyncFile
    <3>2. pending = <<>> /\ unsynced > 0
      BY <3>1 DEF MInv, IInv, Control
    <3>3. QED BY <3>1, <3>2, AtEnd
  <2>2. CASE ~SyncFile
    <3>1. durable' = durable
      BY <1>3, <2>2 DEF Flushes, Sync, PeriodicFlush, WriteAll, WriteRest, WritePart,
                        WriteFails, Rollback, RollbackFails, SyncFails, memory
    <3>2. QED BY <1>1, <3>1
  <2>3. QED BY <2>1, <2>2
<1>4. CASE Recoveries
  <2>1. CASE Recover \/ RecoverFails
    BY <1>1, <2>1 DEF Recover, RecoverFails, memory
  <2>2. CASE \E top \in segs \cap DOMAIN disk :
               \E k \in 0..Len(disk[top].data) : RecoverScan(top, k)
    <3>1. PICK top \in segs \cap DOMAIN disk :
            \E k \in 0..Len(disk[top].data) : RecoverScan(top, k)
      BY <2>2
    <3>2. PICK k \in 0..Len(disk[top].data) : RecoverScan(top, k)
      BY <3>1
    <3>3. QED BY <1>1, <3>2, RecoverRepeats
  <2>3. IInv
    BY DEF MInv
  <2>4. QED BY <1>4, <2>1, <2>2, <2>3, RecoveriesSplit DEF OpenDirectory, OpenInterrupted,
                                                         OpenEmptyDirectory
<1>5. CASE Cleanings
  <2>1. durable' = durable
    BY <1>5 DEF Cleanings, CleanOldSegments, CleanSegment, CleanFails, CleanReturns,
                Corrupt, CorruptFlips, memory
  <2>2. QED BY <1>1, <2>1
<1>6. CASE Endings
  <2>1. durable' = durable
    BY <1>6 DEF Endings, Close, CloseReturns, ProcessCrash, PowerLoss, Down, memory
  <2>2. QED BY <1>1, <2>1
<1>7. CASE UNCHANGED vars
  BY <1>1, <1>7 DEF vars, memory
<1>8. QED BY <1>2, <1>3, <1>4, <1>5, <1>6, <1>7 DEF Next

\* DurableSeq never goes back while the log is open: a flush raises it to what it
\* synced, and Recover, behind its own flush, finds all that was durable before.
THEOREM AlwaysDurableMonotonic ==
  ASSUME SoundEnvironment
  PROVE  Spec => DurableMonotonic
<1>1. MInv /\ [Next]_vars => [open /\ open' => durable' >= durable]_vars
  BY DurableGrows
<1>2. QED BY <1>1, WatermarkHolds, PTL DEF Spec, DurableMonotonic

-------------------------------------------------------------------------------
(* The WAL is a durable log.                                                *)

\* A removal may not fail: a segment that is removed without a sync of its directory
\* may stand in front of one that a loss of power takes away.
ReliableRemoval == "remove" \notin Faults

\* The frames of d hold every sequence up to n where no scan passes over it.
Keeps(d, base, n) ==
  \E k \in 0..Len(d) : /\ \A i \in 1..k : d[i].kind = "ok"
                       /\ Complete(d, k) /\ n <= SeqAt(d, k, base)

\* What was promised is what the watermark says, or what a dead process left.
Promises == open => promised = durable
Left ==
  ~open => \/ DOMAIN disk = {} /\ promised = 0
           \/ \E top \in DOMAIN disk : /\ Newest(DOMAIN disk, top)
                                       /\ Keeps(disk[top].data, top - 1, promised)

\* The current segment cannot vanish, or the one in front of it holds the log.
Rooted ==
  open => disk[cur].named \/ cur = 1 \/ \E s \in DOMAIN disk : Adjacent(DOMAIN disk, s, cur)

RInv == MInv /\ Promises /\ Left /\ Rooted

LEMMA TopIsCurrent ==
  ASSUME IInv, open
  PROVE  Newest(DOMAIN disk, cur)
<1>1. cur \in DOMAIN disk /\ DOMAIN disk \subseteq segs /\ Newest(segs, cur)
  BY CurrentFile DEF IInv, Directory
<1>2. QED BY <1>1 DEF Newest

LEMMA NewestIsOne ==
  ASSUME IInv, NEW s, NEW t, Newest(DOMAIN disk, s), Newest(DOMAIN disk, t)
  PROVE  s = t
<1>1. s \in Nat /\ t \in Nat /\ s <= t /\ t <= s
  BY DEF Newest, IInv, TypeOK
<1>2. QED BY <1>1

\* A frame that keeps its place keeps what lies in front of it.
LEMMA KeepsFront ==
  ASSUME NEW base \in Nat, NEW d \in Seq(Frame), NEW e \in Seq(Frame), NEW n \in Nat,
         NEW k \in 0..Len(d), k <= Len(e), \A i \in 1..k : e[i] = d[i],
         \A i \in 1..k : d[i].kind = "ok", Complete(d, k), n <= SeqAt(d, k, base)
  PROVE  Keeps(e, base, n)
<1>1. k \in 0..Len(e) /\ (k > 0 => k \in 1..k)
  OBVIOUS
<1>2. Complete(e, k) /\ SeqAt(e, k, base) = SeqAt(d, k, base)
  BY <1>1 DEF Complete, SeqAt
<1>3. \A i \in 1..k : e[i].kind = "ok"
  OBVIOUS
<1>4. QED BY <1>1, <1>2, <1>3 DEF Keeps

\* A process that ends leaves what it promised: in the current segment, or, when that
\* one vanishes, in the segment in front of it.
LEMMA DownLeaves ==
  ASSUME RInv, open, open' = FALSE, promised' = promised, DOMAIN disk' \subseteq DOMAIN disk,
         \A s \in DOMAIN disk' :
           /\ disk'[s].data \in Seq(Frame) /\ disk[s].stable <= Len(disk'[s].data)
           /\ \A i \in 1..disk[s].stable : disk'[s].data[i] = disk[s].data[i],
         \A s \in DOMAIN disk \ DOMAIN disk' : ~disk[s].named
  PROVE  Left'
<1>1. IInv /\ Marked /\ promised = durable /\ promised \in Nat
  BY DEF RInv, MInv, Promises, IInv, TypeOK
<1>2. Newest(DOMAIN disk, cur) /\ cur \in DOMAIN disk /\ cur \in Nat \ {0} /\ cur - 1 \in Nat
      /\ \A s \in DOMAIN disk : s \in Nat \ {0}
  BY <1>1, TopIsCurrent, StableFrames, FileType DEF IInv
<1>3. CASE cur \in DOMAIN disk'
  <2>1. Newest(DOMAIN disk', cur)
    BY <1>2, <1>3 DEF Newest
  <2> DEFINE d == disk[cur].data
             k == disk[cur].stable
  <2>2. /\ d \in Seq(Frame) /\ k \in 0..Len(d) /\ Complete(d, k)
        /\ promised <= SeqAt(d, k, cur - 1)
    BY <1>1, StableFrames DEF Marked
  <2>3. \A i \in 1..k : d[i].kind = "ok"
    <3>1. /\ Len(Base) \in Nat /\ k <= Len(Base) /\ k \in Nat /\ AllOk(Base)
          /\ \A i \in 1..Len(Base) : Base[i] = d[i]
      BY <1>1, StableFrames DEF IInv, Current
    <3>2. \A i \in 1..k : i \in 1..Len(Base)
      BY <3>1
    <3>3. QED BY <3>1, <3>2 DEF AllOk
  <2>4. disk'[cur].data \in Seq(Frame) /\ k <= Len(disk'[cur].data)
        /\ \A i \in 1..k : disk'[cur].data[i] = d[i]
    BY <1>3
  <2>5. Keeps(disk'[cur].data, cur - 1, promised)
    BY <1>1, <1>2, <2>2, <2>3, <2>4, KeepsFront
  <2>6. QED BY <1>3, <2>1, <2>5 DEF Left
<1>4. CASE cur \notin DOMAIN disk'
  <2>1. ~disk[cur].named /\ disk[cur].stable \in Nat
    BY <1>1, <1>2, <1>4, StableFrames
  <2>2. promised = cur - 1
    BY <1>1, <2>1 DEF Marked, SeqAt
  <2>3. CASE cur = 1
    <3>1. DOMAIN disk' = {}
      BY <1>2, <1>4, <2>3 DEF Newest
    <3>2. QED BY <2>2, <2>3, <3>1 DEF Left
  <2>4. CASE cur # 1
    <3>1. PICK s \in DOMAIN disk : Adjacent(DOMAIN disk, s, cur)
      BY <2>1, <2>4 DEF RInv, Rooted
    <3>2. s < cur
      BY <3>1 DEF Adjacent
    <3>3. Stored(disk[s]) /\ LastSeqOf(disk[s].data, s - 1) + 1 = cur
      BY <1>1, <1>2, <3>1, <3>2 DEF IInv, FilesLinked
    <3>4. s \in DOMAIN disk'
      BY <3>3 DEF Stored
    <3>5. Newest(DOMAIN disk', s)
      <4>1. SUFFICES ASSUME NEW t \in DOMAIN disk' PROVE t <= s
        BY <3>4 DEF Newest
      <4>2. t \in DOMAIN disk /\ t <= cur /\ t # cur /\ t \in Nat /\ s \in Nat
        BY <1>2, <1>4 DEF Newest
      <4>3. ~(s < t /\ t < cur)
        BY <3>1, <4>2 DEF Adjacent
      <4>4. QED BY <1>2, <4>2, <4>3
    <3> DEFINE d == disk[s].data
    <3>6. d \in Seq(Frame) /\ s - 1 \in Nat /\ disk[s].stable = Len(d)
          /\ AllOk(d) /\ Complete(d, Len(d)) /\ Chained(d, s - 1)
      BY <1>1, <3>3, FileType DEF IInv, FilesChained, Stored
    <3>7. LastSeqOf(d, s - 1) \in Nat
      BY <3>6, LastSeqType
    <3>8. LastSeqOf(d, s - 1) = promised
      BY <1>2, <2>2, <3>3, <3>7
    <3>9. Len(d) = 0 <=> d = <<>>
      BY <3>6
    <3>10. promised <= SeqAt(d, Len(d), s - 1)
      BY <1>1, <3>8, <3>9 DEF SeqAt, LastSeqOf
    <3>11. disk'[s].data \in Seq(Frame) /\ Len(d) <= Len(disk'[s].data)
           /\ \A i \in 1..Len(d) : disk'[s].data[i] = d[i]
      BY <3>4, <3>6
    <3>12. Len(d) \in 0..Len(d) /\ \A i \in 1..Len(d) : d[i].kind = "ok"
      BY <3>6 DEF AllOk
    <3> HIDE DEF d
    <3>13. Keeps(disk'[s].data, s - 1, promised)
      BY <1>1, <3>6, <3>10, <3>11, <3>12, KeepsFront
    <3>14. QED BY <3>4, <3>5, <3>13 DEF Left
  <2>5. QED BY <2>3, <2>4
<1>5. QED BY <1>3, <1>4

\* What the next Open finds: no less than was promised, no more than was appended.
LEMMA OpenFinds ==
  ASSUME SoundEnvironment, RInv, ~open, NEW top \in DOMAIN disk,
         NEW n \in 0..Len(disk[top].data), Recovers(Contents(DOMAIN disk), top, n)
  PROVE  /\ SeqAt(disk[top].data, n, top - 1) \in Nat
         /\ promised <= SeqAt(disk[top].data, n, top - 1)
         /\ SeqAt(disk[top].data, n, top - 1) <= Len(hist)
         /\ Keeps(SubSeq(disk[top].data, 1, n), top - 1, promised)
<1> DEFINE d == disk[top].data
<1>1. IInv /\ promised \in Nat /\ hist \in Seq(Payloads)
  BY DEF RInv, MInv, IInv, TypeOK
<1>2. /\ d \in Seq(Frame) /\ top - 1 \in Nat /\ Chained(d, top - 1)
      /\ top - 1 <= Len(hist) /\ Carries(d, hist)
  BY <1>1, FileType DEF IInv, FilesChained
<1>3. Newest(DOMAIN disk, top) /\ ScanKeeps(d, top - 1, n)
  <2>1. DOMAIN Contents(DOMAIN disk) = DOMAIN disk /\ Contents(DOMAIN disk)[top] = d
    BY DEF Contents
  <2>2. QED BY <2>1 DEF Recovers
<1>4. PICK s \in DOMAIN disk : /\ Newest(DOMAIN disk, s)
                               /\ Keeps(disk[s].data, s - 1, promised)
  BY DEF RInv, Left
<1>5. s = top
  BY <1>1, <1>3, <1>4, NewestIsOne
<1>6. PICK k \in 0..Len(d) : /\ \A i \in 1..k : d[i].kind = "ok"
                             /\ Complete(d, k) /\ promised <= SeqAt(d, k, top - 1)
  BY <1>4, <1>5 DEF Keeps
<1> HIDE DEF d
<1>7. n \in 0..Len(d)
  BY DEF d
<1>8. /\ k <= n /\ SeqAt(d, k, top - 1) \in Nat /\ SeqAt(d, n, top - 1) \in Nat
      /\ SeqAt(d, k, top - 1) <= SeqAt(d, n, top - 1)
  BY <1>2, <1>3, <1>6, <1>7, ScanKeepsWhole
<1>9. promised <= SeqAt(d, n, top - 1)
  BY <1>1, <1>6, <1>8
<1>10. SeqAt(d, n, top - 1) <= Len(hist)
  <2>1. n > 0 => n \in 1..Len(d)
    BY <1>2, <1>7
  <2>2. QED BY <1>2, <2>1 DEF SeqAt, Carries
<1>11. Keeps(SubSeq(d, 1, n), top - 1, promised)
  <2>1. /\ SubSeq(d, 1, n) \in Seq(Frame) /\ Len(SubSeq(d, 1, n)) = n
        /\ \A i \in 1..n : SubSeq(d, 1, n)[i] = d[i]
    BY <1>2, <1>7, ChainedPrefix
  <2>2. \A i \in 1..k : i \in 1..n
    BY <1>7, <1>8
  <2>3. QED BY <1>1, <1>2, <1>6, <1>8, <2>1, <2>2, KeepsFront
<1>12. QED BY <1>8, <1>9, <1>10, <1>11 DEF d

\* What a loss of power leaves of a file begins with its stable frames.
LEMMA RemainsFront ==
  ASSUME NEW f \in File, TornEnd(f.data), f.stable <= Len(f.data), NEW e \in Remains(f)
  PROVE  /\ e \in Seq(Frame) /\ f.stable <= Len(e)
         /\ \A i \in 1..f.stable : e[i] = f.data[i]
<1>1. f.data \in Seq(Frame) /\ f.stable \in Nat /\ Len(f.data) \in Nat
  BY DEF File
<1>2. CASE \E k \in f.stable..Len(f.data) : e = SubSeq(f.data, 1, k)
  <2>1. PICK k \in f.stable..Len(f.data) : e = CutTo(f.data, k)
    BY <1>2 DEF CutTo
  <2>2. k \in 0..Len(f.data) /\ f.stable <= k
    BY <1>1
  <2>3. /\ RestOf(CutTo(f.data, k), f.data) /\ Len(CutTo(f.data, k)) = k
        /\ \A i \in 1..k : CutTo(f.data, k)[i] = f.data[i]
    BY <1>1, <2>2, CutToRest
  <2>4. \A i \in 1..f.stable : i \in 1..k
    BY <1>1, <2>2
  <2>5. QED BY <2>1, <2>2, <2>3, <2>4 DEF RestOf
<1>3. CASE \E k \in f.stable..Len(f.data) - 1 :
             e = Append(SubSeq(f.data, 1, k), [f.data[k+1] EXCEPT !.kind = "torn"])
  <2>1. PICK k \in f.stable..Len(f.data) - 1 : e = TornAt(f.data, k)
    BY <1>3 DEF TornAt
  <2>2. k \in 0..Len(f.data) - 1 /\ f.stable <= k
    BY <1>1
  <2>3. /\ RestOf(TornAt(f.data, k), f.data) /\ Len(TornAt(f.data, k)) = k + 1
        /\ \A i \in 1..k : TornAt(f.data, k)[i] = f.data[i]
    BY <1>1, <2>2, TornAtRest
  <2>4. \A i \in 1..f.stable : i \in 1..k
    BY <1>1, <2>2
  <2>5. f.stable <= Len(e)
    BY <1>1, <2>1, <2>2, <2>3
  <2>6. QED BY <2>1, <2>3, <2>4, <2>5 DEF RestOf
<1>4. QED BY <1>2, <1>3 DEF Remains

\* A step of the log, or none.
LogStep == [Log!Next]_(Log!vars)

RKept == Promises' /\ Left' /\ Rooted' /\ LogStep

\* A step of a running process that only writes to its files.
LEMMA QuietStep ==
  ASSUME RInv, open, UNCHANGED <<open, cur, durable, hist, promised>>,
         DOMAIN disk' = DOMAIN disk, disk[cur].named => disk'[cur].named
  PROVE  RKept
<1>1. Promises' /\ Left' /\ Rooted'
  BY DEF RInv, Promises, Left, Rooted
<1>2. LogStep
  BY DEF LogStep, Log!vars
<1>3. QED BY <1>1, <1>2 DEF RKept

\* A record that is appended extends the log.
LEMMA BufferRefines ==
  ASSUME RInv, open, NEW p \in Payloads, NEW force, Buffer(p, force)
  PROVE  RKept
<1>1. hist' = Append(hist, p) /\ UNCHANGED <<disk, open, cur, durable, promised>>
  BY DEF Buffer
<1>2. Promises' /\ Left' /\ Rooted'
  BY <1>1 DEF RInv, Promises, Left, Rooted
<1>3. Log!Write(p)
  BY <1>1 DEF Log!Write
<1>4. QED BY <1>2, <1>3 DEF RKept, LogStep, Log!Next

LEMMA AppendsRefine ==
  ASSUME RInv, Appends
  PROVE  RKept
<1>1. IInv /\ TypeOK
  BY DEF RInv, MInv, IInv
<1>2. CASE \E p \in Payloads, force \in BOOLEAN : AppendInPlace(p, force) \/ AppendRotating(p, force)
  <2>1. PICK p \in Payloads, force \in BOOLEAN : AppendInPlace(p, force) \/ AppendRotating(p, force)
    BY <1>2
  <2>2. CASE AppendInPlace(p, force)
    BY <2>2, BufferRefines DEF AppendInPlace, Idle
  <2>3. CASE AppendRotating(p, force)
    BY <2>3, QuietStep DEF AppendRotating, Idle, memory, history
  <2>4. QED BY <2>1, <2>2, <2>3
<1>3. CASE CreateSegment
  <2>1. /\ pc = "create" /\ nextSeq \notin DOMAIN disk /\ cur' = nextSeq
        /\ disk' = [s \in DOMAIN disk \cup {nextSeq} |-> IF s = nextSeq THEN NewFile ELSE disk[s]]
        /\ UNCHANGED <<open, durable, hist, promised>>
    BY <1>3 DEF CreateSegment, history
  <2>2. open /\ pending = <<>> /\ nextSeq \in Nat \ {0}
    BY <1>1, <2>1 DEF TypeOK, IInv, Control
  <2>3. /\ cur \in DOMAIN disk /\ cur \in Nat \ {0} /\ cur - 1 \in Nat
        /\ Newest(DOMAIN disk, cur) /\ \A s \in DOMAIN disk : s \in Nat \ {0}
    BY <1>1, <2>2, StableFrames, TopIsCurrent, FileType
  <2>4. LastSeqOf(disk[cur].data, cur - 1) = nextSeq - 1
    BY <2>1, <2>2, AtEnd DEF RInv
  <2>5. cur - 1 <= nextSeq - 1
    <3>1. disk[cur].data \in Seq(Frame) /\ Chained(disk[cur].data, cur - 1)
      BY <1>1, <2>3, FileType DEF IInv, FilesChained
    <3>2. QED BY <2>3, <2>4, <3>1, LastSeqType
  <2>6. cur < nextSeq
    BY <2>1, <2>2, <2>3, <2>5
  <2>7. Adjacent(DOMAIN disk', cur, nextSeq)
    BY <2>1, <2>2, <2>3, <2>6 DEF Adjacent, Newest
  <2>8. Promises' /\ Left' /\ Rooted'
    BY <2>1, <2>2, <2>3, <2>7 DEF RInv, Promises, Left, Rooted
  <2>9. LogStep
    BY <2>1 DEF LogStep, Log!vars
  <2>10. QED BY <2>8, <2>9 DEF RKept
<1>4. CASE CreateFails
  <2>1. open
    BY <1>1, <1>4 DEF TypeOK, CreateFails
  <2>2. QED BY <1>4, <2>1, QuietStep DEF CreateFails, memory, history
<1>5. CASE AppendToNewSegment
  <2>1. open /\ call.payload \in Payloads
    BY <1>1, <1>5 DEF TypeOK, AppendToNewSegment, Call
  <2>2. QED BY <1>5, <2>1, BufferRefines DEF AppendToNewSegment
<1>6. QED BY <1>2, <1>3, <1>4, <1>5 DEF Appends

LEMMA FlushesRefine ==
  ASSUME SoundEnvironment, RInv, Flushes
  PROVE  RKept
<1>1. IInv /\ TypeOK
  BY DEF RInv, MInv, IInv
<1>2. open
  BY <1>1 DEF Flushes, Sync, PeriodicFlush, WriteAll, WriteRest, SyncFile, WritePart, WriteFails,
              Rollback, RollbackFails, SyncFails, Idle, TypeOK
<1>3. /\ cur \in DOMAIN disk /\ disk[cur] \in File /\ disk \in [DOMAIN disk -> File]
  BY <1>1, <1>2, StableFrames, FileType DEF TypeOK
<1>4. CASE Sync \/ PeriodicFlush \/ WriteFails
  BY <1>2, <1>4, QuietStep DEF Sync, PeriodicFlush, WriteFails, memory, history
<1>5. CASE SyncFails
  <2>1. disk' = disk /\ UNCHANGED <<memory, history>>
    BY <1>1, <1>5, SyncFailsUnseen
  <2>2. QED BY <1>2, <2>1, QuietStep DEF memory, history
<1>6. CASE RollbackFails
  BY <1>6 DEF RollbackFails, SoundEnvironment
<1>7. ASSUME NEW d, Writes(d), UNCHANGED <<open, cur, durable, hist, promised>>
      PROVE  RKept
  <2>1. disk' = [disk EXCEPT ![cur].data = d]
    BY <1>7 DEF Writes
  <2>2. DOMAIN disk' = DOMAIN disk /\ disk'[cur] = [disk[cur] EXCEPT !.data = d]
    BY <1>3, <2>1
  <2>3. disk'[cur].named = disk[cur].named
    BY <1>3, <2>2 DEF File
  <2>4. QED BY <1>2, <1>7, <2>2, <2>3, QuietStep
<1>8. CASE WriteAll \/ WriteRest \/ Rollback
  BY <1>7, <1>8 DEF WriteAll, WriteRest, Rollback, history
<1>9. CASE \E k \in 0..Len(pending), torn \in BOOLEAN : WritePart(k, torn)
  <2>1. PICK k \in 0..Len(pending), torn \in BOOLEAN : WritePart(k, torn)
    BY <1>9
  <2> DEFINE w == disk[cur].data \o SubSeq(pending, 1, k)
                    \o IF torn THEN <<[pending[k+1] EXCEPT !.kind = "torn"]>> ELSE <<>>
  <2>2. Writes(w) /\ UNCHANGED <<open, cur, durable, hist, promised>>
    BY <2>1 DEF WritePart, history
  <2> HIDE DEF w
  <2>3. QED BY <1>7, <2>2
<1>10. CASE SyncFile
  <2> DEFINE f == Synced(disk[cur])
  <2>1. /\ pc = "sync" /\ durable' = unsynced /\ UNCHANGED <<open, cur, hist>>
        /\ promised' = IF unsynced > promised THEN unsynced ELSE promised
        /\ disk' = [disk EXCEPT ![cur] = f]
    BY <1>10 DEF SyncFile
  <2>2. pending = <<>> /\ unsynced > 0 /\ ~disk[cur].dropped
    BY <1>1, <1>3, <2>1 DEF IInv, Control, FilesChained
  <2>3. f.named
    BY <1>3, <2>2, SyncedFile
  <2> HIDE DEF f
  <2>4. DOMAIN disk' = DOMAIN disk /\ disk'[cur] = f
    BY <1>3, <2>1
  <2>5. /\ unsynced = nextSeq - 1 /\ durable <= unsynced /\ durable \in Nat
        /\ unsynced \in Nat /\ unsynced = Len(hist)
    <3>1. /\ unsynced = nextSeq - 1 /\ durable \in Nat /\ nextSeq - 1 \in Nat
          /\ durable <= nextSeq - 1 /\ nextSeq = Len(hist) + 1
      BY <1>2, <2>1, <2>2, AtEnd DEF RInv
    <3>2. hist \in Seq(Payloads)
      BY <1>1 DEF TypeOK
    <3>3. QED BY <3>1, <3>2
  <2>6. promised = durable
    BY <1>2 DEF RInv, Promises
  <2>7. promised' = unsynced
    BY <2>1, <2>5, <2>6
  <2>8. Promises' /\ Left' /\ Rooted'
    BY <1>2, <2>1, <2>3, <2>4, <2>7 DEF Promises, Left, Rooted
  <2>9. LogStep
    <3>1. CASE durable = unsynced
      BY <2>1, <2>6, <2>7, <3>1 DEF LogStep, Log!vars
    <3>2. CASE durable < unsynced
      <4>1. Log!Force(unsynced) /\ unsynced \in 1..Len(hist)
        BY <1>2, <2>1, <2>2, <2>5, <2>6, <2>7, <3>2 DEF Log!Force
      <4>2. QED BY <4>1 DEF LogStep, Log!Next
    <3>3. QED BY <2>5, <3>1, <3>2
  <2>10. QED BY <2>8, <2>9 DEF RKept
<1>11. QED BY <1>4, <1>5, <1>6, <1>8, <1>9, <1>10 DEF Flushes

LEMMA RecoveriesRefine ==
  ASSUME SoundEnvironment, RInv, Recoveries
  PROVE  RKept
<1>1. /\ IInv /\ TypeOK /\ MInv /\ promised \in Nat /\ hist \in Seq(Payloads)
  BY DEF RInv, MInv, IInv, TypeOK
<1>2. CASE Recover \/ RecoverFails
  <2>1. open
    BY <1>1, <1>2 DEF Recover, RecoverFails, Idle, TypeOK
  <2>2. QED BY <1>2, <2>1, QuietStep DEF Recover, RecoverFails, memory, history
<1>3. CASE \E top \in segs \cap DOMAIN disk :
             \E k \in 0..Len(disk[top].data) : RecoverScan(top, k)
  <2>1. PICK top \in segs \cap DOMAIN disk :
          \E k \in 0..Len(disk[top].data) : RecoverScan(top, k)
    BY <1>3
  <2>2. PICK k \in 0..Len(disk[top].data) : RecoverScan(top, k)
    BY <2>1
  <2>3. /\ open /\ disk' = disk /\ cur' = cur /\ durable' = durable /\ hist' = hist
        /\ promised' = IF durable > promised THEN durable ELSE promised
    BY <1>1, <2>2, RecoverRepeats
  <2>4. open' = open
    BY <2>2 DEF RecoverScan
  <2>5. promised' = promised
    BY <1>1, <2>3 DEF RInv, Promises
  <2>6. QED BY <2>3, <2>4, <2>5, QuietStep
<1>4. CASE \E top \in DOMAIN disk :
             \E k \in 0..Len(disk[top].data) : OpenDirectory(top, k) \/ OpenInterrupted(top, k)
  <2>1. PICK top \in DOMAIN disk :
          \E k \in 0..Len(disk[top].data) : OpenDirectory(top, k) \/ OpenInterrupted(top, k)
    BY <1>4
  <2>2. PICK k \in 0..Len(disk[top].data) : OpenDirectory(top, k) \/ OpenInterrupted(top, k)
    BY <2>1
  <2> DEFINE d == SubSeq(disk[top].data, 1, k)
             n == SeqAt(disk[top].data, k, top - 1)
  <2>3. /\ ~open /\ Recovers(Contents(DOMAIN disk), top, k) /\ disk' = Trimmed(top, k)
        /\ disk[top].stable = Len(disk[top].data) /\ disk[top].named
    BY <1>1, <2>2 DEF OpenDirectory, OpenInterrupted, RecoverLocked, IInv, FilesSettled
  <2>4. ScanKeeps(disk[top].data, top - 1, k) /\ Newest(DOMAIN disk, top)
    <3>1. /\ DOMAIN Contents(DOMAIN disk) = DOMAIN disk
          /\ Contents(DOMAIN disk)[top] = disk[top].data
      BY DEF Contents
    <3>2. QED BY <2>3, <3>1 DEF Recovers
  <2>5. n \in Nat /\ promised <= n /\ n <= Len(hist) /\ Keeps(d, top - 1, promised)
    BY <2>3, OpenFinds
  <2>6. DOMAIN disk' = DOMAIN disk /\ disk'[top].data = d /\ disk'[top].named
    BY <1>1, <2>3, <2>4, TrimmedFile DEF IInv
  <2>7. LastSeqOf(d, top - 1) = n
    BY <1>1, <2>4, ScanLast
  <2> HIDE DEF d, n
  <2>8. CASE OpenInterrupted(top, k)
    <3>1. UNCHANGED <<open, hist, promised>>
      BY <2>8 DEF OpenInterrupted, memory, history
    <3>2. Promises' /\ Left' /\ Rooted'
      BY <2>3, <2>4, <2>5, <2>6, <3>1 DEF Promises, Left, Rooted
    <3>3. LogStep
      BY <3>1 DEF LogStep, Log!vars
    <3>4. QED BY <3>2, <3>3 DEF RKept
  <2>9. CASE OpenDirectory(top, k)
    <3>1. /\ DOMAIN Contents(DOMAIN disk) = DOMAIN disk
          /\ SubSeq(Contents(DOMAIN disk)[top], 1, k) = d
          /\ [Contents(DOMAIN disk) EXCEPT ![top] = SubSeq(@, 1, k)][top] = d
      BY DEF Contents, d
    <3> DEFINE last == LastSeqOf(d, top - 1)
    <3>2. /\ open' = TRUE /\ durable' = last /\ cur' = top /\ hist' = SubSeq(hist, 1, last)
          /\ promised' = IF last > promised THEN last ELSE promised
      <4>1. RecoverLocked(DOMAIN disk, top, k) /\ open' = TRUE
        BY <2>9 DEF OpenDirectory
      <4>2. /\ durable' = last /\ cur' = top /\ hist' = SubSeq(hist, 1, last)
            /\ promised' = IF last > promised THEN last ELSE promised
        BY <3>1, <4>1 DEF RecoverLocked
      <4>3. QED BY <4>1, <4>2
    <3> HIDE DEF last
    <3>l. last = n
      BY <2>7 DEF last
    <3>3. promised' = n
      BY <1>1, <2>5, <3>2, <3>l
    <3>4. Promises' /\ Left' /\ Rooted'
      BY <2>6, <3>2, <3>l, <3>3 DEF Promises, Left, Rooted
    <3>5. Log!Restart(n) /\ n \in promised..Len(hist)
      BY <1>1, <2>3, <2>5, <3>2, <3>l, <3>3 DEF Log!Restart
    <3>6. QED BY <3>4, <3>5 DEF RKept, LogStep, Log!Next
  <2>10. QED BY <2>2, <2>8, <2>9
<1>5. CASE OpenEmptyDirectory
  <2>1. /\ ~open /\ DOMAIN disk = {} /\ open' = TRUE /\ cur' = 1 /\ durable' = 0
        /\ hist' = <<>> /\ promised' = promised
    BY <1>5 DEF OpenEmptyDirectory
  <2>2. promised = 0
    BY <2>1 DEF RInv, Left
  <2>3. Promises' /\ Left' /\ Rooted'
    BY <2>1, <2>2 DEF Promises, Left, Rooted
  <2>4. hist' = SubSeq(hist, 1, 0) /\ 0 \in promised..Len(hist)
    BY <1>1, <2>1, <2>2
  <2>5. Log!Restart(0)
    BY <2>1, <2>2, <2>4 DEF Log!Restart
  <2>6. QED BY <2>3, <2>4, <2>5 DEF RKept, LogStep, Log!Next
<1>6. QED BY <1>1, <1>2, <1>3, <1>4, <1>5, RecoveriesSplit

LEMMA CleaningsRefine ==
  ASSUME SoundEnvironment, ReliableRemoval, RInv, Cleanings
  PROVE  RKept
<1>1. IInv /\ TypeOK
  BY DEF RInv, MInv, IInv
<1>2. CASE \E s \in segs : CleanSegment(s) \/ CleanFails(s)
  <2>1. PICK s \in segs : CleanSegment(s)
    BY <1>2 DEF CleanFails, ReliableRemoval
  <2>2. /\ open /\ UNCHANGED <<open, cur, durable, hist, promised>> /\ cur \in DOMAIN disk'
    BY <1>1, <2>1, CleanLeaves
  <2>3. disk'[cur].named
    <3>1. disk' = [t \in DOMAIN disk \ {s} |-> [disk[t] EXCEPT !.named = TRUE]]
      BY <2>1 DEF CleanSegment
    <3>2. cur \in DOMAIN disk /\ disk'[cur] = [disk[cur] EXCEPT !.named = TRUE]
      BY <2>2, <3>1
    <3>3. disk[cur] \in File
      BY <1>1, <3>2, FileType
    <3>4. QED BY <3>2, <3>3 DEF File
  <2>4. Promises' /\ Left' /\ Rooted'
    BY <2>2, <2>3 DEF RInv, Promises, Left, Rooted
  <2>5. LogStep
    BY <2>2 DEF LogStep, Log!vars
  <2>6. QED BY <2>4, <2>5 DEF RKept
<1>3. CASE CleanReturns
  <2>1. open
    BY <1>1, <1>3 DEF TypeOK, CleanReturns
  <2>2. QED BY <1>3, <2>1, QuietStep DEF CleanReturns, history
<1>4. CASE \E mark \in 1..MaxSeq + 1 : CleanOldSegments(mark)
  <2>1. open /\ UNCHANGED <<disk, memory, history>>
    BY <1>4 DEF CleanOldSegments, Idle
  <2>2. QED BY <2>1, QuietStep DEF memory, history
<1>5. CASE (\E seq \in 1..MaxSeq : Corrupt(seq)) \/ CorruptFlips
  BY <1>1, <1>5 DEF Corrupt, CorruptFlips, SoundEnvironment, IInv, Control
<1>6. QED BY <1>2, <1>3, <1>4, <1>5 DEF Cleanings

LEMMA EndingsRefine ==
  ASSUME SoundEnvironment, RInv, Endings
  PROVE  RKept
<1>1. IInv /\ TypeOK /\ promised \in Nat
  BY DEF RInv, MInv, IInv, TypeOK
<1>2. CASE Close
  BY <1>2, QuietStep DEF Close, Idle, memory, history
<1>3. ASSUME Down, Left' PROVE RKept
  <2>1. open' = FALSE /\ UNCHANGED <<hist, promised>>
    BY <1>3 DEF Down, history
  <2>2. Promises' /\ Rooted'
    BY <2>1 DEF Promises, Rooted
  <2>3. LogStep
    <3>1. CASE open
      <4>1. Log!Stop
        BY <2>1, <3>1 DEF Log!Stop
      <4>2. QED BY <4>1 DEF LogStep, Log!Next
    <3>2. CASE ~open
      BY <1>1, <2>1, <3>2 DEF LogStep, Log!vars, TypeOK
    <3>3. QED BY <3>1, <3>2
  <2>4. QED BY <1>3, <2>2, <2>3 DEF RKept
<1>4. \A s \in DOMAIN disk :
        /\ disk[s] \in File /\ disk[s].data \in Seq(Frame) /\ ~disk[s].dropped
        /\ disk[s].stable \in Nat /\ disk[s].stable <= Len(disk[s].data)
        /\ TornEnd(disk[s].data)
  BY <1>1, FileType DEF IInv, FilesChained
<1>5. CASE CloseReturns \/ ProcessCrash
  <2>1. open /\ Down /\ disk' = LeftBehind
    BY <1>1, <1>5 DEF CloseReturns, ProcessCrash, TypeOK
  <2>2. disk' = [s \in DOMAIN disk |->
                   [disk[s] EXCEPT !.named = TRUE,
                                   !.stable = IF disk[s].dropped THEN @ ELSE Len(disk[s].data)]]
    BY <2>1 DEF LeftBehind, SoundEnvironment
  <2>3. ASSUME NEW s \in DOMAIN disk
        PROVE  disk'[s].data = disk[s].data
    <3>1. disk'[s] = [disk[s] EXCEPT !.named = TRUE, !.stable = Len(disk[s].data)]
      BY <1>4, <2>2
    <3>2. QED BY <1>4, <3>1 DEF File
  <2>4. open' = FALSE /\ promised' = promised /\ DOMAIN disk' = DOMAIN disk
    BY <2>1, <2>2 DEF Down, history
  <2>5. Left'
    BY <1>4, <2>1, <2>3, <2>4, DownLeaves
  <2>6. QED BY <1>3, <2>1, <2>5
<1>6. CASE PowerLoss
  <2>1. PICK gone \in SUBSET {s \in DOMAIN disk : ~disk[s].named} :
          \E left \in [Dirty \ gone -> UNION {Remains(disk[s]) : s \in Dirty}] :
            /\ \A s \in Dirty \ gone : left[s] \in Remains(disk[s])
            /\ disk' = [s \in DOMAIN disk \ gone |->
                          Settled(IF s \in Dirty THEN left[s] ELSE disk[s].data)]
            /\ Down
    BY <1>6 DEF PowerLoss
  <2>2. PICK left \in [Dirty \ gone -> UNION {Remains(disk[s]) : s \in Dirty}] :
          /\ \A s \in Dirty \ gone : left[s] \in Remains(disk[s])
          /\ disk' = [s \in DOMAIN disk \ gone |->
                        Settled(IF s \in Dirty THEN left[s] ELSE disk[s].data)]
          /\ Down
    BY <2>1
  <2>3. DOMAIN disk' = DOMAIN disk \ gone /\ open' = FALSE /\ promised' = promised
    BY <2>2 DEF Down, history
  <2>4. ASSUME NEW s \in DOMAIN disk'
        PROVE  disk'[s].data = IF s \in Dirty THEN left[s] ELSE disk[s].data
    BY <2>2, <2>3 DEF Settled
  <2>5. CASE ~open
    <3>1. \A s \in DOMAIN disk : s \notin Dirty /\ s \notin gone
      <4>1. \A s \in DOMAIN disk : disk[s].stable = Len(disk[s].data) /\ disk[s].named
        BY <1>1, <2>5 DEF IInv, FilesSettled
      <4>2. \A s \in DOMAIN disk : Len(disk[s].data) \in Nat
        BY <1>4
      <4>3. QED BY <2>1, <4>1, <4>2 DEF Dirty
    <3>2. DOMAIN disk' = DOMAIN disk /\ \A s \in DOMAIN disk : disk'[s].data = disk[s].data
      BY <2>3, <2>4, <3>1
    <3>3. Left'
      BY <2>3, <2>5, <3>2 DEF RInv, Left
    <3>4. QED BY <1>3, <2>2, <3>3
  <2>6. CASE open
    <3>1. ASSUME NEW s \in DOMAIN disk'
          PROVE  /\ disk'[s].data \in Seq(Frame) /\ disk[s].stable <= Len(disk'[s].data)
                 /\ \A i \in 1..disk[s].stable : disk'[s].data[i] = disk[s].data[i]
      <4>1. s \in DOMAIN disk /\ s \notin gone
        BY <2>3
      <4>2. CASE s \notin Dirty
        BY <1>4, <2>4, <4>1, <4>2
      <4>3. CASE s \in Dirty
        <5>1. disk'[s].data \in Remains(disk[s])
          BY <2>2, <2>4, <4>1, <4>3
        <5>2. QED BY <1>4, <4>1, <5>1, RemainsFront
      <4>4. QED BY <4>2, <4>3
    <3>2. \A s \in DOMAIN disk \ DOMAIN disk' : ~disk[s].named
      BY <2>1, <2>3
    <3>3. Left'
      BY <2>3, <2>6, <3>1, <3>2, DownLeaves
    <3>4. QED BY <1>3, <2>2, <3>3
  <2>7. QED BY <2>5, <2>6
<1>7. QED BY <1>2, <1>5, <1>6 DEF Endings

\* Every step keeps the invariant, and is a step of the log or none.
LEMMA StepRefines ==
  ASSUME SoundEnvironment, ReliableRemoval, RInv, [Next]_vars, MInv'
  PROVE  RInv' /\ LogStep
<1>1. SUFFICES RKept
  BY DEF RInv, RKept
<1>2. CASE Next
  BY <1>2, AppendsRefine, FlushesRefine, RecoveriesRefine, CleaningsRefine, EndingsRefine DEF Next
<1>3. CASE UNCHANGED vars
  <2>1. UNCHANGED <<disk, open, cur, durable, hist, promised>>
    BY <1>3 DEF vars, memory, history
  <2>2. Promises' /\ Left' /\ Rooted'
    BY <2>1 DEF RInv, Promises, Left, Rooted
  <2>3. LogStep
    BY <2>1 DEF LogStep, Log!vars
  <2>4. QED BY <2>2, <2>3 DEF RKept
<1>4. QED BY <1>2, <1>3

LEMMA PromisesHold ==
  ASSUME SoundEnvironment, ReliableRemoval
  PROVE  /\ Init => RInv /\ Log!Init
         /\ Spec => []RInv
<1>1. Init => RInv /\ Log!Init
  <2>1. SUFFICES ASSUME Init PROVE RInv /\ Log!Init
    OBVIOUS
  <2>2. MInv
    BY <2>1, InitEstablishes DEF MInv, Marked, Init
  <2>3. Promises /\ Left /\ Rooted
    BY <2>1 DEF Init, Promises, Left, Rooted
  <2>4. QED BY <2>1, <2>2, <2>3 DEF RInv, Log!Init, Init
<1>2. RInv /\ [Next]_vars /\ MInv' => RInv'
  BY StepRefines
<1>3. Spec => []RInv
  BY <1>1, <1>2, WatermarkHolds, PTL DEF Spec
<1>4. QED BY <1>1, <1>3

\* Where removals do not fail, the WAL is a durable log: appends extend it, a flush
\* or a recovery never promises less, and however the process or the machine stops,
\* Open brings back a prefix that holds all that was ever reported durable.
THEOREM WalImplementsDurableLog ==
  ASSUME SoundEnvironment, ReliableRemoval
  PROVE  Spec => ImplementsDurableLog
<1>1. RInv /\ [Next]_vars /\ RInv' => [Log!Next]_(Log!vars)
  BY StepRefines DEF RInv, LogStep
<1>2. QED BY <1>1, PromisesHold, PTL DEF Spec, ImplementsDurableLog, Log!Spec
==============================================================================
