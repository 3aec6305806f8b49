---------------------------- MODULE WalIndexProofs ----------------------------
(***************************************************************************)
(* The index and the segment list of the WAL, what a read makes of them,   *)
(* how far segments grow and what never leaves the disk, for every value   *)
(* of the constants in the environment of WalProofs.                       *)
(***************************************************************************)
EXTENDS WalRefinement

-------------------------------------------------------------------------------
(* The index and the list of segments are exact.                            *)

\* The files that are gone are the oldest of the list.
Trailing == \A s \in DOMAIN disk, t \in segs : s < t => t \in DOMAIN disk

\* An indexed record lies in a listed segment, in front of those that follow.
Placed ==
  \A q \in DOMAIN index :
    index[q].seg \in segs /\ \A t \in segs : index[q].seg < t => q < t

PInv == IInv /\ Trailing /\ Placed

LEMMA PlacesUnchanged ==
  ASSUME PInv, DOMAIN disk' = DOMAIN disk, UNCHANGED <<segs, index>>
  PROVE  Trailing' /\ Placed'
BY DEF PInv, Trailing, Placed

LEMMA BufferPlaces ==
  ASSUME PInv, open, NEW p, NEW force, Buffer(p, force)
  PROVE  Trailing' /\ Placed'
<1> DEFINE loc == [seg |-> cur, off |-> Len(disk[cur].data) + Len(pending), n |-> Parts[p]]
<1>1. /\ disk' = disk /\ segs' = segs
      /\ index' = [q \in DOMAIN index \cup {nextSeq} |-> IF q = nextSeq THEN loc ELSE index[q]]
  BY DEF Buffer
<1>2. loc.seg = cur
  OBVIOUS
<1> HIDE DEF loc
<1>3. cur \in segs /\ segs \subseteq Nat /\ \A t \in segs : t <= cur
  BY DEF PInv, IInv, TypeOK, Directory, Newest
<1>4. \A t \in segs : ~(cur < t)
  BY <1>3
<1>5. Placed'
  BY <1>1, <1>2, <1>3, <1>4 DEF PInv, Placed
<1>6. QED BY <1>1, <1>5 DEF PInv, Trailing

LEMMA AppendsPlace ==
  ASSUME PInv, Appends
  PROVE  Trailing' /\ Placed'
<1>1. IInv /\ TypeOK /\ Indexed
  BY DEF PInv, IInv
<1>2. CASE \E p \in Payloads, force \in BOOLEAN : AppendInPlace(p, force) \/ AppendRotating(p, force)
  <2>1. PICK p \in Payloads, force \in BOOLEAN : AppendInPlace(p, force) \/ AppendRotating(p, force)
    BY <1>2
  <2>2. CASE AppendInPlace(p, force)
    BY <2>2, BufferPlaces DEF AppendInPlace, Idle
  <2>3. CASE AppendRotating(p, force)
    BY <2>3, PlacesUnchanged DEF AppendRotating, memory
  <2>4. QED BY <2>1, <2>2, <2>3
<1>3. CASE CreateSegment
  <2>1. /\ DOMAIN disk' = DOMAIN disk \cup {nextSeq} /\ segs' = segs \cup {nextSeq}
        /\ index' = index /\ open
    BY <1>1, <1>3 DEF CreateSegment, TypeOK
  <2>2. \A q \in DOMAIN index : q < nextSeq
    BY <1>1, <2>1 DEF Indexed
  <2>3. cur \in DOMAIN disk /\ Newest(segs, cur)
    BY <1>1, <2>1 DEF IInv, TypeOK, Directory
  <2>4. Trailing'
    <3>1. SUFFICES ASSUME NEW s \in DOMAIN disk', NEW t \in segs, s < t PROVE t \in DOMAIN disk'
      BY <2>1 DEF Trailing
    <3>2. CASE s \in DOMAIN disk
      BY <2>1, <3>1, <3>2 DEF PInv, Trailing
    <3>3. CASE s = nextSeq
      <4>1. cur - 1 <= nextSeq - 1 /\ nextSeq \in Nat /\ cur \in Nat /\ t \in Nat /\ t <= cur
        <5>1. pc = "create" /\ pending = <<>>
          BY <1>1, <1>3 DEF CreateSegment, IInv, Control
        <5>2. Body = disk[cur].data
          BY <1>1, <2>1, <5>1, CurrentFile DEF IInv, Body, Base
        <5>3. LastSeqOf(Body, cur - 1) = nextSeq - 1 /\ Chained(Body, cur - 1)
          BY <1>1, <2>1 DEF IInv, Current
        <5>4. cur - 1 <= LastSeqOf(Body, cur - 1)
          BY <1>1, <2>1, <5>3, CurrentFile, LastSeqType DEF IInv
        <5>5. QED BY <1>1, <2>1, <2>3, <5>3, <5>4 DEF TypeOK, Newest
      <4>2. QED BY <3>1, <3>3, <4>1
    <3>4. QED BY <2>1, <3>2, <3>3
  <2>5. Placed'
    BY <2>1, <2>2 DEF PInv, Placed
  <2>6. QED BY <2>4, <2>5
<1>4. CASE CreateFails
  BY <1>4, PlacesUnchanged DEF CreateFails, memory
<1>5. CASE AppendToNewSegment
  <2>1. open
    BY <1>1, <1>5 DEF TypeOK, AppendToNewSegment
  <2>2. QED BY <1>5, <2>1, BufferPlaces DEF AppendToNewSegment
<1>6. QED BY <1>2, <1>3, <1>4, <1>5 DEF Appends

LEMMA FlushesPlace ==
  ASSUME PInv, Flushes
  PROVE  Trailing' /\ Placed'
<1>1. CASE Sync \/ PeriodicFlush \/ WriteFails \/ RollbackFails
  BY <1>1, PlacesUnchanged DEF Sync, PeriodicFlush, WriteFails, RollbackFails, memory
<1>2. CASE SyncFails
  <2>1. DOMAIN disk' = DOMAIN disk /\ UNCHANGED memory
    BY <1>2 DEF SyncFails
  <2>2. QED BY <2>1, PlacesUnchanged DEF memory
<1>3. CASE SyncFile
  <2>1. DOMAIN disk' = DOMAIN disk /\ UNCHANGED <<segs, index>>
    BY <1>3 DEF SyncFile
  <2>2. QED BY <2>1, PlacesUnchanged
<1>4. ASSUME NEW d, Writes(d), UNCHANGED <<segs, index>>
      PROVE  Trailing' /\ Placed'
  BY <1>4, PlacesUnchanged DEF Writes
<1>5. CASE WriteAll \/ WriteRest \/ Rollback
  BY <1>4, <1>5 DEF WriteAll, WriteRest, Rollback
<1>6. CASE \E k \in 0..Len(pending), torn \in BOOLEAN : WritePart(k, torn)
  <2>1. PICK k \in 0..Len(pending), torn \in BOOLEAN : WritePart(k, torn)
    BY <1>6
  <2> DEFINE w == disk[cur].data \o SubSeq(pending, 1, k)
                    \o IF torn THEN <<[pending[k+1] EXCEPT !.kind = "torn"]>> ELSE <<>>
  <2>2. Writes(w) /\ UNCHANGED <<segs, index>>
    BY <2>1 DEF WritePart
  <2> HIDE DEF w
  <2>3. QED BY <1>4, <2>2
<1>7. QED BY <1>1, <1>2, <1>3, <1>5, <1>6 DEF Flushes

\* A recovery indexes every record where the files hold it.
LEMMA RecoverLockedPlaces ==
  ASSUME SoundEnvironment, IInv, NEW top \in DOMAIN disk,
         NEW k \in 0..Len(disk[top].data),
         RecoverLocked(DOMAIN disk, top, k),
         disk[top].stable = Len(disk[top].data),
         disk[top].data # <<>> => disk[top].named, segs' = DOMAIN disk
  PROVE  Trailing' /\ Placed'
<1> DEFINE files == [Contents(DOMAIN disk) EXCEPT ![top] = SubSeq(@, 1, k)]
<1>1. /\ DOMAIN Contents(DOMAIN disk) = DOMAIN disk
      /\ \A s \in DOMAIN disk : Contents(DOMAIN disk)[s] = disk[s].data
  BY DEF Contents
<1>2. /\ DOMAIN files = DOMAIN disk /\ files[top] = SubSeq(disk[top].data, 1, k)
      /\ \A s \in DOMAIN disk : s # top => files[s] = disk[s].data
  BY <1>1
<1>3. /\ Recovers(Contents(DOMAIN disk), top, k) /\ disk' = Trimmed(top, k)
      /\ index' = IndexOf(files)
  BY <1>2 DEF RecoverLocked
<1> HIDE DEF files
<1>4. Newest(DOMAIN disk, top) /\ ScanKeeps(disk[top].data, top - 1, k)
  BY <1>1, <1>3 DEF Recovers
<1>5. /\ DOMAIN disk' = DOMAIN disk /\ files[top] \in Seq(Frame)
      /\ Chained(files[top], top - 1) /\ Complete(files[top], Len(files[top]))
  BY <1>2, <1>3, <1>4, TrimmedFile DEF IInv
<1>6. \A s \in DOMAIN disk : s \in Nat \ {0}
  BY FileType DEF IInv
<1>7. ASSUME NEW s \in DOMAIN disk
      PROVE  /\ s # top => s < top /\ Stored(disk[s])
             /\ files[s] \in Seq(Frame) /\ Chained(files[s], s - 1)
             /\ Complete(files[s], Len(files[s]))
  <2>1. CASE s = top
    BY <1>5, <2>1
  <2>2. CASE s # top
    <3>1. s < top
      BY <1>4, <1>6, <2>2 DEF Newest
    <3>2. Stored(disk[s])
      BY <3>1 DEF IInv, FilesLinked
    <3>3. disk[s].data \in Seq(Frame) /\ Chained(disk[s].data, s - 1)
      BY FileType DEF IInv, FilesChained
    <3>4. QED BY <1>2, <2>2, <3>1, <3>2, <3>3 DEF Stored
  <2>3. QED BY <2>1, <2>2
<1>8. ASSUME NEW q \in DOMAIN IndexOf(files)
      PROVE  /\ IndexOf(files)[q].seg \in DOMAIN disk
             /\ \A t \in DOMAIN disk : IndexOf(files)[q].seg < t => q < t
  <2> DEFINE loc == IndexOf(files)[q]
  <2>1. \A s \in DOMAIN files : /\ s \in Nat \ {0} /\ files[s] \in Seq(Frame)
                                /\ Chained(files[s], s - 1)
                                /\ Complete(files[s], Len(files[s]))
    BY <1>2, <1>6, <1>7
  <2>2. loc \in Location /\ loc.seg \in DOMAIN files /\ LiesAt(files[loc.seg], q, loc)
    BY <2>1, IndexOfFiles
  <2>3. SUFFICES ASSUME NEW t \in DOMAIN disk, loc.seg < t PROVE q < t
    BY <1>2, <2>2
  <2> DEFINE s == loc.seg
             i == loc.off + 1
  <2> HIDE DEF loc
  <2>4. s \in DOMAIN disk /\ s \in Nat \ {0} /\ t \in Nat /\ t <= top /\ s < t
    BY <1>2, <1>4, <1>6, <2>2, <2>3 DEF Newest
  <2>5. files[s] = disk[s].data /\ Chained(files[s], s - 1) /\ files[s] \in Seq(Frame)
    BY <1>2, <1>6, <1>7, <2>4
  <2>6. i \in 1..Len(files[s]) /\ files[s][i].seq = q
    BY <2>2, <2>5 DEF LiesAt, Location
  <2>7. q <= LastSeqOf(files[s], s - 1)
    BY <2>4, <2>5, <2>6, LastFrame
  <2>8. LastSeqOf(disk[s].data, s - 1) < t
    BY <2>4 DEF IInv, FilesLinked
  <2>9. LastSeqOf(files[s], s - 1) \in Nat /\ q \in Nat
    BY <2>4, <2>5, <2>6, LastSeqType, FrameTypes
  <2>10. QED BY <2>4, <2>5, <2>7, <2>8, <2>9
<1>9. Placed'
  BY <1>3, <1>8 DEF Placed
<1>10. QED BY <1>5, <1>9 DEF Trailing

LEMMA RecoveriesPlace ==
  ASSUME SoundEnvironment, PInv, Recoveries
  PROVE  Trailing' /\ Placed'
<1>1. IInv /\ TypeOK
  BY DEF PInv, IInv
<1>2. CASE Recover \/ RecoverFails
  BY <1>2, PlacesUnchanged DEF Recover, RecoverFails, memory
<1>3. CASE \E top \in segs \cap DOMAIN disk :
             \E k \in 0..Len(disk[top].data) : RecoverScan(top, k)
  <2>1. PICK top \in segs \cap DOMAIN disk :
          \E k \in 0..Len(disk[top].data) : RecoverScan(top, k)
    BY <1>3
  <2>2. PICK k \in 0..Len(disk[top].data) : RecoverScan(top, k)
    BY <2>1
  <2>3. segs' = segs
    BY <2>2 DEF RecoverScan
  <2>4. QED BY <1>1, <2>2, <2>3, RecoverFinds, RecoverLockedPlaces
<1>4. CASE \E top \in DOMAIN disk :
             \E k \in 0..Len(disk[top].data) : OpenDirectory(top, k) \/ OpenInterrupted(top, k)
  <2>1. PICK top \in DOMAIN disk :
          \E k \in 0..Len(disk[top].data) : OpenDirectory(top, k) \/ OpenInterrupted(top, k)
    BY <1>4
  <2>2. PICK k \in 0..Len(disk[top].data) : OpenDirectory(top, k) \/ OpenInterrupted(top, k)
    BY <2>1
  <2>3. ~open /\ disk[top].stable = Len(disk[top].data) /\ disk[top].named
    BY <1>1, <2>2 DEF OpenDirectory, OpenInterrupted, IInv, FilesSettled
  <2>4. CASE OpenDirectory(top, k)
    BY <1>1, <2>3, <2>4, RecoverLockedPlaces DEF OpenDirectory
  <2>5. CASE OpenInterrupted(top, k)
    <3>1. segs' = {} /\ index' = index /\ segs = {}
      BY <1>1, <2>3, <2>5, DownState DEF OpenInterrupted, memory
    <3>2. QED BY <3>1 DEF PInv, Trailing, Placed
  <2>6. QED BY <2>2, <2>4, <2>5
<1>5. CASE OpenEmptyDirectory
  <2>1. DOMAIN disk' = {1} /\ segs' = {1} /\ DOMAIN index' = {}
    BY <1>5 DEF OpenEmptyDirectory
  <2>2. QED BY <2>1 DEF Trailing, Placed
<1>6. QED BY <1>1, <1>2, <1>3, <1>4, <1>5, RecoveriesSplit

LEMMA CleaningsPlace ==
  ASSUME SoundEnvironment, PInv, Cleanings
  PROVE  Trailing' /\ Placed'
<1>1. IInv /\ TypeOK
  BY DEF PInv, IInv, TypeOK, Directory
<1>2. CASE \E s \in segs : CleanSegment(s) \/ CleanFails(s)
  <2>1. PICK s \in segs : CleanSegment(s) \/ CleanFails(s)
    BY <1>2
  <2>2. /\ pc = "clean" /\ Oldest(call.todo, s) /\ segs' = segs /\ index' = index
        /\ DOMAIN disk' = DOMAIN disk \/ DOMAIN disk' = DOMAIN disk \ {s}
    BY <2>1 DEF CleanSegment, CleanFails
  <2>3. Placed'
    BY <2>2 DEF PInv, Placed
  <2>4. Trailing'
    <3>1. SUFFICES ASSUME NEW a \in DOMAIN disk', NEW t \in segs, a < t PROVE t \in DOMAIN disk'
      BY <2>2 DEF Trailing
    <3>2. a \in DOMAIN disk /\ t \in DOMAIN disk
      BY <2>2, <3>1 DEF PInv, Trailing
    <3>3. DOMAIN disk' = DOMAIN disk \ {s} => t # s
      <4>1. SUFFICES ASSUME t = s PROVE FALSE
        OBVIOUS
      <4>2. a \in call.todo /\ a \in Nat /\ s \in Nat
        BY <2>2, <3>1, <3>2, <4>1 DEF PInv, IInv, TypeOK, Cleaning, Oldest
      <4>3. s <= a
        BY <2>2, <4>2 DEF Oldest
      <4>4. QED BY <3>1, <4>1, <4>2, <4>3
    <3>4. QED BY <2>2, <3>2, <3>3
  <2>5. QED BY <2>3, <2>4
<1>3. CASE CleanReturns
  <2>1. /\ disk' = disk /\ segs' = segs \ Old(call.mark) /\ open
        /\ index' = [seq \in {q \in DOMAIN index : q >= call.mark} |-> index[seq]]
    BY <1>1, <1>3 DEF CleanReturns, PInv, IInv, TypeOK
  <2>2. Trailing'
    BY <2>1 DEF PInv, Trailing
  <2>3. ASSUME NEW q \in DOMAIN index, q >= call.mark
        PROVE  index[q].seg \notin Old(call.mark)
    <3> DEFINE s == index[q].seg
    <3>1. SUFFICES ASSUME s \in Old(call.mark) PROVE FALSE
      OBVIOUS
    <3>2. s \in segs \ {cur} /\ EndSeq(s) < call.mark
      BY <3>1 DEF Old
    <3>3. PICK t \in segs : Adjacent(segs, s, t) /\ EndSeq(s) = t - 1
      BY <2>1, <3>2, EndSeqNext DEF PInv
    <3>4. q < t
      BY <3>3 DEF PInv, Placed, Adjacent
    <3>5. q \in Nat /\ t \in Nat /\ call.mark \in Nat
      BY DEF PInv, IInv, TypeOK, Call
    <3>6. QED BY <2>3, <3>2, <3>3, <3>4, <3>5
  <2>4. Placed'
    BY <2>1, <2>3 DEF PInv, Placed
  <2>5. QED BY <2>2, <2>4
<1>4. CASE \E mark \in 1..MaxSeq + 1 : CleanOldSegments(mark)
  BY <1>4, PlacesUnchanged DEF CleanOldSegments, memory
<1>5. CASE (\E seq \in 1..MaxSeq : Corrupt(seq)) \/ CorruptFlips
  BY <1>5 DEF Corrupt, CorruptFlips, SoundEnvironment, PInv, IInv, Control
<1>6. QED BY <1>2, <1>3, <1>4, <1>5 DEF Cleanings

LEMMA PlacesHold ==
  ASSUME SoundEnvironment
  PROVE  Spec => []PInv
<1>1. Init => PInv
  <2>1. SUFFICES ASSUME Init PROVE PInv
    OBVIOUS
  <2>2. IInv
    BY <2>1, InitEstablishes
  <2>3. Trailing /\ Placed
    BY <2>1 DEF Init, Trailing, Placed
  <2>4. QED BY <2>2, <2>3 DEF PInv
<1>2. PInv /\ [Next]_vars /\ IInv' => PInv'
  <2>1. SUFFICES ASSUME PInv, [Next]_vars PROVE Trailing' /\ Placed'
    BY DEF PInv
  <2>2. CASE Endings
    <3>1. CASE Close
      BY <2>1, <3>1, PlacesUnchanged DEF Close, memory
    <3>2. CASE CloseReturns \/ ProcessCrash \/ PowerLoss
      <4>1. segs' = {} /\ index' = <<>>
        BY <3>2 DEF CloseReturns, ProcessCrash, PowerLoss, Down
      <4>2. QED BY <4>1 DEF Trailing, Placed
    <3>3. QED BY <2>2, <3>1, <3>2 DEF Endings
  <2>3. CASE UNCHANGED vars
    BY <2>1, <2>3, PlacesUnchanged DEF vars, memory
  <2>4. QED BY <2>1, <2>2, <2>3, AppendsPlace, FlushesPlace, RecoveriesPlace, CleaningsPlace
            DEF Next
<1>3. QED BY <1>1, <1>2, Inductive, PTL DEF Spec

\* What a segment holds once the buffer is flushed.
LEMMA WrittenIsLogged ==
  ASSUME IInv, Idle, NEW s \in segs \ shut
  PROVE  /\ open /\ s \in DOMAIN disk /\ s \in Nat \ {0} /\ s - 1 \in Nat /\ cur \in Nat
         /\ Written(s) = Logged(s) /\ s <= cur
         /\ Written(s) \in Seq(Frame) /\ Chained(Written(s), s - 1)
         /\ AllOk(Written(s)) /\ Complete(Written(s), Len(Written(s)))
         /\ Carries(Written(s), hist)
<1>1. /\ open /\ pc = "idle" /\ s \in segs /\ s \in DOMAIN disk /\ TypeOK /\ Current
      /\ s \in Nat \ {0} /\ s - 1 \in Nat /\ disk[s].data \in Seq(Frame)
  BY FileType DEF Idle, IInv, TypeOK
<1>2. cur \in DOMAIN disk /\ cur \in Nat /\ s <= cur
  BY <1>1, CurrentFile DEF IInv, Directory, Newest
<1>3. CASE s = cur
  <2>1. Written(s) = Body /\ Logged(s) = Body /\ Body \in Seq(Frame)
    BY <1>1, <1>3, CurrentFile DEF Written, Logged, Body, Base
  <2>2. QED BY <1>1, <1>2, <1>3, <2>1 DEF Current
<1>4. CASE s # cur
  <2>1. Written(s) = disk[s].data /\ Logged(s) = disk[s].data
    BY <1>1, <1>4 DEF Written, Logged
  <2>2. s < cur
    BY <1>1, <1>2, <1>4
  <2>3. Stored(disk[s])
    BY <1>1, <1>2, <2>2 DEF IInv, FilesLinked
  <2>4. Chained(disk[s].data, s - 1) /\ Carries(disk[s].data, hist)
    BY <1>1 DEF IInv, FilesChained
  <2>5. QED BY <1>1, <1>2, <2>1, <2>3, <2>4 DEF Stored
<1>5. QED BY <1>3, <1>4

\* SegmentInfo tells what a segment holds: it starts with the sequence it is named
\* after and ends with the one inferred from its neighbour, although CleanOldSegments
\* and a failed removal leave the list and the directory apart.
THEOREM AlwaysSegmentInfoExact ==
  ASSUME SoundEnvironment
  PROVE  Spec => []SegmentInfoExact
<1>1. PInv => SegmentInfoExact
  <2>1. SUFFICES ASSUME PInv, Idle, NEW s \in segs \ shut
                 PROVE  /\ LastSeqOf(Written(s), s - 1) = EndSeq(s)
                        /\ Written(s) # <<>> => Written(s)[1].seq = s
    BY DEF SegmentInfoExact
  <2>2. IInv
    BY <2>1 DEF PInv
  <2>3. /\ open /\ s \in DOMAIN disk /\ s \in Nat \ {0} /\ s - 1 \in Nat /\ cur \in Nat
        /\ Written(s) = Logged(s) /\ s <= cur /\ Chained(Written(s), s - 1)
    BY <2>1, <2>2, WrittenIsLogged
  <2>4. Written(s) # <<>> => Written(s)[1].seq = s
    <3>1. s - 1 + 1 = s
      BY <2>3
    <3>2. QED BY <2>3, <3>1 DEF Chained, Starts
  <2>5. LastSeqOf(Written(s), s - 1) = EndSeq(s)
    <3>1. CASE s = cur
      <4>1. LastSeqOf(Written(s), s - 1) = nextSeq - 1
        BY <2>2, <2>3, <3>1 DEF IInv, Current, Logged
      <4>2. \A t \in segs : t \in Nat /\ t <= cur
        BY <2>2, <2>3 DEF IInv, TypeOK, Directory, Newest
      <4>3. EndSeq(s) = nextSeq - 1
        BY <2>3, <3>1, <4>2 DEF EndSeq
      <4>4. QED BY <4>1, <4>3
    <3>2. CASE s # cur
      <4>1. s \in segs \ {cur}
        BY <2>1, <3>2
      <4>2. PICK t \in segs : Adjacent(segs, s, t) /\ EndSeq(s) = t - 1
        BY <2>2, <2>3, <4>1, EndSeqNext
      <4>3. DOMAIN disk \subseteq segs /\ t \in DOMAIN disk
        BY <2>1, <2>2, <2>3, <4>2 DEF PInv, Trailing, Adjacent, IInv, Directory
      <4>4. Adjacent(DOMAIN disk, s, t)
        BY <2>3, <4>2, <4>3 DEF Adjacent
      <4>5. LastSeqOf(disk[s].data, s - 1) + 1 = t
        BY <2>2, <2>3, <4>3, <4>4 DEF IInv, FilesLinked
      <4>6. Logged(s) = disk[s].data
        BY <3>2 DEF Logged
      <4>7. LastSeqOf(Written(s), s - 1) \in Nat
        BY <2>1, <2>2, <2>3, WrittenIsLogged, LastSeqType
      <4>8. QED BY <2>3, <4>2, <4>5, <4>6, <4>7
    <3>3. QED BY <3>1, <3>2
  <2>6. QED BY <2>4, <2>5
<1>2. QED BY <1>1, PlacesHold, PTL

-------------------------------------------------------------------------------
(* Reads.                                                                   *)

\* Only a cleaning under way has closed handles, those of the segments it takes.
Shut ==
  /\ pc # "clean" => shut = {}
  /\ "clean" \in {pc, resume} => call.todo \cup shut \subseteq Old(call.mark)

LEMMA ShutUnchanged ==
  ASSUME Shut, UNCHANGED <<segs, shut, cur, nextSeq>>, pc # "clean", pc' # "clean" \/ resume = "clean",
         "clean" \in {pc', resume'} => resume = "clean" /\ call' = call
  PROVE  Shut'
<1>1. shut' = {}
  BY DEF Shut
<1>2. ASSUME "clean" \in {pc', resume'}
      PROVE  (call.todo \cup shut \subseteq Old(call.mark))'
  <2>1. call' = call /\ call.todo \cup shut \subseteq Old(call.mark)
    BY <1>2 DEF Shut
  <2>2. Old(call.mark)' = Old(call.mark)
    BY <2>1 DEF Old, EndSeq
  <2>3. QED BY <2>1, <2>2
<1>3. QED BY <1>1, <1>2 DEF Shut

\* A step at which no cleaning is under way, and behind which none is.
LEMMA NothingShut ==
  ASSUME Shut, pc # "clean", shut' = shut \/ shut' = {}, pc' # "clean", resume' # "clean"
  PROVE  Shut'
BY DEF Shut

LEMMA StepsShut ==
  ASSUME SoundEnvironment, ReliableRemoval, IInv, Shut, Next
  PROVE  Shut'
<1>1. TypeOK /\ pc \in Steps /\ Control
  BY DEF IInv, TypeOK
<1>2. CASE Appends
  <2>1. CASE \E p \in Payloads, force \in BOOLEAN : AppendRotating(p, force)
    BY <2>1, NothingShut DEF AppendRotating, Idle, StartFlush, memory
  <2>2. CASE CreateSegment
    BY <1>1, <2>2, NothingShut DEF CreateSegment, TypeOK
  <2>3. CASE CreateFails
    BY <2>3, NothingShut DEF CreateFails, memory, Return
  <2>4. ASSUME NEW p, NEW force, Buffer(p, force), pc # "clean" PROVE Shut'
    BY <2>4, NothingShut DEF Buffer
  <2>5. QED BY <1>2, <2>1, <2>2, <2>3, <2>4 DEF Appends, AppendInPlace, AppendToNewSegment, Idle
<1>3. CASE Flushes
  <2>1. CASE Sync \/ PeriodicFlush
    BY <2>1, NothingShut DEF Sync, PeriodicFlush, Idle, StartFlush, memory
  <2>2. CASE WriteFails \/ Rollback \/ RollbackFails \/ SyncFails
    BY <2>2, NothingShut DEF WriteFails, Rollback, RollbackFails, SyncFails, FlushFails, memory
  <2>3. CASE WriteAll \/ WriteRest
    BY <2>3, ShutUnchanged DEF WriteAll, WriteRest
  <2>4. CASE \E k \in 0..Len(pending), torn \in BOOLEAN : WritePart(k, torn)
    <3>1. /\ pc = "write" /\ pc' = "partial" /\ UNCHANGED <<segs, shut, cur, nextSeq, resume, call>>
      BY <2>4 DEF WritePart
    <3>2. QED BY <3>1, ShutUnchanged
  <2>5. CASE SyncFile
    BY <2>5, ShutUnchanged DEF SyncFile
  <2>6. QED BY <1>3, <2>1, <2>2, <2>3, <2>4, <2>5 DEF Flushes
<1>4. CASE Recoveries
  <2>1. CASE Recover \/ RecoverFails
    BY <2>1, NothingShut DEF Recover, RecoverFails, Idle, StartFlush, Return, memory
  <2>2. CASE \E top \in segs \cap DOMAIN disk :
               \E k \in 0..Len(disk[top].data) : RecoverScan(top, k)
    BY <2>2, NothingShut DEF RecoverScan, Return
  <2>3. CASE \E top \in DOMAIN disk :
               \E k \in 0..Len(disk[top].data) : OpenDirectory(top, k) \/ OpenInterrupted(top, k)
    <3>1. ~open /\ UNCHANGED <<shut, pc, resume>>
      BY <2>3 DEF OpenDirectory, OpenInterrupted, memory, control
    <3>2. QED BY <3>1, DownState, NothingShut
  <2>4. CASE OpenEmptyDirectory
    <3>1. ~open /\ UNCHANGED <<shut, pc, resume>>
      BY <2>4 DEF OpenEmptyDirectory, control
    <3>2. QED BY <3>1, DownState, NothingShut
  <2>5. QED BY <1>4, <2>1, <2>2, <2>3, <2>4, RecoveriesSplit
<1>5. CASE Cleanings
  <2>1. CASE \E mark \in 1..MaxSeq + 1 : CleanOldSegments(mark)
    <3>1. PICK mark \in 1..MaxSeq + 1 : CleanOldSegments(mark)
      BY <2>1
    <3>2. /\ pc = "idle" /\ call' = [NoCall EXCEPT !.mark = mark, !.todo = Old(mark)]
          /\ UNCHANGED <<segs, shut, cur, nextSeq>>
      BY <3>1 DEF CleanOldSegments, Idle, memory
    <3>3. call'.mark = mark /\ call'.todo = Old(mark)
      BY <3>2 DEF NoCall
    <3>4. shut' = {}
      BY <3>2 DEF Shut
    <3>5. Old(call.mark)' = Old(mark)
      BY <3>2, <3>3 DEF Old, EndSeq
    <3>6. QED BY <3>3, <3>4, <3>5 DEF Shut
  <2>2. CASE \E s \in segs : CleanSegment(s) \/ CleanFails(s)
    <3>1. PICK s \in segs : CleanSegment(s)
      BY <2>2 DEF CleanFails, ReliableRemoval
    <3>2. /\ pc = "clean" /\ s \in call.todo /\ shut' = shut \cup {s} /\ pc' = pc
          /\ call' = [call EXCEPT !.todo = @ \ {s}] /\ UNCHANGED <<segs, cur, nextSeq>>
      BY <3>1 DEF CleanSegment, Oldest
    <3>3. call'.mark = call.mark /\ call'.todo = call.todo \ {s}
      BY <1>1, <3>2 DEF TypeOK, Call
    <3>4. Old(call.mark)' = Old(call.mark)
      BY <3>2, <3>3 DEF Old, EndSeq
    <3>5. call.todo \cup shut \subseteq Old(call.mark)
      BY <3>2 DEF Shut
    <3>6. call'.todo \cup shut' \subseteq Old(call.mark)
      BY <3>2, <3>3, <3>5
    <3>7. QED BY <3>2, <3>4, <3>6 DEF Shut
  <2>3. CASE CleanReturns
    <3>1. /\ pc = "clean" /\ shut' = shut \ Old(call.mark) /\ pc' = "idle" /\ resume' = "idle"
      BY <2>3 DEF CleanReturns, Return
    <3>2. shut' = {}
      BY <3>1 DEF Shut
    <3>3. QED BY <3>1, <3>2 DEF Shut
  <2>4. CASE (\E seq \in 1..MaxSeq : Corrupt(seq)) \/ CorruptFlips
    BY <1>1, <2>4 DEF Corrupt, CorruptFlips, SoundEnvironment, Control
  <2>5. QED BY <1>5, <2>1, <2>2, <2>3, <2>4 DEF Cleanings
<1>6. CASE Endings
  <2>1. CASE Close
    BY <2>1, NothingShut DEF Close, Idle, StartFlush, memory
  <2>2. CASE CloseReturns \/ ProcessCrash \/ PowerLoss
    <3>1. shut' = {} /\ pc' = "idle" /\ resume' = "idle"
      BY <2>2 DEF CloseReturns, ProcessCrash, PowerLoss, Down, Return
    <3>2. QED BY <3>1 DEF Shut
  <2>3. QED BY <1>6, <2>1, <2>2 DEF Endings
<1>7. QED BY <1>2, <1>3, <1>4, <1>5, <1>6 DEF Next

LEMMA ShutHolds ==
  ASSUME SoundEnvironment, ReliableRemoval
  PROVE  Spec => []Shut
<1>1. Init => Shut
  BY DEF Init, Shut
<1>2. IInv /\ Shut /\ [Next]_vars => Shut'
  <2>1. SUFFICES ASSUME IInv, Shut, [Next]_vars PROVE Shut'
    OBVIOUS
  <2>2. CASE UNCHANGED vars
    <3>1. UNCHANGED <<segs, shut, cur, nextSeq, pc, resume, call>>
      BY <2>2 DEF vars, memory, control
    <3>2. Old(call.mark)' = Old(call.mark)
      BY <3>1 DEF Old, EndSeq
    <3>3. QED BY <2>1, <3>1, <3>2 DEF Shut
  <2>3. QED BY <2>1, <2>2, StepsShut
<1>3. QED BY <1>1, <1>2, Inductive, PTL DEF Spec

\* The record that lies at a location is read back whole, and is the one appended.
LEMMA ReadsRecord ==
  ASSUME NEW base \in Nat, NEW d \in Seq(Frame), Chained(d, base), AllOk(d),
         NEW log \in Seq(Payloads), Carries(d, log),
         NEW seq, NEW loc \in Location, LiesAt(d, seq, loc)
  PROVE  \E m \in 1..loc.n : ReadsAt(d, seq, loc, m) /\ Spells(d, loc, m, log[seq])
<1> DEFINE o == loc.off
           n == loc.n
           p == log[seq]
<1>1. o \in Nat /\ n \in Nat \ {0} /\ o + n <= Len(d)
  BY DEF Location, LiesAt
<1>2. /\ d[o + 1].seq = seq /\ d[o + 1].part = 1 /\ d[o + n].seq = seq
      /\ d[o + n].part = Parts[d[o + n].payload]
  BY DEF LiesAt, FlagFirst, FlagLast
<1>3. \A j \in 1..n : d[o + 1].seq <= d[o + j].seq /\ d[o + j].seq <= d[o + n].seq
                      /\ o + j \in 1..Len(d)
  <2>1. SUFFICES ASSUME NEW j \in 1..n
                 PROVE  d[o + 1].seq <= d[o + j].seq /\ d[o + j].seq <= d[o + n].seq
                        /\ o + j \in 1..Len(d)
    OBVIOUS
  <2>2. /\ o + j \in 1..Len(d) /\ o + n \in 1..Len(d)
        /\ o + 1 \in 1..o + j /\ o + j \in 1..o + n
    BY <1>1, <2>1
  <2>3. QED BY <2>2 DEF Chained, Ordered
<1>4. \A j \in 1..n : d[o + j].seq = seq /\ d[o + j].seq \in Nat /\ d[o + j].part \in Nat
  <2>1. SUFFICES ASSUME NEW j \in 1..n
                 PROVE  d[o + j].seq = seq /\ d[o + j].seq \in Nat /\ d[o + j].part \in Nat
    OBVIOUS
  <2>2. 1 \in 1..n /\ n \in 1..n
    BY <1>1
  <2>3. /\ d[o + j].seq \in Nat /\ d[o + j].part \in Nat /\ d[o + 1].seq \in Nat
        /\ d[o + n].seq \in Nat
    BY <1>3, <2>2, FrameTypes
  <2>4. QED BY <1>2, <1>3, <2>3
<1>5. \A j \in 1..n : d[o + j].part = j
  <2>1. SUFFICES ASSUME NEW j \in 1..n PROVE d[o + j].part = j
    OBVIOUS
  <2>2. o + j \in 1..Len(d) /\ o + 1 \in 1..o + j /\ 1 \in 1..n
    BY <1>1
  <2>3. d[o + 1].seq = d[o + j].seq
    BY <1>2, <1>4
  <2>4. (o + j) - (o + 1) = d[o + j].part - d[o + 1].part
    BY <2>2, <2>3 DEF Chained, Ordered
  <2>5. d[o + j].part \in Nat /\ d[o + 1].part = 1 /\ j \in Nat
    BY <1>1, <1>2, <1>4, <2>1
  <2> DEFINE q == d[o + j].part
  <2>6. (o + j) - (o + 1) = q - 1 /\ q \in Nat
    BY <2>4, <2>5
  <2> HIDE DEF q
  <2>7. q = j
    BY <1>1, <2>5, <2>6
  <2>8. QED BY <2>7 DEF q
<1>6. \A j \in 1..n : d[o + j].payload = p
  BY <1>3, <1>4 DEF Carries
<1>7. n = Parts[p]
  <2>1. n \in 1..n
    BY <1>1
  <2>2. QED BY <1>2, <1>5, <1>6, <2>1
<1>8. \A j \in 1..n : d[o + j].kind = "ok" /\ (FlagLast(d[o + j]) <=> j = n)
  BY <1>3, <1>5, <1>6, <1>7 DEF AllOk, FlagLast
<1>9. n \in 1..n /\ FlagFirst(d[o + 1])
  BY <1>1, <1>2 DEF FlagFirst
<1>10. ReadsAt(d, seq, loc, n)
  BY <1>1, <1>4, <1>8, <1>9 DEF ReadsAt
<1>11. Spells(d, loc, n, p)
  BY <1>5, <1>6, <1>7 DEF Spells
<1>12. QED BY <1>9, <1>10, <1>11

\* Every record the index knows can be read and is the payload that was appended,
\* whatever was written, rotated, cleaned and recovered, as long as a removal that
\* fails does not take a handle away.
THEOREM AlwaysReadsBack ==
  ASSUME SoundEnvironment, ReliableRemoval
  PROVE  Spec => []ReadsBack
<1>1. PInv /\ Shut => ReadsBack
  <2>1. SUFFICES ASSUME PInv, Shut, Idle, NEW seq \in DOMAIN index
                 PROVE  LET loc == index[seq]
                        IN  /\ loc.seg \in segs \ shut
                            /\ \E m \in 1..loc.n :
                                 /\ ReadsAt(Written(loc.seg), seq, loc, m)
                                 /\ Spells(Written(loc.seg), loc, m, hist[seq])
    BY DEF ReadsBack
  <2> DEFINE loc == index[seq]
             s   == loc.seg
  <2>2. IInv /\ shut = {} /\ s \in segs /\ loc \in Location /\ hist \in Seq(Payloads) /\ open
    BY <2>1 DEF PInv, Placed, Shut, Idle, IInv, TypeOK
  <2>3. s \in segs \ shut
    BY <2>2
  <2>4. /\ s \in DOMAIN disk /\ s - 1 \in Nat /\ Written(s) = Logged(s)
        /\ Written(s) \in Seq(Frame) /\ Chained(Written(s), s - 1)
        /\ AllOk(Written(s)) /\ Carries(Written(s), hist)
    BY <2>1, <2>2, <2>3, WrittenIsLogged
  <2>5. LiesAt(Written(s), seq, loc)
    BY <2>2, <2>4 DEF IInv, Indexed
  <2> HIDE DEF s
  <2>6. \E m \in 1..loc.n : ReadsAt(Written(s), seq, loc, m) /\ Spells(Written(s), loc, m, hist[seq])
    BY <2>2, <2>4, <2>5, ReadsRecord
  <2>7. QED BY <2>3, <2>6 DEF s
<1>2. QED BY <1>1, PlacesHold, ShutHolds, PTL

-------------------------------------------------------------------------------
(* The index has no holes.                                                  *)

\* A segment holds every sequence up to its last one: the first frame that reaches q
\* follows one that does not, and is q's.
LEMMA SegmentDense ==
  ASSUME NEW base \in Nat, NEW d \in Seq(Frame), Chained(d, base),
         NEW q \in Nat, base < q, q <= LastSeqOf(d, base)
  PROVE  \E i \in 1..Len(d) : d[i].seq = q
<1> DEFINE T == {i \in 1..Len(d) : q <= d[i].seq}
<1>1. d # <<>>
  <2>1. SUFFICES ASSUME d = <<>> PROVE FALSE
    OBVIOUS
  <2>2. LastSeqOf(d, base) = base
    BY <2>1 DEF LastSeqOf
  <2>3. QED BY <2>2
<1>2. Len(d) \in 1..Len(d)
  BY <1>1
<1>3. Len(d) \in T /\ T \subseteq Nat
  BY <1>1, <1>2 DEF LastSeqOf
<1>4. PICK i \in T : \A j \in T : i <= j
  BY <1>3, Least
<1>5. i \in 1..Len(d) /\ q <= d[i].seq /\ d[i].seq \in Nat
  BY <1>4, FrameTypes
<1>6. CASE i = 1
  BY <1>1, <1>5, <1>6 DEF Chained, Starts
<1>7. CASE i # 1
  <2>1. i - 1 \in 1..Len(d) - 1 /\ i - 1 \in 1..Len(d) /\ (i - 1) + 1 = i /\ ~(i <= i - 1)
    BY <1>5, <1>7
  <2>2. i - 1 \notin T
    BY <1>4, <2>1
  <2>3. d[i - 1].seq < q /\ d[i - 1].seq \in Nat
    <3>1. d[i - 1].seq \in Nat
      BY <2>1, FrameTypes
    <3>2. ~(q <= d[i - 1].seq)
      BY <2>1, <2>2
    <3>3. QED BY <3>1, <3>2
  <2>4. d[(i - 1) + 1].seq = d[i - 1].seq + 1 \/ d[(i - 1) + 1].seq = d[i - 1].seq
    BY <2>1 DEF Chained, Linear
  <2>5. d[i].seq = d[i - 1].seq + 1 \/ d[i].seq = d[i - 1].seq
    BY <2>1, <2>4
  <2>6. QED BY <1>5, <2>3, <2>5
<1>8. QED BY <1>6, <1>7

\* The segment a sequence belongs to is the last one that begins no later.
LEMMA LastBegun ==
  ASSUME NEW S, S \subseteq Nat, NEW q \in Nat, NEW a \in S, a <= q
  PROVE  \E s \in S : s <= q /\ \A t \in S : t <= q => t <= s
<1> DEFINE T == {n \in Nat : \E s \in S : s <= q /\ n = q - s}
<1>1. q - a \in T
  OBVIOUS
<1>2. PICK n \in T : \A m \in T : n <= m
  BY <1>1, Least
<1>3. PICK s \in S : s <= q /\ n = q - s
  BY <1>2
<1>4. ASSUME NEW t \in S, t <= q
      PROVE  t <= s
  <2>1. q - t \in T
    BY <1>4
  <2>2. n <= q - t
    BY <1>2, <2>1
  <2>3. QED BY <1>3, <1>4, <2>2
<1>5. QED BY <1>3, <1>4

\* Segments that each end where the next one starts hold every sequence from the
\* first one's to the last one's.
LEMMA FilesDense ==
  ASSUME NEW files, NEW top, DOMAIN files \subseteq Nat \ {0}, Successors(DOMAIN files),
         Newest(DOMAIN files, top),
         \A s \in DOMAIN files : files[s] \in Seq(Frame) /\ Chained(files[s], s - 1),
         \A s, t \in DOMAIN files :
           /\ s < t => LastSeqOf(files[s], s - 1) < t
           /\ Adjacent(DOMAIN files, s, t) => LastSeqOf(files[s], s - 1) + 1 = t
  PROVE  LET last == LastSeqOf(files[top], top - 1)
         IN  /\ last \in Nat
             /\ \E lo \in 1..last + 1 : /\ DOMAIN IndexOf(files) = lo..last
                                       /\ \A s \in DOMAIN files : lo <= s
<1> DEFINE S == DOMAIN files
           last == LastSeqOf(files[top], top - 1)
           Q == DOMAIN IndexOf(files)
<1>1. top \in S /\ \A s \in S : s <= top /\ s \in Nat \ {0} /\ s - 1 \in Nat
  BY DEF Newest
<1>2. \A s \in S : LastSeqOf(files[s], s - 1) \in Nat /\ s - 1 <= LastSeqOf(files[s], s - 1)
  BY <1>1, LastSeqType
<1>3. PICK lo \in S : \A s \in S : lo <= s
  BY <1>1, Least
<1>4. last \in Nat /\ top - 1 <= last /\ lo <= top /\ lo \in Nat \ {0}
  BY <1>1, <1>2, <1>3
<1>5. lo \in 1..last + 1
  <2> HIDE DEF last
  <2>1. QED BY <1>1, <1>4
<1>6. \A q : q \in Q <=> \E s \in S : \E i \in 1..Len(files[s]) : q = files[s][i].seq
  BY DEF IndexOf
<1>7. ASSUME NEW q \in Q
      PROVE  q \in lo..last
  <2>1. PICK s \in S : \E i \in 1..Len(files[s]) : q = files[s][i].seq
    BY <1>6, <1>7
  <2>2. PICK i \in 1..Len(files[s]) : q = files[s][i].seq
    BY <2>1
  <2>3. files[s] \in Seq(Frame) /\ Chained(files[s], s - 1) /\ s - 1 \in Nat /\ s \in Nat
    BY <1>1
  <2>4. q \in Nat /\ s - 1 < q /\ q <= LastSeqOf(files[s], s - 1)
    BY <2>2, <2>3, LastFrame, FrameTypes
  <2>5. lo <= q
    BY <1>3, <1>4, <2>3, <2>4
  <2>6. q <= last
    <3>1. CASE s = top
      BY <2>4, <3>1
    <3>2. CASE s # top
      <4>1. s < top
        BY <1>1, <3>2
      <4>2. LastSeqOf(files[s], s - 1) < top
        BY <1>1, <4>1
      <4>3. LastSeqOf(files[s], s - 1) \in Nat /\ top \in Nat
        BY <1>1, <1>2
      <4> HIDE DEF last
      <4>4. QED BY <1>4, <2>4, <4>2, <4>3
    <3>3. QED BY <3>1, <3>2
  <2> HIDE DEF last
  <2>7. QED BY <1>4, <2>4, <2>5, <2>6
<1>8. ASSUME NEW q \in lo..last
      PROVE  q \in Q
  <2>1. q \in Nat /\ lo <= q /\ q <= last
    BY <1>4, <1>8
  <2>2. PICK s \in S : s <= q /\ \A t \in S : t <= q => t <= s
    BY <1>1, <2>1, LastBegun
  <2>3. /\ files[s] \in Seq(Frame) /\ Chained(files[s], s - 1) /\ s - 1 \in Nat /\ s \in Nat
        /\ LastSeqOf(files[s], s - 1) \in Nat
    BY <1>1, <1>2
  <2>4. q <= LastSeqOf(files[s], s - 1)
    <3>1. CASE Newest(S, s)
      <4>1. s = top
        BY <1>1, <2>3, <3>1 DEF Newest
      <4>2. QED BY <2>1, <4>1
    <3>2. CASE ~Newest(S, s)
      <4>1. PICK t \in S : Adjacent(S, s, t)
        BY <3>2 DEF Successors
      <4>2. s < t /\ t \in Nat /\ LastSeqOf(files[s], s - 1) + 1 = t
        BY <1>1, <4>1 DEF Adjacent
      <4>3. ~(t <= q)
        BY <2>2, <2>3, <4>2
      <4>4. QED BY <2>1, <2>3, <4>2, <4>3
    <3>3. QED BY <3>1, <3>2
  <2>5. s - 1 < q
    BY <2>1, <2>2, <2>3
  <2>6. \E i \in 1..Len(files[s]) : files[s][i].seq = q
    BY <2>1, <2>3, <2>4, <2>5, SegmentDense
  <2>7. QED BY <1>6, <2>6
<1>9. Q = lo..last
  BY <1>7, <1>8
<1>10. QED BY <1>3, <1>4, <1>5, <1>9

\* An open log's index holds every sequence from some first one to the last assigned.
Covered == open => \E lo \in 1..nextSeq : DOMAIN index = lo..nextSeq - 1

LEMMA CoverUnchanged ==
  ASSUME Covered, UNCHANGED <<open, index, nextSeq>>
  PROVE  Covered'
BY DEF Covered

LEMMA BufferCovers ==
  ASSUME TypeOK, Covered, open, NEW p, NEW force, Buffer(p, force)
  PROVE  Covered'
<1>1. /\ DOMAIN index' = DOMAIN index \cup {nextSeq} /\ nextSeq' = nextSeq + 1
      /\ nextSeq \in Nat \ {0}
  BY DEF Buffer, TypeOK
<1>2. PICK lo \in 1..nextSeq : DOMAIN index = lo..nextSeq - 1
  BY DEF Covered
<1>3. lo \in 1..nextSeq' /\ (lo..nextSeq - 1) \cup {nextSeq} = lo..nextSeq' - 1
  BY <1>1, <1>2
<1>4. DOMAIN index' = lo..nextSeq' - 1
  BY <1>1, <1>2, <1>3
<1>5. QED BY <1>3, <1>4 DEF Covered

\* A recovery indexes what the segments hold, from the oldest to the newest.
LEMMA RecoverLockedCovers ==
  ASSUME SoundEnvironment, IInv, NEW top \in DOMAIN disk,
         NEW k \in 0..Len(disk[top].data),
         RecoverLocked(DOMAIN disk, top, k),
         disk[top].stable = Len(disk[top].data),
         disk[top].data # <<>> => disk[top].named
  PROVE  /\ Covered'
         /\ \A s \in DOMAIN disk : \A q \in s..nextSeq' - 1 : q \in DOMAIN index'
<1> DEFINE files == [Contents(DOMAIN disk) EXCEPT ![top] = SubSeq(@, 1, k)]
<1>1. /\ DOMAIN Contents(DOMAIN disk) = DOMAIN disk
      /\ \A s \in DOMAIN disk : Contents(DOMAIN disk)[s] = disk[s].data
  BY DEF Contents
<1>2. /\ DOMAIN files = DOMAIN disk /\ files[top] = SubSeq(disk[top].data, 1, k)
      /\ \A s \in DOMAIN disk : s # top => files[s] = disk[s].data
  BY <1>1
<1>3. /\ Recovers(Contents(DOMAIN disk), top, k) /\ index' = IndexOf(files)
      /\ nextSeq' = LastSeqOf(files[top], top - 1) + 1
  BY <1>2 DEF RecoverLocked
<1> HIDE DEF files
<1>4. Newest(DOMAIN disk, top) /\ ScanKeeps(disk[top].data, top - 1, k)
  BY <1>1, <1>3 DEF Recovers
<1>5. files[top] \in Seq(Frame) /\ Chained(files[top], top - 1)
  BY <1>2, <1>4, TrimmedFile DEF IInv
<1>6. \A s \in DOMAIN disk : s \in Nat \ {0}
  BY FileType DEF IInv
<1>7. \A s \in DOMAIN files : files[s] \in Seq(Frame) /\ Chained(files[s], s - 1)
  <2>1. SUFFICES ASSUME NEW s \in DOMAIN files
                 PROVE  files[s] \in Seq(Frame) /\ Chained(files[s], s - 1)
    OBVIOUS
  <2>2. CASE s = top
    BY <1>5, <2>2
  <2>3. CASE s # top
    <3>1. disk[s].data \in Seq(Frame) /\ Chained(disk[s].data, s - 1)
      BY <1>2, FileType DEF IInv, FilesChained
    <3>2. QED BY <1>2, <2>3, <3>1
  <2>4. QED BY <2>2, <2>3
<1>8. ASSUME NEW s \in DOMAIN files, NEW t \in DOMAIN files
      PROVE  /\ s < t => LastSeqOf(files[s], s - 1) < t
             /\ Adjacent(DOMAIN files, s, t) => LastSeqOf(files[s], s - 1) + 1 = t
  <2>1. s < t => s # top
    BY <1>2, <1>4, <1>6 DEF Newest
  <2>2. s # top => files[s] = disk[s].data
    BY <1>2
  <2>3. /\ s < t => LastSeqOf(disk[s].data, s - 1) < t
        /\ Adjacent(DOMAIN disk, s, t) => LastSeqOf(disk[s].data, s - 1) + 1 = t
    BY <1>2 DEF IInv, FilesLinked
  <2>4. Adjacent(DOMAIN files, s, t) => s < t
    BY DEF Adjacent
  <2>5. QED BY <1>2, <2>1, <2>2, <2>3, <2>4
<1>9. DOMAIN files \subseteq Nat \ {0} /\ Successors(DOMAIN files) /\ Newest(DOMAIN files, top)
  BY <1>2, <1>4, <1>6 DEF IInv, Directory
<1> DEFINE last == LastSeqOf(files[top], top - 1)
<1>10. /\ last \in Nat
       /\ \E lo \in 1..last + 1 : /\ DOMAIN IndexOf(files) = lo..last
                                 /\ \A s \in DOMAIN files : lo <= s
  BY <1>7, <1>8, <1>9, FilesDense
<1>11. nextSeq' = last + 1
  BY <1>3
<1> HIDE DEF last
<1>12. PICK lo \in 1..last + 1 : /\ DOMAIN IndexOf(files) = lo..last
                                 /\ \A s \in DOMAIN files : lo <= s
  BY <1>10
<1>13. lo \in 1..nextSeq' /\ lo..last = lo..nextSeq' - 1
  BY <1>10, <1>11, <1>12
<1>14. ASSUME NEW s \in DOMAIN disk, NEW q \in s..nextSeq' - 1
       PROVE  q \in DOMAIN index'
  <2>1. s \in Nat /\ lo \in Nat /\ lo <= s /\ nextSeq' - 1 \in Int
    BY <1>2, <1>6, <1>10, <1>11, <1>12
  <2>2. q \in lo..nextSeq' - 1
    BY <1>14, <2>1
  <2>3. QED BY <1>3, <1>12, <1>13, <2>2
<1>15. QED BY <1>3, <1>12, <1>13, <1>14 DEF Covered

\* CleanOldSegments takes the entries below its mark.
LEMMA CleanReturnsCovers ==
  ASSUME TypeOK, Covered, CleanReturns
  PROVE  Covered'
<1>1. /\ open /\ nextSeq' = nextSeq /\ call.mark \in Nat /\ nextSeq \in Nat \ {0}
      /\ DOMAIN index' = {q \in DOMAIN index : q >= call.mark}
  BY DEF CleanReturns, TypeOK, Call
<1>2. PICK lo \in 1..nextSeq : DOMAIN index = lo..nextSeq - 1
  BY <1>1 DEF Covered
<1>3. CASE call.mark <= lo
  <2>1. DOMAIN index' = lo..nextSeq - 1
    BY <1>1, <1>2, <1>3
  <2>2. QED BY <1>1, <2>1 DEF Covered
<1>4. CASE lo < call.mark /\ call.mark <= nextSeq
  <2>1. call.mark \in 1..nextSeq /\ DOMAIN index' = call.mark..nextSeq - 1
    BY <1>1, <1>2, <1>4
  <2>2. QED BY <1>1, <2>1 DEF Covered
<1>5. CASE nextSeq < call.mark
  <2>1. nextSeq \in 1..nextSeq /\ DOMAIN index' = nextSeq..nextSeq - 1
    BY <1>1, <1>2, <1>5
  <2>2. QED BY <1>1, <2>1 DEF Covered
<1>6. QED BY <1>1, <1>2, <1>3, <1>4, <1>5

LEMMA StepsCover ==
  ASSUME SoundEnvironment, IInv, Covered, Next
  PROVE  Covered'
<1>1. TypeOK
  BY DEF IInv
<1>2. CASE Appends
  <2>1. CASE \E p \in Payloads, force \in BOOLEAN : AppendInPlace(p, force) \/ AppendRotating(p, force)
    <3>1. PICK p \in Payloads, force \in BOOLEAN : AppendInPlace(p, force) \/ AppendRotating(p, force)
      BY <2>1
    <3>2. CASE AppendInPlace(p, force)
      BY <1>1, <3>2, BufferCovers DEF AppendInPlace, Idle
    <3>3. CASE AppendRotating(p, force)
      BY <3>3, CoverUnchanged DEF AppendRotating, memory
    <3>4. QED BY <3>1, <3>2, <3>3
  <2>2. CASE CreateSegment
    BY <2>2, CoverUnchanged DEF CreateSegment
  <2>3. CASE CreateFails
    BY <2>3, CoverUnchanged DEF CreateFails, memory
  <2>4. CASE AppendToNewSegment
    <3>1. open
      BY <1>1, <2>4 DEF TypeOK, AppendToNewSegment
    <3>2. QED BY <1>1, <2>4, <3>1, BufferCovers DEF AppendToNewSegment
  <2>5. QED BY <1>2, <2>1, <2>2, <2>3, <2>4 DEF Appends
<1>3. CASE Flushes
  <2>1. CASE Sync \/ PeriodicFlush \/ WriteFails \/ SyncFails
    BY <2>1, CoverUnchanged DEF Sync, PeriodicFlush, WriteFails, SyncFails, memory
  <2>2. CASE WriteAll \/ WriteRest \/ SyncFile
    BY <2>2, CoverUnchanged DEF WriteAll, WriteRest, SyncFile
  <2>3. CASE \E k \in 0..Len(pending), torn \in BOOLEAN : WritePart(k, torn)
    BY <2>3, CoverUnchanged DEF WritePart
  <2>4. CASE Rollback \/ RollbackFails
    BY <2>4, CoverUnchanged DEF Rollback, RollbackFails
  <2>5. QED BY <1>3, <2>1, <2>2, <2>3, <2>4 DEF Flushes
<1>4. CASE Recoveries
  <2>1. CASE Recover \/ RecoverFails
    BY <2>1, CoverUnchanged DEF Recover, RecoverFails, memory
  <2>2. CASE \E top \in segs \cap DOMAIN disk :
               \E k \in 0..Len(disk[top].data) : RecoverScan(top, k)
    <3>1. PICK top \in segs \cap DOMAIN disk :
            \E k \in 0..Len(disk[top].data) : RecoverScan(top, k)
      BY <2>2
    <3>2. PICK k \in 0..Len(disk[top].data) : RecoverScan(top, k)
      BY <3>1
    <3>3. QED BY <3>2, RecoverFinds, RecoverLockedCovers
  <2>3. CASE \E top \in DOMAIN disk :
               \E k \in 0..Len(disk[top].data) : OpenDirectory(top, k) \/ OpenInterrupted(top, k)
    <3>1. PICK top \in DOMAIN disk :
            \E k \in 0..Len(disk[top].data) : OpenDirectory(top, k) \/ OpenInterrupted(top, k)
      BY <2>3
    <3>2. PICK k \in 0..Len(disk[top].data) : OpenDirectory(top, k) \/ OpenInterrupted(top, k)
      BY <3>1
    <3>3. CASE OpenDirectory(top, k)
      <4>1. ~open /\ RecoverLocked(DOMAIN disk, top, k)
        BY <3>3 DEF OpenDirectory
      <4>2. disk[top].stable = Len(disk[top].data) /\ disk[top].named
        BY <4>1 DEF IInv, FilesSettled
      <4>3. QED BY <4>1, <4>2, RecoverLockedCovers
    <3>4. CASE OpenInterrupted(top, k)
      BY <3>4, CoverUnchanged DEF OpenInterrupted, memory
    <3>5. QED BY <3>2, <3>3, <3>4
  <2>4. CASE OpenEmptyDirectory
    <3>1. nextSeq' = 1 /\ DOMAIN index' = {}
      BY <2>4 DEF OpenEmptyDirectory
    <3>2. 1 \in 1..1 /\ {} = 1..1 - 1
      OBVIOUS
    <3>3. QED BY <3>1, <3>2 DEF Covered
  <2>5. QED BY <1>4, <2>1, <2>2, <2>3, <2>4, RecoveriesSplit
<1>5. CASE Cleanings
  <2>1. CASE \E mark \in 1..MaxSeq + 1 : CleanOldSegments(mark)
    BY <2>1, CoverUnchanged DEF CleanOldSegments, memory
  <2>2. CASE \E s \in segs : CleanSegment(s) \/ CleanFails(s)
    BY <2>2, CoverUnchanged DEF CleanSegment, CleanFails
  <2>3. CASE CleanReturns
    BY <1>1, <2>3, CleanReturnsCovers
  <2>4. CASE (\E seq \in 1..MaxSeq : Corrupt(seq)) \/ CorruptFlips
    BY <2>4, CoverUnchanged DEF Corrupt, CorruptFlips, memory
  <2>5. QED BY <1>5, <2>1, <2>2, <2>3, <2>4 DEF Cleanings
<1>6. CASE Endings
  <2>1. CASE Close
    BY <2>1, CoverUnchanged DEF Close, memory
  <2>2. CASE CloseReturns \/ ProcessCrash \/ PowerLoss
    BY <2>2 DEF CloseReturns, ProcessCrash, PowerLoss, Down, Covered
  <2>3. QED BY <1>6, <2>1, <2>2 DEF Endings
<1>7. QED BY <1>2, <1>3, <1>4, <1>5, <1>6 DEF Next

\* The index has no holes: whatever was appended, recovered, cut back or cleaned, it
\* holds every sequence from some first one to the last that was assigned: a reader that
\* asks for one sequence after the other never steps over a record.
THEOREM AlwaysIndexCoversLog ==
  ASSUME SoundEnvironment
  PROVE  Spec => []IndexCoversLog
<1>1. Init => Covered
  BY DEF Init, Covered
<1>2. IInv /\ Covered /\ [Next]_vars => Covered'
  <2>1. SUFFICES ASSUME IInv, Covered, [Next]_vars PROVE Covered'
    OBVIOUS
  <2>2. CASE UNCHANGED vars
    BY <2>1, <2>2, CoverUnchanged DEF vars, memory
  <2>3. QED BY <2>1, <2>2, StepsCover
<1>3. Covered => IndexCoversLog
  BY DEF Covered, IndexCoversLog, Idle
<1>4. QED BY <1>1, <1>2, <1>3, Inductive, PTL DEF Spec

-------------------------------------------------------------------------------
(* Segments stay in their bound.                                            *)

\* A segment that outgrows the bound holds one record.
Alone(d) == Len(d) > MaxSegmentBytes => \A i, j \in 1..Len(d) : d[i].seq = d[j].seq

\* No file, nor the current one once the buffer is flushed, outgrows the bound with more
\* than one record; a segment just created is empty.
Bounds ==
  /\ \A s \in DOMAIN disk : Alone(disk[s].data)
  /\ open => Alone(Body)
  /\ pc = "put" => disk[cur].data = <<>>

\* What is left of a segment in its bound is in its bound.
LEMMA RestAlone ==
  ASSUME NEW d \in Seq(Frame), NEW e \in Seq(Frame), Alone(d), Len(e) <= Len(d),
         \A i \in 1..Len(e) : e[i].seq = d[i].seq
  PROVE  Alone(e)
<1>1. SUFFICES ASSUME Len(e) > MaxSegmentBytes, NEW i \in 1..Len(e), NEW j \in 1..Len(e)
               PROVE  e[i].seq = e[j].seq
  BY DEF Alone
<1>2. Len(d) > MaxSegmentBytes /\ i \in 1..Len(d) /\ j \in 1..Len(d)
  BY <1>1, OptionsAssumption
<1>3. d[i].seq = d[j].seq
  BY <1>2 DEF Alone
<1>4. QED BY <1>3

LEMMA NothingAlone == Alone(<<>>)
BY OptionsAssumption DEF Alone

\* A step that changes at most the current file and keeps what the next flush leaves there.
LEMMA SameBounds ==
  ASSUME Bounds, open' => open, DOMAIN disk' \subseteq DOMAIN disk, pc' # "put",
         \A s \in DOMAIN disk' : disk'[s].data = disk[s].data \/ Alone(disk'[s].data),
         open' => Body' = Body
  PROVE  Bounds'
<1>1. \A s \in DOMAIN disk' : Alone(disk'[s].data)
  BY DEF Bounds
<1>2. open' => Alone(Body')
  BY DEF Bounds
<1>3. QED BY <1>1, <1>2 DEF Bounds, Alone

\* A step that touches neither the files nor the buffer.
LEMMA QuietBounds ==
  ASSUME Bounds, UNCHANGED <<disk, open, cur, pending>>, pc # "partial",
         pc' \notin {"put", "partial"}
  PROVE  Bounds'
<1>1. Body' = Body
  BY DEF Body, Base
<1>2. QED BY <1>1, SameBounds

\* A record that joins the buffer fits behind what is there, or is alone.
LEMMA BufferBounds ==
  ASSUME IInv, Bounds, open, pc \in {"idle", "put"}, NEW p \in Payloads, NEW force \in BOOLEAN,
         Buffer(p, force), pc = "idle" => ~Rotates(p), pc = "put" => Body = <<>>
  PROVE  Bounds'
<1> DEFINE g == Fragments(nextSeq, p)
           n == Len(Body)
<1>1. /\ pending' = pending \o g /\ pc' \notin {"put", "partial"}
      /\ UNCHANGED <<disk, open, cur>>
  BY DEF Buffer
<1>2. /\ Base \in Seq(Frame) /\ pending \in Seq(Frame) /\ Body \in Seq(Frame)
      /\ Len(Body) = Len(Base) + Len(pending) /\ nextSeq \in Nat \ {0}
  BY CurrentFile DEF IInv, TypeOK
<1>3. /\ g \in Seq(Frame) /\ Len(g) = Parts[p] /\ Parts[p] \in Nat \ {0}
      /\ \A k \in 1..Parts[p] : g[k].seq = nextSeq
  <2>1. /\ g \in Seq(Frame) /\ Len(g) = Parts[p] /\ Parts[p] \in Nat \ {0}
        /\ \A k \in 1..Parts[p] :
             g[k] = [seq |-> nextSeq, part |-> k, payload |-> p, kind |-> "ok"]
    BY <1>2, FragmentsShape
  <2> HIDE DEF g
  <2>2. ASSUME NEW k \in 1..Parts[p] PROVE g[k].seq = nextSeq
    <3>1. g[k] = [seq |-> nextSeq, part |-> k, payload |-> p, kind |-> "ok"]
      BY <2>1
    <3>2. QED BY <3>1
  <2>3. QED BY <2>1, <2>2
<1> HIDE DEF g
<1>4. Base = disk[cur].data /\ Base' = disk[cur].data
  BY <1>1 DEF Base
<1>5. Body' = Body \o g
  <2>1. Body' = Base \o (pending \o g)
    BY <1>1, <1>4 DEF Body
  <2>2. (Base \o pending) \o g = Base \o (pending \o g)
    BY <1>2, <1>3, FramesConcat
  <2>3. QED BY <2>1, <2>2 DEF Body
<1>6. n \in Nat /\ Len(Body \o g) = n + Parts[p]
  <2>1. Body \in Seq(Frame) /\ g \in Seq(Frame) /\ Len(g) = Parts[p]
    BY <1>2, <1>3
  <2>2. QED BY <2>1
<1>7. n = 0 \/ n + Parts[p] <= MaxSegmentBytes
  <2>1. CASE pc = "idle"
    <3>1. ~IF Parts[p] > MaxSegmentBytes THEN n > 0 ELSE n + Parts[p] > MaxSegmentBytes
      BY <1>2, <1>4, <2>1 DEF Rotates
    <3> HIDE DEF n
    <3>2. QED BY <1>3, <1>6, <3>1, OptionsAssumption
  <2>2. CASE pc = "put"
    BY <2>2
  <2>3. QED BY <2>1, <2>2
<1>8. Alone(Body \o g)
  <2>1. CASE n = 0
    <3>1. Body \o g = g
      BY <1>2, <1>3, <2>1
    <3>2. QED BY <1>3, <3>1 DEF Alone
  <2>2. CASE n + Parts[p] <= MaxSegmentBytes
    <3> HIDE DEF n
    <3>1. ~(Len(Body \o g) > MaxSegmentBytes)
      BY <1>3, <1>6, <2>2, OptionsAssumption
    <3>2. QED BY <3>1 DEF Alone
  <2>3. QED BY <1>7, <2>1, <2>2
<1>9. open' => Alone(Body')
  BY <1>5, <1>8
<1>10. \A s \in DOMAIN disk' : Alone(disk'[s].data)
  BY <1>1 DEF Bounds
<1>11. QED BY <1>1, <1>9, <1>10 DEF Bounds, Alone

LEMMA AppendsBound ==
  ASSUME IInv, Bounds, Appends
  PROVE  Bounds'
<1>1. TypeOK
  BY DEF IInv
<1>2. CASE \E p \in Payloads, force \in BOOLEAN : AppendInPlace(p, force) \/ AppendRotating(p, force)
  <2>1. PICK p \in Payloads, force \in BOOLEAN : AppendInPlace(p, force) \/ AppendRotating(p, force)
    BY <1>2
  <2>2. CASE AppendInPlace(p, force)
    BY <2>2, BufferBounds DEF AppendInPlace, Idle
  <2>3. CASE AppendRotating(p, force)
    BY <2>3, QuietBounds DEF AppendRotating, Idle, StartFlush, memory
  <2>4. QED BY <2>1, <2>2, <2>3
<1>3. CASE CreateSegment
  <2>1. /\ disk' = [s \in DOMAIN disk \cup {nextSeq} |-> IF s = nextSeq THEN NewFile ELSE disk[s]]
        /\ cur' = nextSeq /\ pending' = <<>> /\ pc' = "put"
    BY <1>3 DEF CreateSegment, IInv, Control
  <2>2. disk'[cur'].data = <<>>
    BY <2>1 DEF NewFile
  <2>3. \A s \in DOMAIN disk' : disk'[s].data = <<>> \/ (s \in DOMAIN disk /\ disk'[s] = disk[s])
    BY <2>1 DEF NewFile
  <2>4. \A s \in DOMAIN disk' : Alone(disk'[s].data)
    BY <2>3, NothingAlone DEF Bounds
  <2>5. Body' = <<>>
    <3>1. Base' = <<>>
      BY <2>1, <2>2 DEF Base
    <3>2. QED BY <2>1, <3>1 DEF Body
  <2>6. QED BY <2>2, <2>4, <2>5, NothingAlone DEF Bounds, Alone
<1>4. CASE CreateFails
  BY <1>4, QuietBounds DEF CreateFails, Return, memory
<1>5. CASE AppendToNewSegment
  <2>1. pc = "put" /\ open /\ Buffer(call.payload, call.force)
        /\ call.payload \in Payloads /\ call.force \in BOOLEAN
    BY <1>1, <1>5 DEF AppendToNewSegment, TypeOK, Call
  <2>2. pending = <<>> /\ disk[cur].data = <<>>
    BY <2>1 DEF IInv, Control, Bounds
  <2>3. Body = <<>>
    BY <2>1, <2>2 DEF Body, Base
  <2>4. QED BY <2>1, <2>3, BufferBounds
<1>6. QED BY <1>2, <1>3, <1>4, <1>5 DEF Appends

\* A flush, whatever becomes of it, changes at most the current file, and there only what
\* lies behind the frames in front of the write: Body is the same before and after.
LEMMA FlushesBody ==
  ASSUME SoundEnvironment, IInv, Flushes
  PROVE  /\ open /\ UNCHANGED <<open, segs, shut, cur, index, nextSeq, hist>>
         /\ DOMAIN disk' = DOMAIN disk
         /\ \A s \in DOMAIN disk : s # cur => disk'[s].data = disk[s].data
         /\ LET d == disk'[cur].data
            IN  \/ d = disk[cur].data
                \/ /\ d \in Seq(Frame) /\ Len(d) <= Len(Body)
                   /\ \A i \in 1..Len(d) : d[i].seq = Body[i].seq
         /\ Body' = Body
<1>1. TypeOK /\ pc \in Steps /\ resume \in Resumes
  BY DEF IInv, TypeOK, Resumes
<1>2. open
  BY <1>1 DEF Flushes, Sync, PeriodicFlush, Idle, WriteAll, WriteRest, SyncFile, WritePart,
              WriteFails, Rollback, RollbackFails, SyncFails, TypeOK
<1>3. UNCHANGED <<open, segs, shut, cur, index, nextSeq, hist>>
  BY DEF Flushes, Sync, PeriodicFlush, WriteAll, WriteRest, SyncFile, WritePart,
         WriteFails, Rollback, RollbackFails, SyncFails, memory, history
<1>4. /\ cur \in DOMAIN disk /\ disk \in [DOMAIN disk -> File]
      /\ Body \in Seq(Frame) /\ Base \in Seq(Frame) /\ pending \in Seq(Frame)
      /\ Len(Body) = Len(Base) + Len(pending)
      /\ \A i \in 1..Len(Base) : Body[i] = Base[i]
  BY <1>1, <1>2, CurrentFile DEF IInv, TypeOK
<1>5. ASSUME NEW d \in Seq(Frame), Writes(d)
      PROVE  /\ DOMAIN disk' = DOMAIN disk /\ disk'[cur].data = d
             /\ \A s \in DOMAIN disk : s # cur => disk'[s].data = disk[s].data
  <2>1. PICK f \in File : disk' = [disk EXCEPT ![cur] = f] /\ f.data = d
    BY <1>1, <1>4, <1>5, WritesFile
  <2>2. QED BY <1>4, <2>1
<1>6. CASE Sync \/ PeriodicFlush \/ WriteFails
  <2>1. disk' = disk /\ pending' = pending /\ pc # "partial" /\ pc' # "partial"
    BY <1>1, <1>6 DEF Sync, PeriodicFlush, WriteFails, FlushFails, Idle, StartFlush, memory
  <2>2. Body' = Body
    BY <1>3, <2>1 DEF Body, Base
  <2>3. QED BY <1>2, <1>3, <2>1, <2>2
<1>7. CASE WriteAll \/ WriteRest
  <2>1. pending' = <<>> /\ pc' = "sync" /\ Writes(Body)
    BY <1>7 DEF WriteAll, WriteRest, Body, Base
  <2>2. /\ DOMAIN disk' = DOMAIN disk /\ disk'[cur].data = Body
        /\ \A s \in DOMAIN disk : s # cur => disk'[s].data = disk[s].data
    BY <1>4, <1>5, <2>1
  <2>3. Body' = Body
    <3>1. Base' = Body
      BY <1>3, <2>1, <2>2 DEF Base
    <3>2. Body' = Body \o <<>>
      BY <2>1, <3>1 DEF Body
    <3>3. QED BY <1>4, <3>2
  <2>4. Len(Body) <= Len(Body)
    BY <1>4
  <2>5. QED BY <1>2, <1>3, <1>4, <2>2, <2>3, <2>4
<1>8. CASE \E k \in 0..Len(pending), torn \in BOOLEAN : WritePart(k, torn)
  <2>1. PICK k \in 0..Len(pending), torn \in BOOLEAN : WritePart(k, torn)
    BY <1>8
  <2> DEFINE n == Len(disk[cur].data)
             w == disk[cur].data \o SubSeq(pending, 1, k)
                    \o IF torn THEN <<[pending[k+1] EXCEPT !.kind = "torn"]>> ELSE <<>>
  <2>2. Writes(w) /\ RestOf(w, Body) /\ SubSeq(w, 1, n) = disk[cur].data
    BY <2>1, PartIsRest
  <2> HIDE DEF w
  <2>3. pc = "write" /\ pc' = "partial" /\ before' = n /\ pending' = pending
    BY <2>1 DEF WritePart
  <2>4. /\ w \in Seq(Frame) /\ Len(w) <= Len(Body)
        /\ \A i \in 1..Len(w) : w[i].seq = Body[i].seq
    BY <2>2 DEF RestOf
  <2>5. /\ DOMAIN disk' = DOMAIN disk /\ disk'[cur].data = w
        /\ \A s \in DOMAIN disk : s # cur => disk'[s].data = disk[s].data
    BY <1>5, <2>2, <2>4
  <2>6. Body' = Body
    <3>1. Base' = SubSeq(w, 1, n)
      BY <1>3, <2>3, <2>5 DEF Base
    <3>2. Base = disk[cur].data
      BY <2>3 DEF Base
    <3>3. QED BY <2>2, <2>3, <3>1, <3>2 DEF Body
  <2>7. QED BY <1>2, <1>3, <2>4, <2>5, <2>6
<1>9. CASE Rollback
  <2>1. pc = "partial" /\ pc' \in {"idle", "close"} /\ Writes(Base) /\ pending' = pending
    BY <1>9 DEF Rollback, FlushFails, Base
  <2>2. /\ DOMAIN disk' = DOMAIN disk /\ disk'[cur].data = Base
        /\ \A s \in DOMAIN disk : s # cur => disk'[s].data = disk[s].data
    BY <1>4, <1>5, <2>1
  <2>3. Body' = Body
    <3>1. Base' = Base
      BY <1>3, <2>1, <2>2 DEF Base
    <3>2. QED BY <2>1, <3>1 DEF Body
  <2>4. Len(Base) <= Len(Body)
    BY <1>4
  <2>5. \A i \in 1..Len(Base) : Base[i].seq = Body[i].seq
    BY <1>4
  <2>6. QED BY <1>2, <1>3, <1>4, <2>2, <2>3, <2>4, <2>5
<1>10. CASE SyncFile \/ SyncFails
  <2>1. pc = "sync" /\ pc' # "partial" /\ pending' = pending
    BY <1>1, <1>10 DEF SyncFile, SyncFails, FlushFails, memory, Resumes
  <2>2. DOMAIN disk' = DOMAIN disk /\ \A s \in DOMAIN disk : disk'[s].data = disk[s].data
    <3>1. Synced(disk[cur]).data = disk[cur].data
      BY <1>4 DEF Synced, File
    <3>2. CASE SyncFile
      BY <1>4, <3>1, <3>2 DEF SyncFile
    <3>3. CASE SyncFails
      BY <1>4, <3>3 DEF SyncFails, File
    <3>4. QED BY <1>10, <3>2, <3>3
  <2>3. Body' = Body
    BY <1>3, <1>4, <2>1, <2>2 DEF Body, Base
  <2>4. QED BY <1>2, <1>3, <1>4, <2>2, <2>3
<1>11. ~RollbackFails
  BY DEF RollbackFails, SoundEnvironment
<1>12. QED BY <1>6, <1>7, <1>8, <1>9, <1>10, <1>11 DEF Flushes

LEMMA FlushesBound ==
  ASSUME SoundEnvironment, IInv, Bounds, Flushes
  PROVE  Bounds'
<1>1. /\ open /\ DOMAIN disk' = DOMAIN disk /\ cur \in DOMAIN disk
      /\ \A s \in DOMAIN disk : s # cur => disk'[s].data = disk[s].data
      /\ Body' = Body /\ Body \in Seq(Frame)
  BY FlushesBody, CurrentFile DEF IInv
<1>2. disk'[cur].data = disk[cur].data \/ Alone(disk'[cur].data)
  <2>1. Alone(Body)
    BY <1>1 DEF Bounds
  <2>2. QED BY <1>1, <2>1, FlushesBody, RestAlone
<1>3. pc' # "put"
  BY DEF Flushes, Sync, PeriodicFlush, Idle, StartFlush, WriteAll, WriteRest, SyncFile, WritePart,
         WriteFails, Rollback, RollbackFails, SyncFails, FlushFails, IInv, TypeOK
<1>4. QED BY <1>1, <1>2, <1>3, SameBounds

\* A recovery cuts the newest segment and flushes nothing.
LEMMA TrimmedBounds ==
  ASSUME SoundEnvironment, IInv, Bounds, NEW top \in DOMAIN disk,
         NEW k \in 0..Len(disk[top].data),
         Recovers(Contents(DOMAIN disk), top, k), disk' = Trimmed(top, k),
         disk[top].stable = Len(disk[top].data),
         disk[top].data # <<>> => disk[top].named,
         pending' = <<>>, open' => cur' = top, pc' \notin {"put", "partial"}
  PROVE  Bounds'
<1> DEFINE d == SubSeq(disk[top].data, 1, k)
<1>1. DOMAIN Contents(DOMAIN disk) = DOMAIN disk
      /\ Contents(DOMAIN disk)[top] = disk[top].data
  BY DEF Contents
<1>2. ScanKeeps(disk[top].data, top - 1, k)
  BY <1>1 DEF Recovers
<1>3. /\ d \in Seq(Frame) /\ disk'[top].data = d /\ DOMAIN disk' = DOMAIN disk
      /\ \A s \in DOMAIN disk : s # top => disk'[s] = disk[s]
  BY <1>2, TrimmedFile DEF IInv
<1>4. /\ disk[top].data \in Seq(Frame) /\ Len(d) <= Len(disk[top].data)
      /\ \A i \in 1..Len(d) : d[i] = disk[top].data[i]
  <2>1. disk[top].data \in Seq(Frame)
    BY FileType DEF IInv
  <2>2. QED BY <2>1
<1>5. Alone(disk[top].data)
  BY DEF Bounds
<1> HIDE DEF d
<1>6. Alone(d)
  BY <1>3, <1>4, <1>5, RestAlone
<1>7. \A s \in DOMAIN disk' : Alone(disk'[s].data)
  BY <1>3, <1>6 DEF Bounds
<1>8. open' => Body' = d
  <2>1. SUFFICES ASSUME open' PROVE Body' = d
    OBVIOUS
  <2>2. Base' = d
    BY <1>3, <2>1 DEF Base
  <2>3. Body' = d \o <<>>
    BY <2>2 DEF Body
  <2>4. QED BY <1>3, <2>3
<1>9. QED BY <1>6, <1>7, <1>8 DEF Bounds, Alone

LEMMA RecoveriesBound ==
  ASSUME SoundEnvironment, IInv, Bounds, Recoveries
  PROVE  Bounds'
<1>1. CASE Recover \/ RecoverFails
  BY <1>1, QuietBounds DEF Recover, RecoverFails, Idle, StartFlush, Return, memory
<1>2. CASE \E top \in segs \cap DOMAIN disk :
             \E k \in 0..Len(disk[top].data) : RecoverScan(top, k)
  <2>1. PICK top \in segs \cap DOMAIN disk :
          \E k \in 0..Len(disk[top].data) : RecoverScan(top, k)
    BY <1>2
  <2>2. PICK k \in 0..Len(disk[top].data) : RecoverScan(top, k)
    BY <2>1
  <2>3. /\ disk[top].stable = Len(disk[top].data)
        /\ disk[top].data # <<>> => disk[top].named
        /\ RecoverLocked(DOMAIN disk, top, k) /\ pending = <<>>
    BY <2>2, RecoverFinds
  <2>4. Recovers(Contents(DOMAIN disk), top, k) /\ disk' = Trimmed(top, k) /\ cur' = top
    BY <2>3 DEF RecoverLocked
  <2>5. pending' = <<>> /\ pc' = "idle"
    BY <2>2, <2>3 DEF RecoverScan, Return
  <2>6. QED BY <2>3, <2>4, <2>5, TrimmedBounds
<1>3. CASE \E top \in DOMAIN disk :
             \E k \in 0..Len(disk[top].data) : OpenDirectory(top, k) \/ OpenInterrupted(top, k)
  <2>1. PICK top \in DOMAIN disk :
          \E k \in 0..Len(disk[top].data) : OpenDirectory(top, k) \/ OpenInterrupted(top, k)
    BY <1>3
  <2>2. PICK k \in 0..Len(disk[top].data) : OpenDirectory(top, k) \/ OpenInterrupted(top, k)
    BY <2>1
  <2>3. ~open /\ disk[top].stable = Len(disk[top].data) /\ disk[top].named
    BY <2>2 DEF OpenDirectory, OpenInterrupted, IInv, FilesSettled
  <2>4. /\ Recovers(Contents(DOMAIN disk), top, k) /\ disk' = Trimmed(top, k)
        /\ open' => cur' = top
    BY <2>2, <2>3 DEF OpenDirectory, OpenInterrupted, RecoverLocked, memory
  <2>5. pending' = <<>> /\ pc' = "idle"
    BY <2>2, <2>3, DownState DEF OpenDirectory, OpenInterrupted, memory, control
  <2>6. QED BY <2>3, <2>4, <2>5, TrimmedBounds
<1>4. CASE OpenEmptyDirectory
  <2>1. /\ disk' = [s \in {1} |-> NewFile] /\ cur' = 1 /\ pending' = <<>> /\ pc' = "idle"
    BY <1>4, DownState DEF OpenEmptyDirectory, control
  <2>2. DOMAIN disk' = {1} /\ disk'[1].data = <<>>
    BY <2>1 DEF NewFile
  <2>3. Body' = <<>>
    BY <2>1, <2>2 DEF Body, Base
  <2>4. QED BY <2>1, <2>2, <2>3, NothingAlone DEF Bounds, Alone
<1>5. QED BY <1>1, <1>2, <1>3, <1>4, RecoveriesSplit

LEMMA CleaningsBound ==
  ASSUME SoundEnvironment, IInv, Bounds, Cleanings
  PROVE  Bounds'
<1>1. TypeOK
  BY DEF IInv
<1>2. CASE \E mark \in 1..MaxSeq + 1 : CleanOldSegments(mark)
  BY <1>2, QuietBounds DEF CleanOldSegments, Idle, StartFlush, memory
<1>3. CASE \E s \in segs : CleanSegment(s) \/ CleanFails(s)
  <2>1. PICK s \in segs : CleanSegment(s) \/ CleanFails(s)
    BY <1>3
  <2>2. /\ pc = "clean" /\ pc' \in {"clean", "idle"} /\ UNCHANGED <<open, cur, pending>>
        /\ s \in call.todo
    BY <2>1 DEF CleanSegment, CleanFails, Return, Oldest
  <2>3. open /\ s # cur /\ cur \in DOMAIN disk /\ disk \in [DOMAIN disk -> File]
    BY <1>1, <2>2 DEF TypeOK
  <2>4. /\ DOMAIN disk \ {s} \subseteq DOMAIN disk' /\ DOMAIN disk' \subseteq DOMAIN disk
        /\ \A t \in DOMAIN disk' : disk'[t].data = disk[t].data
    <3>1. CASE disk' = disk
      BY <3>1
    <3>2. CASE disk' = [t \in DOMAIN disk \ {s} |-> disk[t]]
      BY <3>2
    <3>3. CASE disk' = [t \in DOMAIN disk \ {s} |-> [disk[t] EXCEPT !.named = TRUE]]
      BY <2>3, <3>3 DEF File
    <3>4. QED BY <2>1, <3>1, <3>2, <3>3 DEF CleanSegment, CleanFails
  <2>5. Body' = Body
    BY <2>2, <2>3, <2>4 DEF Body, Base
  <2>6. QED BY <2>2, <2>4, <2>5, SameBounds
<1>4. CASE CleanReturns
  BY <1>4, QuietBounds DEF CleanReturns, Return
<1>5. CASE (\E seq \in 1..MaxSeq : Corrupt(seq)) \/ CorruptFlips
  BY <1>5 DEF Corrupt, CorruptFlips, SoundEnvironment, IInv, Control
<1>6. QED BY <1>2, <1>3, <1>4, <1>5 DEF Cleanings

\* What a process that ends, or a loss of power, leaves: a rest of every file that begins
\* with its stable frames; only a file without a durable name vanishes.
LEMMA LeftOver ==
  ASSUME SoundEnvironment, IInv, CloseReturns \/ ProcessCrash \/ PowerLoss
  PROVE  /\ Down /\ DOMAIN disk' \subseteq DOMAIN disk
         /\ \A s \in DOMAIN disk \ DOMAIN disk' : ~disk[s].named
         /\ \A s \in DOMAIN disk' :
              /\ RestOf(disk'[s].data, disk[s].data)
              /\ disk[s].stable <= Len(disk'[s].data)
              /\ \A i \in 1..disk[s].stable : disk'[s].data[i] = disk[s].data[i]
              /\ disk[s].stable = Len(disk[s].data) => disk'[s].data = disk[s].data
<1>1. \A s \in DOMAIN disk :
        /\ disk[s] \in File /\ disk[s].data \in Seq(Frame) /\ ~disk[s].dropped
        /\ disk[s].stable \in Nat /\ disk[s].stable <= Len(disk[s].data)
        /\ TornEnd(disk[s].data)
  BY FileType DEF IInv, FilesChained
<1>2. CASE CloseReturns \/ ProcessCrash
  <2>1. Down /\ disk' = LeftBehind
    BY <1>2 DEF CloseReturns, ProcessCrash
  <2>2. disk' = [s \in DOMAIN disk |->
                   [disk[s] EXCEPT !.named = TRUE,
                                   !.stable = IF disk[s].dropped THEN @ ELSE Len(disk[s].data)]]
    BY <2>1 DEF LeftBehind, SoundEnvironment
  <2>3. DOMAIN disk' = DOMAIN disk
    BY <2>2
  <2>4. ASSUME NEW s \in DOMAIN disk
        PROVE  disk'[s].data = disk[s].data
    <3>1. disk'[s] = [disk[s] EXCEPT !.named = TRUE, !.stable = Len(disk[s].data)]
      BY <1>1, <2>2
    <3>2. QED BY <1>1, <3>1 DEF File
  <2>5. \A s \in DOMAIN disk : RestOf(disk[s].data, disk[s].data)
    BY <1>1, WholeRest
  <2>6. QED BY <1>1, <2>1, <2>3, <2>4, <2>5
<1>3. CASE PowerLoss
  <2>1. PICK gone \in SUBSET {s \in DOMAIN disk : ~disk[s].named} :
          \E left \in [Dirty \ gone -> UNION {Remains(disk[s]) : s \in Dirty}] :
            /\ \A s \in Dirty \ gone : left[s] \in Remains(disk[s])
            /\ disk' = [s \in DOMAIN disk \ gone |->
                          Settled(IF s \in Dirty THEN left[s] ELSE disk[s].data)]
            /\ Down
    BY <1>3 DEF PowerLoss
  <2>2. PICK left \in [Dirty \ gone -> UNION {Remains(disk[s]) : s \in Dirty}] :
          /\ \A s \in Dirty \ gone : left[s] \in Remains(disk[s])
          /\ disk' = [s \in DOMAIN disk \ gone |->
                        Settled(IF s \in Dirty THEN left[s] ELSE disk[s].data)]
          /\ Down
    BY <2>1
  <2>3. DOMAIN disk' = DOMAIN disk \ gone
    BY <2>2
  <2>4. ASSUME NEW s \in DOMAIN disk'
        PROVE  /\ RestOf(disk'[s].data, disk[s].data)
               /\ disk[s].stable <= Len(disk'[s].data)
               /\ \A i \in 1..disk[s].stable : disk'[s].data[i] = disk[s].data[i]
               /\ disk[s].stable = Len(disk[s].data) => disk'[s].data = disk[s].data
    <3>1. s \in DOMAIN disk /\ s \notin gone
      BY <2>3
    <3>2. disk'[s].data = IF s \in Dirty THEN left[s] ELSE disk[s].data
      BY <2>2, <2>3 DEF Settled
    <3>3. CASE s \notin Dirty
      <4>1. disk'[s].data = disk[s].data
        BY <3>2, <3>3
      <4>2. RestOf(disk[s].data, disk[s].data)
        BY <1>1, <3>1, WholeRest
      <4>3. QED BY <1>1, <3>1, <4>1, <4>2
    <3>4. CASE s \in Dirty
      <4>1. disk'[s].data \in Remains(disk[s])
        BY <2>2, <3>1, <3>2, <3>4
      <4>2. RestOf(disk'[s].data, disk[s].data)
        BY <1>1, <3>1, <4>1, RemainsRest
      <4>3. /\ disk[s].stable <= Len(disk'[s].data)
            /\ \A i \in 1..disk[s].stable : disk'[s].data[i] = disk[s].data[i]
        BY <1>1, <3>1, <4>1, RemainsFront
      <4>4. disk[s].stable < Len(disk[s].data)
        BY <3>4 DEF Dirty
      <4>5. disk[s].stable # Len(disk[s].data)
        BY <1>1, <3>1, <4>4
      <4>6. QED BY <4>2, <4>3, <4>5
    <3>5. QED BY <3>3, <3>4
  <2>5. \A s \in DOMAIN disk \ DOMAIN disk' : ~disk[s].named
    BY <2>1, <2>3
  <2>6. QED BY <2>2, <2>3, <2>4, <2>5
<1>4. QED BY <1>2, <1>3

LEMMA EndingsBound ==
  ASSUME SoundEnvironment, IInv, Bounds, Endings
  PROVE  Bounds'
<1>1. CASE Close
  BY <1>1, QuietBounds DEF Close, Idle, StartFlush, memory
<1>2. CASE CloseReturns \/ ProcessCrash \/ PowerLoss
  <2>1. /\ Down /\ DOMAIN disk' \subseteq DOMAIN disk
        /\ \A s \in DOMAIN disk' : RestOf(disk'[s].data, disk[s].data)
    BY <1>2, LeftOver
  <2>2. ASSUME NEW s \in DOMAIN disk'
        PROVE  Alone(disk'[s].data)
    <3>1. disk[s].data \in Seq(Frame) /\ Alone(disk[s].data)
      BY <2>1, FileType DEF IInv, Bounds
    <3>2. /\ disk'[s].data \in Seq(Frame) /\ Len(disk'[s].data) <= Len(disk[s].data)
          /\ \A i \in 1..Len(disk'[s].data) : disk'[s].data[i].seq = disk[s].data[i].seq
      BY <2>1 DEF RestOf
    <3>3. QED BY <3>1, <3>2, RestAlone
  <2>3. ~open' /\ pc' = "idle"
    BY <2>1 DEF Down, Return
  <2>4. QED BY <2>2, <2>3 DEF Bounds, Alone
<1>3. QED BY <1>1, <1>2 DEF Endings

\* A segment outgrows MaxSegmentBytes only to hold one oversized record alone, although
\* rotation counts a buffer that is not written yet, a write may stop half-way and leave
\* the buffer in place, and a segment may be created for a record that is never put.
THEOREM AlwaysSegmentBounded ==
  ASSUME SoundEnvironment
  PROVE  Spec => []SegmentBounded
<1>1. Init => Bounds
  BY DEF Init, Bounds
<1>2. IInv /\ Bounds /\ [Next]_vars => Bounds'
  <2>1. SUFFICES ASSUME IInv, Bounds, [Next]_vars PROVE Bounds'
    OBVIOUS
  <2>2. CASE UNCHANGED vars
    <3>1. UNCHANGED <<disk, open, cur, pending, before, pc>>
      BY <2>2 DEF vars, memory, control
    <3>2. Body' = Body
      BY <3>1 DEF Body, Base
    <3>3. QED BY <2>1, <3>1, <3>2 DEF Bounds, Alone
  <2>3. QED BY <2>1, <2>2, AppendsBound, FlushesBound, RecoveriesBound, CleaningsBound,
            EndingsBound DEF Next
<1>3. IInv /\ Bounds => SegmentBounded
  <2>1. SUFFICES ASSUME IInv, Bounds, Idle, NEW s \in segs \ shut,
                        Len(Written(s)) > MaxSegmentBytes,
                        NEW i \in 1..Len(Written(s)), NEW j \in 1..Len(Written(s))
                 PROVE  Written(s)[i].seq = Written(s)[j].seq
    BY DEF SegmentBounded
  <2>2. open /\ s \in DOMAIN disk /\ Written(s) = Logged(s)
    BY <2>1, WrittenIsLogged
  <2>3. Alone(Written(s))
    BY <2>1, <2>2 DEF Logged, Bounds
  <2>4. QED BY <2>1, <2>3 DEF Alone
<1>4. QED BY <1>1, <1>2, <1>3, Inductive, PTL DEF Spec

-------------------------------------------------------------------------------
(* Durable records stay.                                                    *)

\* Frame i of segment s is on the disk after the step as it was before.
Kept(s, i) ==
  s \in DOMAIN disk' /\ i \in 1..Len(disk'[s].data) /\ disk'[s].data[i] = disk[s].data[i]

\* What a step takes from the disk was never promised, or lies below the mark of the
\* cleaning that takes it.
Spares ==
  \A s \in DOMAIN disk : \A i \in 1..Len(disk[s].data) :
    \/ Kept(s, i)
    \/ disk[s].data[i].seq > promised
    \/ pc = "clean" /\ disk[s].data[i].seq < call.mark

LEMMA SparesDurable ==
  ASSUME Spares
  PROVE  \A seq \in Recorded \ Recorded' : seq > promised \/ (pc = "clean" /\ seq < call.mark)
<1>1. SUFFICES ASSUME NEW seq \in Recorded, seq \notin Recorded'
               PROVE  seq > promised \/ (pc = "clean" /\ seq < call.mark)
  OBVIOUS
<1>2. PICK s \in DOMAIN disk :
        seq \in {disk[s].data[i].seq : i \in {j \in 1..Len(disk[s].data) :
                                               FlagLast(disk[s].data[j])
                                               /\ disk[s].data[j].kind = "ok"}}
  BY DEF Recorded
<1>3. PICK i \in 1..Len(disk[s].data) :
        FlagLast(disk[s].data[i]) /\ disk[s].data[i].kind = "ok" /\ seq = disk[s].data[i].seq
  BY <1>2
<1>4. ~Kept(s, i)
  <2>1. SUFFICES ASSUME Kept(s, i) PROVE seq \in Recorded'
    BY <1>1
  <2> DEFINE g == disk'[s].data[i]
  <2>2. s \in DOMAIN disk' /\ i \in 1..Len(disk'[s].data)
    BY <2>1 DEF Kept
  <2>3. g = disk[s].data[i]
    BY <2>1 DEF Kept
  <2>4. FlagLast(g) /\ g.kind = "ok" /\ seq = g.seq
    BY <1>3, <2>3 DEF FlagLast
  <2>5. QED BY <2>2, <2>4 DEF Recorded, FlagLast
<1>5. QED BY <1>3, <1>4 DEF Spares

\* A step that keeps every frame.
LEMMA SameFrames ==
  ASSUME IInv, DOMAIN disk \subseteq DOMAIN disk', \A s \in DOMAIN disk : disk'[s].data = disk[s].data
  PROVE  Spares
BY DEF Spares, Kept

\* The frames behind the first k of a segment, if those end a record, belong to later ones.
LEMMA BehindLater ==
  ASSUME NEW base \in Nat, NEW d \in Seq(Frame), Chained(d, base),
         NEW k \in 0..Len(d), Complete(d, k), NEW i \in k + 1..Len(d)
  PROVE  SeqAt(d, k, base) \in Nat /\ SeqAt(d, k, base) < d[i].seq
<1>1. i \in 1..Len(d) /\ d[i].seq \in Nat /\ base < d[i].seq
  <2>1. i \in 1..Len(d)
    OBVIOUS
  <2>2. QED BY <2>1, FrameTypes, LastFrame
<1>2. CASE k = 0
  BY <1>1, <1>2 DEF SeqAt
<1>3. CASE k # 0
  <2>1. k \in 1..Len(d) /\ k \in 1..Len(d) - 1 /\ k + 1 \in 1..i /\ k + 1 \in 1..Len(d) /\ k > 0
    BY <1>3
  <2>2. FlagLast(d[k])
    BY <2>1 DEF Complete
  <2>3. d[k + 1].seq = d[k].seq + 1
    BY <2>1, <2>2 DEF Chained, Linear
  <2>4. d[k + 1].seq <= d[i].seq
    BY <1>1, <2>1 DEF Chained, Ordered
  <2>5. d[k].seq \in Nat
    BY <2>1, FrameTypes
  <2>6. QED BY <1>1, <1>3, <2>3, <2>4, <2>5 DEF SeqAt
<1>4. QED BY <1>2, <1>3

\* A step of an open log that keeps the other files, and of the current one the frames
\* that no loss of power takes, or drops it when it holds none.
LEMMA StableStay ==
  ASSUME RInv, open,
         \A s \in DOMAIN disk \ {cur} : s \in DOMAIN disk' /\ disk'[s].data = disk[s].data,
         \/ cur \notin DOMAIN disk' /\ ~disk[cur].named
         \/ /\ cur \in DOMAIN disk' /\ Len(disk'[cur].data) \in Nat
            /\ disk[cur].stable <= Len(disk'[cur].data)
            /\ \A i \in 1..disk[cur].stable : disk'[cur].data[i] = disk[cur].data[i]
  PROVE  Spares
<1> DEFINE d == disk[cur].data
           k == disk[cur].stable
<1>1. IInv /\ Marked /\ promised = durable
  BY DEF RInv, MInv, Promises
<1>2. /\ d \in Seq(Frame) /\ cur - 1 \in Nat /\ k \in 0..Len(d) /\ Chained(d, cur - 1)
      /\ cur \in DOMAIN disk
  BY <1>1, StableFrames DEF IInv, FilesChained
<1>3. /\ durable = SeqAt(d, k, cur - 1) /\ Complete(d, k)
      /\ k > 0 => disk[cur].named
  BY <1>1 DEF Marked
<1> HIDE DEF d, k
<1>4. ASSUME NEW i \in 1..Len(d)
      PROVE  Kept(cur, i) \/ d[i].seq > promised
  <2>1. CASE k < i
    <3>1. i \in k + 1..Len(d)
      BY <1>2, <2>1
    <3>2. SeqAt(d, k, cur - 1) \in Nat /\ SeqAt(d, k, cur - 1) < d[i].seq
      BY <1>2, <1>3, <3>1, BehindLater
    <3>3. QED BY <1>1, <1>3, <3>2
  <2>2. CASE i <= k
    <3>1. k > 0 /\ i \in 1..k
      BY <1>2, <2>2
    <3>2. /\ cur \in DOMAIN disk' /\ Len(disk'[cur].data) \in Nat
          /\ k <= Len(disk'[cur].data)
          /\ \A j \in 1..k : disk'[cur].data[j] = d[j]
      BY <1>3, <3>1 DEF d, k
    <3>3. i \in 1..Len(disk'[cur].data)
      BY <1>2, <3>1, <3>2
    <3>4. QED BY <3>1, <3>2, <3>3 DEF Kept, d
  <2>3. QED BY <1>2, <2>1, <2>2
<1>5. ASSUME NEW s \in DOMAIN disk, NEW i \in 1..Len(disk[s].data)
      PROVE  Kept(s, i) \/ disk[s].data[i].seq > promised
  <2>1. CASE s = cur
    BY <1>4, <2>1 DEF d
  <2>2. CASE s # cur
    BY <2>2 DEF Kept
  <2>3. QED BY <2>1, <2>2
<1>6. QED BY <1>5 DEF Spares

\* A step of an open log that puts w in the current file, behind its stable frames.
LEMMA WritesSpare ==
  ASSUME RInv, open, NEW w \in Seq(Frame), Writes(w), disk[cur].stable <= Len(w),
         \A i \in 1..disk[cur].stable : w[i] = disk[cur].data[i]
  PROVE  Spares
<1>1. cur \in DOMAIN disk /\ IInv /\ TypeOK
  BY StableFrames DEF RInv, MInv, IInv
<1>2. PICK f \in File : disk' = [disk EXCEPT ![cur] = f] /\ f.data = w
  BY <1>1, WritesFile
<1>3. /\ DOMAIN disk' = DOMAIN disk /\ disk'[cur].data = w
      /\ \A s \in DOMAIN disk \ {cur} : disk'[s] = disk[s]
  BY <1>1, <1>2 DEF TypeOK
<1>4. QED BY <1>1, <1>3, StableStay

LEMMA FlushesSpare ==
  ASSUME SoundEnvironment, RInv, Flushes
  PROVE  Spares
<1>1. IInv /\ TypeOK
  BY DEF RInv, MInv, IInv
<1>2. CASE Sync \/ PeriodicFlush \/ WriteFails
  BY <1>1, <1>2, SameFrames DEF Sync, PeriodicFlush, WriteFails
<1>3. CASE SyncFile \/ SyncFails
  <2>1. open
    BY <1>1, <1>3 DEF SyncFile, SyncFails, TypeOK
  <2>2. cur \in DOMAIN disk /\ disk \in [DOMAIN disk -> File]
    BY <1>1, <2>1, CurrentFile DEF IInv, TypeOK
  <2>3. DOMAIN disk' = DOMAIN disk /\ \A s \in DOMAIN disk : disk'[s].data = disk[s].data
    <3>1. Synced(disk[cur]).data = disk[cur].data
      BY <2>2 DEF Synced, File
    <3>2. CASE SyncFile
      BY <2>2, <3>1, <3>2 DEF SyncFile
    <3>3. CASE SyncFails
      BY <2>2, <3>3 DEF SyncFails, File
    <3>4. QED BY <1>3, <3>2, <3>3
  <2>4. QED BY <1>1, <2>3, SameFrames
<1>4. CASE WriteAll \/ WriteRest \/ Rollback
  <2>1. open
    BY <1>1, <1>4 DEF WriteAll, WriteRest, Rollback, TypeOK
  <2>2. /\ Base \in Seq(Frame) /\ Body \in Seq(Frame) /\ Len(Base) <= Len(Body)
        /\ disk[cur].stable \in Nat /\ disk[cur].stable <= Len(Base)
        /\ \A i \in 1..Len(Base) : Body[i] = disk[cur].data[i] /\ Base[i] = disk[cur].data[i]
    <3>1. /\ Base \in Seq(Frame) /\ Body \in Seq(Frame) /\ pending \in Seq(Frame)
          /\ Len(Body) = Len(Base) + Len(pending)
          /\ \A i \in 1..Len(Base) : Body[i] = Base[i]
      BY <1>1, <2>1, CurrentFile DEF IInv
    <3>2. /\ disk[cur].stable \in Nat /\ disk[cur].stable <= Len(Base)
          /\ \A i \in 1..Len(Base) : Base[i] = disk[cur].data[i]
      BY <1>1, <2>1, StableFrames
    <3>3. Len(Base) <= Len(Body)
      BY <3>1
    <3>4. QED BY <3>1, <3>2, <3>3
  <2>3. \A i \in 1..disk[cur].stable : i \in 1..Len(Base)
    BY <2>2
  <2>4. disk[cur].stable <= Len(Body)
    BY <2>2
  <2>5. Writes(Body) \/ Writes(Base)
    BY <1>4 DEF WriteAll, WriteRest, Rollback, Body, Base
  <2>6. QED BY <2>1, <2>2, <2>3, <2>4, <2>5, WritesSpare
<1>5. CASE \E k \in 0..Len(pending), torn \in BOOLEAN : WritePart(k, torn)
  <2>1. PICK k \in 0..Len(pending), torn \in BOOLEAN : WritePart(k, torn)
    BY <1>5
  <2> DEFINE n == Len(disk[cur].data)
             w == disk[cur].data \o SubSeq(pending, 1, k)
                    \o IF torn THEN <<[pending[k+1] EXCEPT !.kind = "torn"]>> ELSE <<>>
  <2>2. /\ Writes(w) /\ RestOf(w, Body) /\ n <= Len(w)
        /\ \A i \in 1..n : w[i] = Body[i]
    BY <1>1, <2>1, PartIsRest
  <2> HIDE DEF w
  <2>3. open /\ pc = "write"
    BY <1>1, <2>1 DEF WritePart, TypeOK
  <2>4. Base = disk[cur].data
    BY <2>3 DEF Base
  <2>5. /\ disk[cur].stable \in Nat /\ disk[cur].stable <= n /\ n \in Nat
        /\ \A i \in 1..n : Body[i] = disk[cur].data[i]
    BY <1>1, <2>3, <2>4, StableFrames, CurrentFile DEF IInv
  <2>6. w \in Seq(Frame) /\ Len(w) \in Nat
    BY <2>2 DEF RestOf
  <2>7. disk[cur].stable <= Len(w) /\ \A i \in 1..disk[cur].stable : i \in 1..n
    BY <2>2, <2>5, <2>6
  <2>8. \A i \in 1..disk[cur].stable : w[i] = disk[cur].data[i]
    BY <2>2, <2>5, <2>7
  <2>9. QED BY <2>2, <2>3, <2>6, <2>7, <2>8, WritesSpare
<1>6. ~RollbackFails
  BY DEF RollbackFails, SoundEnvironment
<1>7. QED BY <1>2, <1>3, <1>4, <1>5, <1>6 DEF Flushes

\* A recovery takes what lies behind the last record it can read, and that is behind all
\* that was promised.
LEMMA RecoveriesSpare ==
  ASSUME SoundEnvironment, RInv, Recoveries
  PROVE  Spares
<1>1. IInv /\ TypeOK /\ MInv
  BY DEF RInv, MInv, IInv
<1>2. CASE Recover \/ RecoverFails
  BY <1>1, <1>2, SameFrames DEF Recover, RecoverFails
<1>3. CASE \E top \in segs \cap DOMAIN disk :
             \E k \in 0..Len(disk[top].data) : RecoverScan(top, k)
  <2>1. PICK top \in segs \cap DOMAIN disk :
          \E k \in 0..Len(disk[top].data) : RecoverScan(top, k)
    BY <1>3
  <2>2. PICK k \in 0..Len(disk[top].data) : RecoverScan(top, k)
    BY <2>1
  <2>3. disk' = disk
    BY <1>1, <2>2, RecoverRepeats
  <2>4. QED BY <1>1, <2>3, SameFrames
<1>4. CASE \E top \in DOMAIN disk :
             \E k \in 0..Len(disk[top].data) : OpenDirectory(top, k) \/ OpenInterrupted(top, k)
  <2>1. PICK top \in DOMAIN disk :
          \E k \in 0..Len(disk[top].data) : OpenDirectory(top, k) \/ OpenInterrupted(top, k)
    BY <1>4
  <2>2. PICK k \in 0..Len(disk[top].data) : OpenDirectory(top, k) \/ OpenInterrupted(top, k)
    BY <2>1
  <2>3. /\ ~open /\ Recovers(Contents(DOMAIN disk), top, k) /\ disk' = Trimmed(top, k)
    BY <2>2 DEF OpenDirectory, OpenInterrupted, RecoverLocked
  <2> DEFINE d == disk[top].data
  <2>4. /\ d \in Seq(Frame) /\ top - 1 \in Nat /\ Chained(d, top - 1)
        /\ disk[top].stable = Len(d) /\ disk[top].named
    BY <1>1, <2>3, FileType DEF IInv, FilesChained, FilesSettled
  <2>5. ScanKeeps(d, top - 1, k)
    <3>1. DOMAIN Contents(DOMAIN disk) = DOMAIN disk /\ Contents(DOMAIN disk)[top] = d
      BY DEF Contents
    <3>2. QED BY <2>3, <3>1 DEF Recovers
  <2>6. /\ DOMAIN disk' = DOMAIN disk /\ disk'[top].data = SubSeq(d, 1, k)
        /\ \A s \in DOMAIN disk : s # top => disk'[s] = disk[s]
    BY <1>1, <2>3, <2>4, <2>5, TrimmedFile DEF IInv
  <2>7. SeqAt(d, k, top - 1) \in Nat /\ promised <= SeqAt(d, k, top - 1) /\ promised \in Nat
    BY <1>1, <2>3, OpenFinds DEF TypeOK
  <2>8. Complete(d, k)
    BY <2>5 DEF ScanKeeps
  <2>9. Len(SubSeq(d, 1, k)) = k /\ \A i \in 1..k : SubSeq(d, 1, k)[i] = d[i]
    BY <2>4
  <2>10. ASSUME NEW s \in DOMAIN disk, NEW i \in 1..Len(disk[s].data)
         PROVE  Kept(s, i) \/ disk[s].data[i].seq > promised
    <3>1. CASE s # top
      BY <2>6, <3>1 DEF Kept
    <3>2. CASE s = top /\ i <= k
      <4>1. i \in 1..k
        BY <3>2
      <4>2. QED BY <2>6, <2>9, <3>2, <4>1 DEF Kept
    <3>3. CASE s = top /\ ~(i <= k)
      <4>1. i \in k + 1..Len(d)
        BY <3>3
      <4> HIDE DEF d
      <4>2. k \in 0..Len(d)
        BY DEF d
      <4>3. SeqAt(d, k, top - 1) < d[i].seq
        BY <2>4, <2>8, <4>1, <4>2, BehindLater
      <4>4. d[i].seq \in Nat
        <5>1. i \in 1..Len(d)
          BY <2>4, <4>1, <4>2
        <5>2. QED BY <2>4, <5>1, FrameTypes
      <4>5. d[i].seq > promised
        BY <2>7, <4>3, <4>4
      <4>6. QED BY <3>3, <4>5 DEF d
    <3>4. QED BY <3>1, <3>2, <3>3
  <2>11. QED BY <2>10 DEF Spares
<1>5. CASE OpenEmptyDirectory
  BY <1>5 DEF OpenEmptyDirectory, Spares
<1>6. QED BY <1>1, <1>2, <1>3, <1>4, <1>5, RecoveriesSplit

\* The segment a cleaning removes ends in front of its mark.
LEMMA CleaningsSpare ==
  ASSUME SoundEnvironment, PInv, Shut, Cleanings
  PROVE  Spares
<1>1. IInv /\ TypeOK
  BY DEF PInv, IInv
<1>2. CASE \E mark \in 1..MaxSeq + 1 : CleanOldSegments(mark)
  BY <1>1, <1>2, SameFrames DEF CleanOldSegments
<1>3. CASE \E s \in segs : CleanSegment(s) \/ CleanFails(s)
  <2>1. PICK s \in segs : CleanSegment(s) \/ CleanFails(s)
    BY <1>3
  <2>2. pc = "clean" /\ s \in call.todo /\ open
    BY <1>1, <2>1 DEF CleanSegment, CleanFails, Oldest, TypeOK
  <2>3. disk \in [DOMAIN disk -> File]
    BY <1>1 DEF TypeOK
  <2>4. /\ DOMAIN disk \ {s} \subseteq DOMAIN disk'
        /\ \A t \in DOMAIN disk' : t \in DOMAIN disk /\ disk'[t].data = disk[t].data
    <3>1. CASE disk' = disk
      BY <3>1
    <3>2. CASE disk' = [t \in DOMAIN disk \ {s} |-> disk[t]]
      BY <3>2
    <3>3. CASE disk' = [t \in DOMAIN disk \ {s} |-> [disk[t] EXCEPT !.named = TRUE]]
      BY <2>3, <3>3 DEF File
    <3>4. QED BY <2>1, <3>1, <3>2, <3>3 DEF CleanSegment, CleanFails
  <2>5. ASSUME s \in DOMAIN disk, NEW i \in 1..Len(disk[s].data)
        PROVE  disk[s].data[i].seq < call.mark
    <3>1. s \in segs \ {cur} /\ EndSeq(s) < call.mark
      BY <2>2 DEF Shut, Old
    <3>2. PICK t \in segs : Adjacent(segs, s, t) /\ EndSeq(s) = t - 1
      BY <1>1, <2>2, <3>1, EndSeqNext
    <3>3. s < t /\ t \in DOMAIN disk
      BY <2>5, <3>2 DEF PInv, Trailing, Adjacent
    <3>4. LastSeqOf(disk[s].data, s - 1) < t
      BY <1>1, <2>5, <3>3 DEF IInv, FilesLinked
    <3>5. /\ disk[s].data \in Seq(Frame) /\ s - 1 \in Nat /\ Chained(disk[s].data, s - 1)
      BY <1>1, <2>5, FileType DEF IInv, FilesChained
    <3>6. /\ disk[s].data[i].seq <= LastSeqOf(disk[s].data, s - 1)
          /\ disk[s].data[i].seq \in Nat /\ LastSeqOf(disk[s].data, s - 1) \in Nat
      BY <2>5, <3>5, LastFrame, FrameTypes, LastSeqType
    <3>7. t \in Nat /\ call.mark \in Nat
      BY <1>1 DEF TypeOK, Call
    <3>8. QED BY <3>1, <3>2, <3>4, <3>6, <3>7
  <2>6. ASSUME NEW t \in DOMAIN disk, NEW i \in 1..Len(disk[t].data)
        PROVE  Kept(t, i) \/ (pc = "clean" /\ disk[t].data[i].seq < call.mark)
    <3>1. CASE t \in DOMAIN disk'
      BY <2>4, <3>1 DEF Kept
    <3>2. CASE t \notin DOMAIN disk'
      <4>1. t = s
        BY <2>4, <3>2
      <4>2. QED BY <2>2, <2>5, <4>1
    <3>3. QED BY <3>1, <3>2
  <2>7. QED BY <2>6 DEF Spares
<1>4. CASE CleanReturns
  BY <1>1, <1>4, SameFrames DEF CleanReturns
<1>5. CASE (\E seq \in 1..MaxSeq : Corrupt(seq)) \/ CorruptFlips
  BY <1>1, <1>5 DEF Corrupt, CorruptFlips, SoundEnvironment, IInv, Control
<1>6. QED BY <1>2, <1>3, <1>4, <1>5 DEF Cleanings

LEMMA EndingsSpare ==
  ASSUME SoundEnvironment, RInv, Endings
  PROVE  Spares
<1>1. IInv /\ TypeOK
  BY DEF RInv, MInv, IInv
<1>2. CASE Close
  BY <1>1, <1>2, SameFrames DEF Close
<1>3. CASE CloseReturns \/ ProcessCrash \/ PowerLoss
  <2>1. /\ DOMAIN disk' \subseteq DOMAIN disk
        /\ \A s \in DOMAIN disk \ DOMAIN disk' : ~disk[s].named
        /\ \A s \in DOMAIN disk' :
             /\ RestOf(disk'[s].data, disk[s].data)
             /\ disk[s].stable <= Len(disk'[s].data)
             /\ \A i \in 1..disk[s].stable : disk'[s].data[i] = disk[s].data[i]
             /\ disk[s].stable = Len(disk[s].data) => disk'[s].data = disk[s].data
    BY <1>1, <1>3, LeftOver
  <2>2. CASE ~open
    <3>1. \A s \in DOMAIN disk : disk[s].stable = Len(disk[s].data) /\ disk[s].named
      BY <1>1, <2>2 DEF IInv, FilesSettled
    <3>2. DOMAIN disk \subseteq DOMAIN disk' /\ \A s \in DOMAIN disk : disk'[s].data = disk[s].data
      BY <2>1, <3>1
    <3>3. QED BY <1>1, <3>2, SameFrames
  <2>3. CASE open
    <3>1. Newest(DOMAIN disk, cur) /\ cur \in DOMAIN disk /\ \A s \in DOMAIN disk : s \in Nat
      BY <1>1, <2>3, TopIsCurrent, CurrentFile, FileType DEF IInv
    <3>2. ASSUME NEW s \in DOMAIN disk \ {cur}
          PROVE  s \in DOMAIN disk' /\ disk'[s].data = disk[s].data
      <4>1. s < cur
        BY <3>1 DEF Newest
      <4>2. Stored(disk[s])
        BY <1>1, <3>1, <4>1 DEF IInv, FilesLinked
      <4>3. QED BY <2>1, <4>2 DEF Stored
    <3>3. CASE cur \in DOMAIN disk'
      <4>1. disk'[cur].data \in Seq(Frame)
        BY <2>1, <3>3 DEF RestOf
      <4>2. Len(disk'[cur].data) \in Nat
        BY <4>1
      <4>3. QED BY <2>1, <2>3, <3>2, <3>3, <4>2, StableStay
    <3>4. CASE cur \notin DOMAIN disk'
      BY <2>1, <2>3, <3>1, <3>2, <3>4, StableStay
    <3>5. QED BY <3>3, <3>4
  <2>4. QED BY <2>2, <2>3
<1>4. QED BY <1>2, <1>3 DEF Endings

\* Where removals do not fail, a record that was ever reported durable stays on the disk
\* until CleanOldSegments is given a mark behind it: no crash, no loss of power, no
\* rollback of a write and no truncation of a torn tail takes it.
THEOREM AlwaysDurableUntilCleaned ==
  ASSUME SoundEnvironment, ReliableRemoval
  PROVE  Spec => DurableUntilCleaned
<1>1. RInv /\ PInv /\ Shut /\ [Next]_vars
        => [\A seq \in Recorded \ Recorded' :
              seq > promised \/ (pc = "clean" /\ seq < call.mark)]_vars
  <2>1. SUFFICES ASSUME RInv, PInv, Shut, Next PROVE Spares
    BY SparesDurable
  <2>2. IInv
    BY <2>1 DEF PInv
  <2>3. CASE Appends
    <3>1. CASE CreateSegment
      <4>1. /\ nextSeq \notin DOMAIN disk
            /\ disk' = [s \in DOMAIN disk \cup {nextSeq} |-> IF s = nextSeq THEN NewFile ELSE disk[s]]
        BY <3>1 DEF CreateSegment
      <4>2. DOMAIN disk \subseteq DOMAIN disk' /\ \A s \in DOMAIN disk : disk'[s].data = disk[s].data
        BY <4>1
      <4>3. QED BY <2>2, <4>2, SameFrames
    <3>2. CASE ~CreateSegment
      <4>1. disk' = disk
        BY <2>3, <3>2 DEF Appends, AppendInPlace, AppendRotating, CreateFails,
                          AppendToNewSegment, Buffer
      <4>2. QED BY <2>2, <4>1, SameFrames
    <3>3. QED BY <3>1, <3>2
  <2>4. QED BY <2>1, <2>3, FlushesSpare, RecoveriesSpare, CleaningsSpare, EndingsSpare DEF Next
<1>2. QED BY <1>1, PromisesHold, PlacesHold, ShutHolds, PTL DEF Spec, DurableUntilCleaned
==============================================================================
