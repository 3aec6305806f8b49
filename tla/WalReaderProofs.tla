---------------------------- MODULE WalReaderProofs ----------------------------
(***************************************************************************)
(* What ReadRange returns, for every value of the constants in the         *)
(* environment of WalProofs, removals that fail included: while a range    *)
(* runs, the log appends, flushes, rotates, cleans and recovers around it. *)
(***************************************************************************)
EXTENDS WalReader, WalIndexProofs

-------------------------------------------------------------------------------
(* The reader takes no step of the log but those of its flushes, so that    *)
(* what is proved of the log holds around it.                               *)

LEMMA ReaderSteps ==
  ASSUME RNext
  PROVE  Next \/ UNCHANGED vars
BY DEF RNext, Around, Reads, ReadRange, NextRecord, CheckLast, Read, ReadFlushes, ReadFlushFails,
       ReadNotFound, ReadReturns, ReadFails, Locate, Finish, Next, Flushes

LEMMA ReaderIsWal == RSpec => Spec
<1>1. RInit => Init
  BY DEF RInit
<1>2. [RNext]_rvars => [Next]_vars
  BY ReaderSteps DEF rvars
<1>3. QED BY <1>1, <1>2, PTL DEF RSpec, Spec

-------------------------------------------------------------------------------
(* What a step of an open log leaves as it was.                             *)

\* The log grows, and only at its end.
LEMMA LogGrows ==
  ASSUME SoundEnvironment, MInv, Next, open, open'
  PROVE  /\ nextSeq \in Nat \ {0} /\ nextSeq' \in Nat \ {0} /\ nextSeq <= nextSeq'
         /\ \A q \in 1..nextSeq - 1 : hist'[q] = hist[q]
<1>1. nextSeq \in Nat \ {0} /\ hist \in Seq(Payloads) /\ nextSeq = Len(hist) + 1
  BY DEF MInv, IInv, TypeOK, Current
<1>2. CASE UNCHANGED <<nextSeq, hist>>
  BY <1>1, <1>2
<1>3. CASE \E p, force : Buffer(p, force)
  <2>1. PICK p, force : Buffer(p, force)
    BY <1>3
  <2>2. nextSeq' = nextSeq + 1 /\ hist' = Append(hist, p)
    BY <2>1 DEF Buffer
  <2>3. QED BY <1>1, <2>2
<1>4. CASE \E top \in segs \cap DOMAIN disk :
             \E k \in 0..Len(disk[top].data) : RecoverScan(top, k)
  <2>1. PICK top \in segs \cap DOMAIN disk :
          \E k \in 0..Len(disk[top].data) : RecoverScan(top, k)
    BY <1>4
  <2>2. PICK k \in 0..Len(disk[top].data) : RecoverScan(top, k)
    BY <2>1
  <2>3. QED BY <1>2, <2>2, RecoverRepeats
<1>5. CASE Appends
  BY <1>2, <1>3, <1>5 DEF Appends, AppendInPlace, AppendRotating, CreateSegment, CreateFails,
                          AppendToNewSegment, memory, history
<1>6. CASE Flushes
  BY <1>2, <1>6, FlushesBody DEF MInv
<1>7. CASE Recoveries
  BY <1>2, <1>4, <1>7, RecoveriesSplit DEF MInv, Recover, RecoverFails, OpenDirectory, OpenInterrupted,
                          OpenEmptyDirectory, memory, history
<1>8. CASE Cleanings
  BY <1>2, <1>8 DEF Cleanings, CleanOldSegments, CleanSegment, CleanFails, CleanReturns,
                    Corrupt, CorruptFlips, memory, history
<1>9. CASE Endings
  BY <1>2, <1>9 DEF Endings, Close, CloseReturns, ProcessCrash, PowerLoss, Down, memory, history
<1>10. QED BY <1>5, <1>6, <1>7, <1>8, <1>9 DEF Next

\* A step that leaves the frames of a segment as they are.
LEMMA SameLogged ==
  ASSUME open, open', UNCHANGED cur, Body' = Body, NEW s, s # cur => disk'[s].data = disk[s].data
  PROVE  Logged(s)' = Logged(s)
BY DEF Logged

\* A record joins the buffer.
Buffers ==
  pc \in {"idle", "put"} /\ \E p \in Payloads, force \in BOOLEAN : Buffer(p, force)

\* A step that neither buffers a record nor begins a segment moves no frame.
LEMMA QuietFrames ==
  ASSUME SoundEnvironment, MInv, Next, open, open',
         ~Buffers, ~CreateSegment
  PROVE  /\ DOMAIN disk' \subseteq DOMAIN disk /\ cur' = cur /\ Body' = Body
         /\ \A s \in DOMAIN disk' : s # cur => disk'[s].data = disk[s].data
<1>1. IInv /\ TypeOK /\ pc \in Steps
  BY DEF MInv, IInv, TypeOK
<1>2. CASE UNCHANGED <<disk, cur, pending>> /\ pc # "partial" /\ pc' # "partial"
  BY <1>2 DEF Body, Base
<1>3. CASE Appends
  <2>1. ~AppendToNewSegment
    BY <1>1 DEF AppendToNewSegment, Buffers, TypeOK, Call
  <2>2. QED BY <1>2, <1>3, <2>1 DEF Appends, AppendInPlace, AppendRotating, Idle, StartFlush,
                                    CreateFails, Return, memory, Buffers
<1>4. CASE Flushes
  BY <1>1, <1>4, FlushesBody
<1>5. CASE Recoveries
  <2>1. CASE Recover \/ RecoverFails
    BY <1>2, <2>1 DEF Recover, RecoverFails, Idle, StartFlush, Return, memory
  <2>2. CASE \E top \in segs \cap DOMAIN disk :
               \E k \in 0..Len(disk[top].data) : RecoverScan(top, k)
    <3>1. PICK top \in segs \cap DOMAIN disk :
            \E k \in 0..Len(disk[top].data) : RecoverScan(top, k)
      BY <2>2
    <3>2. PICK k \in 0..Len(disk[top].data) : RecoverScan(top, k)
      BY <3>1
    <3>3. disk' = disk /\ cur' = cur
      BY <3>2, RecoverRepeats
    <3>4. QED BY <1>2, <3>2, <3>3 DEF RecoverScan, Return
  <2>3. QED BY <1>1, <1>5, <2>1, <2>2, RecoveriesSplit DEF OpenDirectory, OpenInterrupted, OpenEmptyDirectory
<1>6. CASE Cleanings
  <2>1. CASE \E mark \in 1..MaxSeq + 1 : CleanOldSegments(mark)
    BY <1>2, <2>1 DEF CleanOldSegments, Idle, StartFlush, memory
  <2>2. CASE \E s \in segs : CleanSegment(s) \/ CleanFails(s)
    <3>1. PICK s \in segs : CleanSegment(s) \/ CleanFails(s)
      BY <2>2
    <3>2. /\ pc = "clean" /\ pc' \in {"clean", "idle"} /\ UNCHANGED <<cur, pending>>
      BY <3>1 DEF CleanSegment, CleanFails, Return
    <3>3. disk \in [DOMAIN disk -> File]
      BY <1>1 DEF TypeOK
    <3>4. DOMAIN disk' \subseteq DOMAIN disk /\ \A t \in DOMAIN disk' : disk'[t].data = disk[t].data
      <4>1. CASE disk' = disk
        BY <4>1
      <4>2. CASE disk' = [t \in DOMAIN disk \ {s} |-> disk[t]]
        BY <4>2
      <4>3. CASE disk' = [t \in DOMAIN disk \ {s} |-> [disk[t] EXCEPT !.named = TRUE]]
        BY <3>3, <4>3 DEF File
      <4>4. QED BY <3>1, <4>1, <4>2, <4>3 DEF CleanSegment, CleanFails
    <3>5. disk'[cur].data = disk[cur].data
      BY <1>1, <3>1, CleanLeaves
    <3>6. Body' = Body
      BY <3>2, <3>5 DEF Body, Base
    <3>7. QED BY <3>2, <3>4, <3>6
  <2>3. CASE CleanReturns
    BY <1>2, <2>3 DEF CleanReturns, Return
  <2>4. CASE (\E seq \in 1..MaxSeq : Corrupt(seq)) \/ CorruptFlips
    BY <1>1, <2>4 DEF Corrupt, CorruptFlips, SoundEnvironment, IInv, Control
  <2>5. QED BY <1>6, <2>1, <2>2, <2>3, <2>4 DEF Cleanings
<1>7. CASE Endings
  BY <1>2, <1>7 DEF Endings, Close, Idle, StartFlush, CloseReturns, ProcessCrash, PowerLoss, Down,
                    memory
<1>8. QED BY <1>3, <1>4, <1>5, <1>6, <1>7 DEF Next

\* While the log is open, no frame of an assigned sequence comes to a place where it was
\* not before.
LEMMA FramesStay ==
  ASSUME SoundEnvironment, MInv, Next, open, open',
         NEW s \in DOMAIN disk', NEW i \in 1..Len(Logged(s)'), Logged(s)'[i].seq < nextSeq
  PROVE  s \in DOMAIN disk /\ i \in 1..Len(Logged(s)) /\ Logged(s)[i] = Logged(s)'[i]
<1>1. IInv /\ TypeOK /\ Current
  BY DEF MInv, IInv
<1>2. /\ cur \in DOMAIN disk /\ Body \in Seq(Frame) /\ Base \in Seq(Frame)
      /\ pending \in Seq(Frame) /\ nextSeq \in Nat \ {0}
  BY <1>1, CurrentFile DEF TypeOK
<1>3. CASE ~Buffers /\ ~CreateSegment
  BY <1>3, QuietFrames, SameLogged
<1>4. CASE Buffers
  <2>1. PICK p \in Payloads, force \in BOOLEAN : Buffer(p, force)
    BY <1>4 DEF Buffers
  <2> DEFINE f == Fragments(nextSeq, p)
  <2>2. pending' = pending \o f /\ UNCHANGED <<disk, open, cur>>
    BY <2>1 DEF Buffer
  <2>3. pc # "partial" /\ pc' # "partial"
    BY <1>4, <2>1 DEF Buffers, Buffer
  <2>4. f \in Seq(Frame) /\ \A j \in 1..Len(f) : f[j].seq = nextSeq
    <3>1. f \in Seq(Frame) /\ Len(f) = Parts[p]
      BY <1>2, <2>1, FragmentsShape
    <3>2. \A j \in 1..Parts[p] : f[j] = [seq |-> nextSeq, part |-> j, payload |-> p, kind |-> "ok"]
      BY <1>2, <2>1, FragmentsShape
    <3> HIDE DEF f
    <3>3. ASSUME NEW j \in 1..Len(f) PROVE f[j].seq = nextSeq
      <4>1. f[j] = [seq |-> nextSeq, part |-> j, payload |-> p, kind |-> "ok"]
        BY <3>1, <3>2
      <4>2. QED BY <4>1
    <3>4. QED BY <3>1, <3>3
  <2> HIDE DEF f
  <2>5. Base' = Base
    BY <2>2, <2>3 DEF Base
  <2>6. Body' = Body \o f
    BY <1>2, <2>2, <2>4, <2>5, FramesConcat DEF Body
  <2>7. CASE s = cur
    <3>1. Logged(s)' = Body \o f /\ Logged(s) = Body
      BY <2>2, <2>6, <2>7 DEF Logged
    <3>2. i \in 1..Len(Body)
      <4>1. Len(Body \o f) = Len(Body) + Len(f) /\ i \in 1..Len(Body \o f)
        BY <1>2, <2>4, <3>1
      <4>2. i > Len(Body) => (Body \o f)[i] = f[i - Len(Body)] /\ i - Len(Body) \in 1..Len(f)
        BY <1>2, <2>4, <4>1
      <4>3. QED BY <1>2, <2>4, <3>1, <4>1, <4>2
    <3>3. QED BY <1>2, <2>4, <2>7, <3>1, <3>2
  <2>8. CASE s # cur
    BY <2>2, <2>8 DEF Logged
  <2>9. QED BY <2>7, <2>8
<1>5. CASE CreateSegment
  <2>1. /\ disk' = [t \in DOMAIN disk \cup {nextSeq} |-> IF t = nextSeq THEN NewFile ELSE disk[t]]
        /\ cur' = nextSeq /\ pending = <<>> /\ pending' = <<>> /\ pc = "create" /\ pc' = "put"
        /\ nextSeq \notin DOMAIN disk
    BY <1>1, <1>5 DEF CreateSegment, IInv, Control
  <2>2. Body' = <<>>
    <3>1. Base' = <<>>
      BY <2>1 DEF Base, NewFile
    <3>2. QED BY <2>1, <3>1 DEF Body
  <2>3. s # nextSeq
    <3>1. s = nextSeq => Logged(s)' = <<>>
      BY <2>1, <2>2 DEF Logged
    <3>2. QED BY <3>1
  <2>4. s \in DOMAIN disk /\ Logged(s)' = disk[s].data
    BY <2>1, <2>3 DEF Logged
  <2>5. Body = disk[cur].data
    BY <1>2, <2>1 DEF Body, Base
  <2>6. Logged(s) = disk[s].data
    BY <2>5 DEF Logged
  <2>7. QED BY <2>4, <2>6
<1>6. QED BY <1>3, <1>4, <1>5

-------------------------------------------------------------------------------
(* Where a record lies.                                                     *)

\* Two places of one segment that hold the same record are one place.
LEMMA OneSpot ==
  ASSUME NEW base \in Nat, NEW d \in Seq(Frame), Chained(d, base), NEW q,
         NEW a \in Location, NEW b \in Location, LiesAt(d, q, a), LiesAt(d, q, b)
  PROVE  a.off = b.off /\ a.n = b.n
<1>1. /\ a.off \in Nat /\ a.n \in Nat \ {0} /\ b.off \in Nat /\ b.n \in Nat \ {0}
      /\ a.off + a.n <= Len(d) /\ b.off + b.n <= Len(d) /\ Len(d) \in Nat
  BY DEF Location, LiesAt
<1> DEFINE i == a.off + 1
           j == b.off + 1
           k == a.off + a.n
           l == b.off + b.n
<1>2. i \in 1..Len(d) /\ j \in 1..Len(d) /\ k \in 1..Len(d) /\ l \in 1..Len(d)
  BY <1>1
<1>3. /\ d[i].seq = q /\ d[i].part = 1 /\ d[j].seq = q /\ d[j].part = 1
      /\ d[k].seq = q /\ d[k].part = Parts[d[k].payload]
      /\ d[l].seq = q /\ d[l].part = Parts[d[l].payload]
  BY DEF LiesAt, FlagFirst, FlagLast
<1>4. ASSUME NEW x \in 1..Len(d), NEW y \in 1..Len(d), x <= y, d[x].seq = d[y].seq
      PROVE  y - x = d[y].part - d[x].part /\ d[x].part \in Nat /\ d[y].part \in Nat
  <2>1. x \in 1..y
    BY <1>4
  <2>2. d[x].part \in Nat /\ d[y].part \in Nat
    BY FrameTypes
  <2>3. QED BY <1>4, <2>1, <2>2 DEF Chained, Ordered
<1>5. i = j
  <2>1. CASE i <= j
    <3>1. j - i = d[j].part - d[i].part
      BY <1>2, <1>3, <1>4, <2>1
    <3>2. QED BY <1>2, <1>3, <3>1
  <2>2. CASE j <= i
    <3>1. i - j = d[i].part - d[j].part
      BY <1>2, <1>3, <1>4, <2>2
    <3>2. QED BY <1>2, <1>3, <3>1
  <2>3. QED BY <1>1, <2>1, <2>2
<1>6. i <= k /\ i <= l
  BY <1>1, <1>5
<1>7. ASSUME NEW x \in {k, l}
      PROVE  d[x].payload = d[i].payload /\ x - i = Parts[d[i].payload] - 1
             /\ Parts[d[i].payload] \in Nat
  <2>1. x \in 1..Len(d) /\ i <= x /\ d[x].seq = q /\ d[x].part = Parts[d[x].payload]
    BY <1>2, <1>3, <1>6
  <2> HIDE DEF i, j, k, l
  <2>2. x - i = d[x].part - 1 /\ d[x].part \in Nat \ {0}
    BY <1>2, <1>3, <1>4, <2>1, FrameTypes
  <2>3. x - d[x].part + 1 = i /\ 1 \in 1..d[x].part
    <3>1. x \in Int /\ i \in Int
      BY <1>2, <2>1
    <3>2. QED BY <2>2, <3>1
  <2>4. d[x - d[x].part + 1].payload = d[x].payload
    BY <2>1, <2>3 DEF Chained, Grouped
  <2>5. QED BY <1>2, <2>1, <2>2, <2>3, <2>4, FrameTypes
<1>8. k = l
  <2>1. k - i = l - i
    BY <1>7
  <2>2. QED BY <1>2, <2>1
<1>9. QED BY <1>1, <1>5, <1>8

\* What a segment holds, once the buffer is flushed, lies between its name and the next
\* segment's.
LEMMA LoggedShape ==
  ASSUME IInv, open, NEW s \in DOMAIN disk
  PROVE  /\ s \in Nat \ {0} /\ s - 1 \in Nat /\ cur \in DOMAIN disk /\ cur \in Nat \ {0} /\ s <= cur
         /\ Logged(s) \in Seq(Frame) /\ Chained(Logged(s), s - 1) /\ AllOk(Logged(s))
         /\ Complete(Logged(s), Len(Logged(s))) /\ Carries(Logged(s), hist)
         /\ \A i \in 1..Len(Logged(s)) :
              /\ Logged(s)[i].seq \in Nat /\ s <= Logged(s)[i].seq /\ Logged(s)[i].seq < nextSeq
              /\ \A t \in DOMAIN disk : s < t => Logged(s)[i].seq < t
<1>1. /\ TypeOK /\ Current /\ s \in Nat \ {0} /\ s - 1 \in Nat /\ disk[s].data \in Seq(Frame)
  BY FileType DEF IInv
<1>2. /\ cur \in DOMAIN disk /\ cur \in Nat \ {0} /\ s <= cur /\ Body \in Seq(Frame)
      /\ \A t \in DOMAIN disk : t \in Nat /\ t <= cur
  BY <1>1, CurrentFile DEF IInv, Directory, Newest, TypeOK
<1>3. nextSeq \in Nat \ {0} /\ nextSeq = Len(hist) + 1
  BY <1>1 DEF TypeOK, Current
<1>4. /\ Logged(s) \in Seq(Frame) /\ Chained(Logged(s), s - 1) /\ AllOk(Logged(s))
      /\ Complete(Logged(s), Len(Logged(s))) /\ Carries(Logged(s), hist)
  <2>1. CASE s = cur
    BY <1>1, <1>2, <2>1 DEF Logged, Current
  <2>2. CASE s # cur
    <3>1. s < cur
      BY <1>1, <1>2, <2>2
    <3>2. Stored(disk[s])
      BY <1>2, <3>1 DEF IInv, FilesLinked
    <3>3. QED BY <1>1, <2>2, <3>2 DEF Logged, IInv, FilesChained, Stored
  <2>3. QED BY <2>1, <2>2
<1>5. ASSUME NEW i \in 1..Len(Logged(s))
      PROVE  /\ Logged(s)[i].seq \in Nat /\ s <= Logged(s)[i].seq /\ Logged(s)[i].seq < nextSeq
             /\ \A t \in DOMAIN disk : s < t => Logged(s)[i].seq < t
  <2>1. /\ Logged(s)[i].seq \in Nat /\ s - 1 < Logged(s)[i].seq
        /\ Logged(s)[i].seq <= LastSeqOf(Logged(s), s - 1) /\ Logged(s)[i].seq <= Len(hist)
    BY <1>1, <1>4, LastFrame, FrameTypes DEF Carries
  <2>2. Len(hist) \in Nat
    BY <1>1 DEF TypeOK
  <2>3. ASSUME NEW t \in DOMAIN disk, s < t
        PROVE  Logged(s)[i].seq < t
    <3>1. s # cur
      BY <1>1, <1>2, <2>3
    <3>2. LastSeqOf(disk[s].data, s - 1) < t /\ Logged(s) = disk[s].data
      BY <2>3, <3>1 DEF IInv, FilesLinked, Logged
    <3>3. LastSeqOf(disk[s].data, s - 1) \in Nat
      BY <1>1, LastSeqType DEF IInv, FilesChained
    <3>4. QED BY <1>2, <2>1, <3>2, <3>3
  <2>4. QED BY <1>1, <1>3, <2>1, <2>2, <2>3
<1>6. QED BY <1>1, <1>2, <1>4, <1>5

LoggedType == IInv /\ open => \A s \in DOMAIN disk : Logged(s) \in Seq(Frame)

LEMMA LoggedTyped == LoggedType
BY LoggedShape DEF LoggedType

\* Wherever the record q lies is loc.
Only(q, loc) ==
  /\ \A s \in DOMAIN disk : \A off \in Nat, n \in Nat \ {0} :
       LiesAt(Logged(s), q, [seg |-> s, off |-> off, n |-> n])
         => loc = [seg |-> s, off |-> off, n |-> n]
  /\ q \in DOMAIN index => index[q] = loc

\* The index tells the only place of a record whose segment is still there.
LEMMA OnePlace ==
  ASSUME IInv, open, NEW q \in DOMAIN index, index[q].seg \in DOMAIN disk
  PROVE  Only(q, index[q])
<1> DEFINE loc == index[q]
           t == loc.seg
<1>1. loc \in Location /\ LiesAt(Logged(t), q, loc)
  BY DEF IInv, TypeOK, Indexed
<1>2. SUFFICES ASSUME NEW s \in DOMAIN disk, NEW off \in Nat, NEW n \in Nat \ {0},
                      LiesAt(Logged(s), q, [seg |-> s, off |-> off, n |-> n])
               PROVE  loc = [seg |-> s, off |-> off, n |-> n]
  BY DEF Only
<1> HIDE DEF loc
<1> DEFINE l == [seg |-> s, off |-> off, n |-> n]
<1>3. /\ s \in Nat \ {0} /\ s - 1 \in Nat /\ Logged(s) \in Seq(Frame) /\ Chained(Logged(s), s - 1)
      /\ \A i \in 1..Len(Logged(s)) :
           Logged(s)[i].seq \in Nat /\ s <= Logged(s)[i].seq
           /\ \A r \in DOMAIN disk : s < r => Logged(s)[i].seq < r
  BY LoggedShape
<1>4. /\ t \in Nat \ {0} /\ t - 1 \in Nat /\ Logged(t) \in Seq(Frame) /\ Chained(Logged(t), t - 1)
      /\ \A i \in 1..Len(Logged(t)) :
           Logged(t)[i].seq \in Nat /\ t <= Logged(t)[i].seq
           /\ \A r \in DOMAIN disk : t < r => Logged(t)[i].seq < r
  BY LoggedShape DEF loc
<1>5. l \in Location /\ l.off = off /\ l.n = n /\ l.seg = s
  BY <1>3 DEF Location
<1>6. off + 1 \in 1..Len(Logged(s)) /\ Logged(s)[off + 1].seq = q
  BY <1>2, <1>3 DEF LiesAt
<1>7. loc.off + 1 \in 1..Len(Logged(t)) /\ Logged(t)[loc.off + 1].seq = q
  BY <1>1, <1>4 DEF LiesAt, Location
<1>8. s = t
  <2>1. q \in Nat /\ s <= q /\ t <= q /\ (s < t => q < t) /\ (t < s => q < s)
    BY <1>3, <1>4, <1>6, <1>7 DEF loc
  <2>2. QED BY <1>3, <1>4, <2>1
<1>9. loc.off = off /\ loc.n = n
  <2>1. LiesAt(Logged(s), q, l)
    BY <1>2
  <2> HIDE DEF l
  <2>2. QED BY <1>1, <1>3, <1>5, <1>8, <2>1, OneSpot
<1>10. loc = [seg |-> loc.seg, off |-> loc.off, n |-> loc.n]
  BY <1>1 DEF Location
<1>11. QED BY <1>8, <1>9, <1>10

\* The index of an open log changes only with a record that joins it, with a cleaning,
\* which takes entries, and with a recovery.
LEMMA IndexSteps ==
  ASSUME TypeOK, Next, open, open'
  PROVE  \/ \A q \in DOMAIN index' : q # nextSeq => q \in DOMAIN index /\ index'[q] = index[q]
         \/ \E top \in segs \cap DOMAIN disk : \E k \in 0..Len(disk[top].data) : RecoverScan(top, k)
<1>1. CASE UNCHANGED index
  BY <1>1
<1>2. CASE \E p, force : Buffer(p, force)
  BY <1>2 DEF Buffer
<1>3. CASE CleanReturns
  BY <1>3 DEF CleanReturns
<1>4. CASE Appends
  BY <1>1, <1>2, <1>4 DEF Appends, AppendInPlace, AppendRotating, CreateSegment, CreateFails,
                          AppendToNewSegment, memory
<1>5. CASE Flushes
  BY <1>1, <1>5 DEF Flushes, Sync, PeriodicFlush, WriteAll, WriteRest, SyncFile, WritePart,
                    WriteFails, Rollback, RollbackFails, SyncFails, memory
<1>6. CASE Recoveries
  BY <1>1, <1>6 DEF Recoveries, Recover, RecoverFails, TrimFails, OpenDirectory, OpenInterrupted,
                    OpenEmptyDirectory, memory
<1>7. CASE Cleanings
  BY <1>1, <1>3, <1>7 DEF Cleanings, CleanOldSegments, CleanSegment, CleanFails,
                          Corrupt, CorruptFlips, memory
<1>8. CASE Endings
  BY <1>1, <1>8 DEF Endings, Close, CloseReturns, ProcessCrash, PowerLoss, Down, memory
<1>9. QED BY <1>4, <1>5, <1>6, <1>7, <1>8 DEF Next

\* The only place of a record stays its only place, although its segment may be removed and
\* the index be built again.
LEMMA OnlyStays ==
  ASSUME SoundEnvironment, PInv, Marked, PInv', Next, open, open',
         NEW q, q < nextSeq, NEW loc, Only(q, loc)
  PROVE  Only(q, loc)'
<1>1. IInv /\ TypeOK /\ MInv
  BY DEF PInv, IInv, MInv
<1>2. IInv' /\ TypeOK' /\ Indexed' /\ Trailing' /\ Placed'
  BY DEF PInv, IInv
<1>3. ASSUME NEW s \in DOMAIN disk', NEW off \in Nat, NEW n \in Nat \ {0},
             LiesAt(Logged(s)', q, [seg |-> s, off |-> off, n |-> n])
      PROVE  loc = [seg |-> s, off |-> off, n |-> n]
  <2> DEFINE d == Logged(s)'
             e == Logged(s)
  <2>1. d \in Seq(Frame)
    <3>1. LoggedType'
      BY LoggedTyped, PTL
    <3>2. QED BY <1>2, <1>3, <3>1 DEF LoggedType
  <2>2. /\ off + 1 \in 1..Len(d) /\ off + n \in 1..Len(d)
        /\ d[off + 1].seq = q /\ FlagFirst(d[off + 1])
        /\ d[off + n].seq = q /\ FlagLast(d[off + n])
    <3> HIDE DEF d
    <3>1. QED BY <1>3, <2>1 DEF LiesAt, d
  <2>3. /\ s \in DOMAIN disk /\ off + 1 \in 1..Len(e) /\ off + n \in 1..Len(e)
        /\ e[off + 1] = d[off + 1] /\ e[off + n] = d[off + n]
    BY <1>1, <2>2, FramesStay
  <2>4. LiesAt(e, q, [seg |-> s, off |-> off, n |-> n])
    <3> HIDE DEF d, e
    <3>1. off + n <= Len(e)
      BY <2>3
    <3>2. QED BY <2>2, <2>3, <3>1 DEF LiesAt
  <2>5. QED BY <2>3, <2>4 DEF Only
<1>4. ASSUME q \in DOMAIN index'
      PROVE  index'[q] = loc
  <2>1. CASE \A r \in DOMAIN index' : r # nextSeq => r \in DOMAIN index /\ index'[r] = index[r]
    <3>1. q # nextSeq
      BY <1>1 DEF TypeOK
    <3>2. QED BY <1>4, <2>1, <3>1 DEF Only
  <2>2. CASE \E top \in segs \cap DOMAIN disk :
               \E k \in 0..Len(disk[top].data) : RecoverScan(top, k)
    <3>1. PICK top \in segs \cap DOMAIN disk :
            \E k \in 0..Len(disk[top].data) : RecoverScan(top, k)
      BY <2>2
    <3>2. PICK k \in 0..Len(disk[top].data) : RecoverScan(top, k)
      BY <3>1
    <3>3. segs = DOMAIN disk /\ disk' = disk /\ segs' = segs
      BY <1>1, <3>2, RecoverFinds, RecoverRepeats DEF RecoverScan
    <3>4. PICK at : at = index'[q]
      OBVIOUS
    <3>5. at.seg \in DOMAIN disk' /\ at \in Location
      BY <1>2, <1>4, <3>3, <3>4 DEF Placed, TypeOK
    <3>6. LiesAt(Logged(at.seg)', q, at)
      BY <1>2, <1>4, <3>4, <3>5 DEF Indexed
    <3>7. at = [seg |-> at.seg, off |-> at.off, n |-> at.n]
          /\ at.off \in Nat /\ at.n \in Nat \ {0}
      BY <3>5 DEF Location
    <3>8. LiesAt(Logged(at.seg)', q, [seg |-> at.seg, off |-> at.off, n |-> at.n])
      BY <3>6, <3>7
    <3>9. QED BY <1>3, <3>4, <3>5, <3>7, <3>8
  <2>3. QED BY <1>1, <2>1, <2>2, IndexSteps
<1>5. QED BY <1>3, <1>4 DEF Only

-------------------------------------------------------------------------------
(* What was forgotten.                                                      *)

\* A watermark was reported.
Behind == open => durable <= promised

\* What a cleaning has in line, it chose.
Lined == "clean" \in {pc, resume} => call.todo \subseteq Old(call.mark)

\* A closed handle belongs to a segment in front of one that begins at a mark at most.
ShutForgotten == \A s \in shut : \E u \in segs : s < u /\ u <= forgotten

\* The directory reaches back to the first record, or to one that may be forgotten.
Reaching == DOMAIN disk = {} \/ \E s \in DOMAIN disk : s = 1 \/ s <= forgotten

\* The index holds all that nobody asked to forget.
Remembered == open => \A q \in 1..nextSeq - 1 : forgotten <= q => q \in DOMAIN index

FInv == /\ PInv /\ Marked /\ Behind /\ forgotten \in Nat
        /\ Lined /\ ShutForgotten /\ Reaching /\ Remembered

\* The marks a step may forget.
Forgets == /\ forgotten \in Nat /\ forgotten' \in Nat /\ forgotten <= forgotten'
           /\ pc = "clean" => call.mark <= forgotten'

LEMMA StepsBehind ==
  ASSUME IInv, IInv', Behind, Next
  PROVE  Behind'
<1>1. durable' \in Nat /\ promised \in Nat /\ unsynced \in Nat
  BY DEF IInv, TypeOK
<1>2. CASE UNCHANGED <<durable, promised>> /\ (open' => open)
  BY <1>2 DEF Behind
<1>3. CASE \E S, top, k : RecoverLocked(S, top, k)
  <2>1. PICK S, top, k : RecoverLocked(S, top, k)
    BY <1>3
  <2>2. PICK last : durable' = last /\ promised' = IF last > promised THEN last ELSE promised
    BY <2>1 DEF RecoverLocked
  <2>3. QED BY <1>1, <2>2 DEF Behind
<1>4. CASE Appends
  BY <1>2, <1>4 DEF Appends, AppendInPlace, AppendRotating, CreateSegment, CreateFails,
                    AppendToNewSegment, Buffer, memory, history
<1>5. CASE Flushes
  <2>1. CASE SyncFile
    BY <1>1, <2>1 DEF SyncFile, Behind
  <2>2. CASE ~SyncFile
    BY <1>2, <1>5, <2>2 DEF Flushes, Sync, PeriodicFlush, WriteAll, WriteRest, WritePart,
                            WriteFails, Rollback, RollbackFails, SyncFails, memory, history
  <2>3. QED BY <2>1, <2>2
<1>6. CASE Recoveries
  <2>1. CASE OpenEmptyDirectory
    BY <1>1, <2>1 DEF OpenEmptyDirectory, Behind
  <2>2. CASE ~OpenEmptyDirectory
    BY <1>2, <1>3, <1>6, <2>2, RecoveriesSplit DEF Recover, RecoverFails, RecoverScan, OpenDirectory,
                                  OpenInterrupted, memory, history
  <2>3. QED BY <2>1, <2>2
<1>7. CASE Cleanings
  BY <1>2, <1>7 DEF Cleanings, CleanOldSegments, CleanSegment, CleanFails, CleanReturns,
                    Corrupt, CorruptFlips, memory, history
<1>8. CASE Endings
  BY <1>2, <1>8 DEF Endings, Close, CloseReturns, ProcessCrash, PowerLoss, Down, Behind,
                    memory, history
<1>9. QED BY <1>4, <1>5, <1>6, <1>7, <1>8 DEF Next

LEMMA LineUnchanged ==
  ASSUME Lined, UNCHANGED <<segs, cur, nextSeq>>,
         "clean" \in {pc', resume'} =>
           "clean" \in {pc, resume} /\ call'.mark = call.mark /\ call'.todo \subseteq call.todo
  PROVE  Lined'
<1>1. SUFFICES ASSUME "clean" \in {pc', resume'}
               PROVE  (call.todo \subseteq Old(call.mark))'
  BY DEF Lined
<1>2. Old(call.mark)' = Old(call.mark)
  BY <1>1 DEF Old, EndSeq
<1>3. QED BY <1>1, <1>2 DEF Lined

LEMMA StepsLined ==
  ASSUME SoundEnvironment, IInv, Lined, Next
  PROVE  Lined'
<1>1. TypeOK /\ pc \in Steps /\ Control
  BY DEF IInv, TypeOK
<1>2. CASE "clean" \notin {pc', resume'}
  BY <1>2 DEF Lined
<1>3. CASE Appends
  BY <1>1, <1>2, <1>3 DEF Appends, AppendInPlace, AppendRotating, Idle, StartFlush, CreateSegment,
                          CreateFails, Return, AppendToNewSegment, Buffer, TypeOK
<1>4. CASE Flushes
  <2>1. CASE Sync \/ PeriodicFlush
    BY <1>2, <2>1 DEF Sync, PeriodicFlush, Idle, StartFlush
  <2>2. CASE WriteFails \/ Rollback \/ RollbackFails \/ SyncFails
    BY <1>2, <2>2 DEF WriteFails, Rollback, RollbackFails, SyncFails, FlushFails
  <2>3. CASE WriteAll \/ WriteRest \/ SyncFile
    BY <2>3, LineUnchanged DEF WriteAll, WriteRest, SyncFile
  <2>4. CASE \E k \in 0..Len(pending), torn \in BOOLEAN : WritePart(k, torn)
    <3>1. /\ pc = "write" /\ pc' = "partial" /\ UNCHANGED <<segs, cur, nextSeq, resume, call>>
      BY <2>4 DEF WritePart
    <3>2. QED BY <3>1, LineUnchanged
  <2>5. QED BY <1>4, <2>1, <2>2, <2>3, <2>4 DEF Flushes
<1>5. CASE Recoveries
  <2>1. CASE Recover \/ RecoverFails
    BY <1>2, <2>1 DEF Recover, RecoverFails, Idle, StartFlush, Return
  <2>2. CASE \E top \in segs \cap DOMAIN disk :
               \E k \in 0..Len(disk[top].data) : RecoverScan(top, k)
    BY <1>2, <2>2 DEF RecoverScan, Return
  <2>3. CASE \/ OpenEmptyDirectory
             \/ \E top \in DOMAIN disk :
                  \E k \in 0..Len(disk[top].data) : OpenDirectory(top, k) \/ OpenInterrupted(top, k)
    <3>1. ~open /\ UNCHANGED <<pc, resume>>
      BY <2>3 DEF OpenEmptyDirectory, OpenDirectory, OpenInterrupted, control
    <3>2. QED BY <1>2, <3>1, DownState
  <2>4. QED BY <1>5, <2>1, <2>2, <2>3, RecoveriesSplit
<1>6. CASE Cleanings
  <2>1. CASE \E mark \in 1..MaxSeq + 1 : CleanOldSegments(mark)
    <3>1. PICK mark \in 1..MaxSeq + 1 : CleanOldSegments(mark)
      BY <2>1
    <3>2. /\ call' = [NoCall EXCEPT !.mark = mark, !.todo = Old(mark)]
          /\ UNCHANGED <<segs, cur, nextSeq>>
      BY <3>1 DEF CleanOldSegments, memory
    <3>3. call'.mark = mark /\ call'.todo = Old(mark)
      BY <3>2 DEF NoCall
    <3>4. Old(call.mark)' = Old(mark)
      BY <3>2, <3>3 DEF Old, EndSeq
    <3>5. QED BY <3>3, <3>4 DEF Lined
  <2>2. CASE \E s \in segs : CleanSegment(s)
    <3>1. PICK s \in segs : CleanSegment(s)
      BY <2>2
    <3>2. /\ pc = "clean" /\ call' = [call EXCEPT !.todo = @ \ {s}] /\ UNCHANGED <<segs, cur, nextSeq>>
      BY <3>1 DEF CleanSegment
    <3>3. call'.mark = call.mark /\ call'.todo \subseteq call.todo
      BY <1>1, <3>2 DEF TypeOK, Call
    <3>4. QED BY <3>2, <3>3, LineUnchanged
  <2>3. CASE CleanReturns \/ \E s \in segs : CleanFails(s)
    BY <1>2, <2>3 DEF CleanReturns, CleanFails, Return
  <2>4. CASE (\E seq \in 1..MaxSeq : Corrupt(seq)) \/ CorruptFlips
    BY <1>1, <2>4 DEF Corrupt, CorruptFlips, SoundEnvironment, Control
  <2>5. QED BY <1>6, <2>1, <2>2, <2>3, <2>4 DEF Cleanings
<1>7. CASE Endings
  BY <1>2, <1>7 DEF Endings, Close, Idle, StartFlush, CloseReturns, ProcessCrash, PowerLoss, Down,
                    Return
<1>8. QED BY <1>3, <1>4, <1>5, <1>6, <1>7 DEF Next

\* A segment that a cleaning chose has a successor that begins at the mark or in front of it.
LEMMA OldHasNext ==
  ASSUME IInv, open, NEW mark \in Nat, NEW s \in Old(mark)
  PROVE  \E t \in segs : s < t /\ t <= mark /\ t \in Nat /\ s \in Nat
<1>1. s \in segs \ {cur} /\ EndSeq(s) < mark
  BY DEF Old
<1>2. PICK t \in segs : Adjacent(segs, s, t) /\ EndSeq(s) = t - 1
  BY <1>1, EndSeqNext
<1>3. s \in Nat /\ t \in Nat
  BY <1>1 DEF IInv, TypeOK
<1>4. QED BY <1>1, <1>2, <1>3 DEF Adjacent

LEMMA StepsShutForgotten ==
  ASSUME SoundEnvironment, IInv, Lined, ShutForgotten, Forgets, Next
  PROVE  ShutForgotten'
<1>1. TypeOK /\ segs \subseteq Nat /\ Control
  BY DEF IInv, TypeOK
<1>2. CASE shut' \subseteq shut /\ segs \subseteq segs'
  <2>1. SUFFICES ASSUME NEW s \in shut' PROVE \E u \in segs' : s < u /\ u <= forgotten'
    BY DEF ShutForgotten
  <2>2. PICK u \in segs : s < u /\ u <= forgotten
    BY <1>2, <2>1 DEF ShutForgotten
  <2>3. QED BY <1>1, <1>2, <2>2 DEF Forgets
<1>3. CASE shut' = {}
  BY <1>3 DEF ShutForgotten
<1>4. CASE Appends
  BY <1>2, <1>4 DEF Appends, AppendInPlace, AppendRotating, CreateSegment, CreateFails,
                    AppendToNewSegment, Buffer, memory
<1>5. CASE Flushes
  BY <1>2, <1>5, FlushesBody
<1>6. CASE Recoveries
  <2>1. CASE ~open /\ shut' = shut
    BY <1>3, <2>1, DownState
  <2>2. CASE open
    BY <1>2, <1>6, <2>2, RecoveriesSplit DEF Recover, RecoverFails, RecoverScan, OpenDirectory,
                            OpenInterrupted, OpenEmptyDirectory, memory
  <2>3. QED BY <1>6, <2>1, <2>2, RecoveriesSplit DEF Recover, RecoverFails, RecoverScan, OpenDirectory,
                                    OpenInterrupted, OpenEmptyDirectory, memory
<1>7. CASE Cleanings
  <2>1. CASE \E mark \in 1..MaxSeq + 1 : CleanOldSegments(mark)
    BY <1>2, <2>1 DEF CleanOldSegments, memory
  <2>2. CASE \E s \in segs : CleanSegment(s) \/ CleanFails(s)
    <3>1. PICK s \in segs : CleanSegment(s) \/ CleanFails(s)
      BY <2>2
    <3>2. pc = "clean" /\ s \in call.todo /\ shut' = shut \cup {s} /\ segs' = segs
      BY <3>1 DEF CleanSegment, CleanFails, Oldest
    <3>3. open /\ s \in Old(call.mark) /\ call.mark \in Nat /\ call.mark <= forgotten'
      BY <1>1, <3>2 DEF TypeOK, Lined, Call, Forgets
    <3>4. PICK t \in segs : s < t /\ t <= call.mark /\ t \in Nat
      BY <3>3, OldHasNext
    <3>5. s < t /\ t <= forgotten'
      BY <3>3, <3>4 DEF Forgets
    <3>6. ASSUME NEW r \in shut PROVE \E u \in segs : r < u /\ u <= forgotten'
      <4>1. PICK u \in segs : r < u /\ u <= forgotten
        BY DEF ShutForgotten
      <4>2. QED BY <1>1, <4>1 DEF Forgets
    <3>7. QED BY <3>2, <3>5, <3>6 DEF ShutForgotten
  <2>3. CASE CleanReturns
    <3>1. /\ pc = "clean" /\ segs' = segs \ Old(call.mark) /\ shut' = shut \ Old(call.mark)
      BY <2>3 DEF CleanReturns
    <3>2. open /\ call.mark \in Nat /\ shut \subseteq segs
      BY <1>1, <3>1 DEF TypeOK, Call
    <3>3. SUFFICES ASSUME NEW s \in shut \ Old(call.mark)
                   PROVE  \E u \in segs' : s < u /\ u <= forgotten'
      BY <3>1 DEF ShutForgotten
    <3>4. PICK u \in segs : s < u /\ u <= forgotten
      BY <3>3 DEF ShutForgotten
    <3>5. u \notin Old(call.mark)
      BY <3>2, <3>3, <3>4, OldestAreOld
    <3>6. QED BY <1>1, <3>1, <3>4, <3>5 DEF Forgets
  <2>4. CASE (\E seq \in 1..MaxSeq : Corrupt(seq)) \/ CorruptFlips
    BY <1>1, <2>4 DEF Corrupt, CorruptFlips, SoundEnvironment, Control
  <2>5. QED BY <1>7, <2>1, <2>2, <2>3, <2>4 DEF Cleanings
<1>8. CASE Endings
  BY <1>2, <1>3, <1>8 DEF Endings, Close, CloseReturns, ProcessCrash, PowerLoss, Down, memory
<1>9. QED BY <1>4, <1>5, <1>6, <1>7, <1>8 DEF Next

LEMMA StepsReaching ==
  ASSUME SoundEnvironment, PInv, Lined, Reaching, Forgets, Next
  PROVE  Reaching'
<1>1. IInv /\ TypeOK /\ Control /\ DOMAIN disk \subseteq Nat \ {0}
  BY DEF PInv, IInv, TypeOK
<1>2. CASE \/ DOMAIN disk' = {1} \/ DOMAIN disk' = DOMAIN disk
           \/ DOMAIN disk # {} /\ DOMAIN disk \subseteq DOMAIN disk'
  BY <1>1, <1>2 DEF Reaching, Forgets
<1>3. CASE Appends
  <2>1. CASE CreateSegment
    <3>1. cur \in DOMAIN disk /\ DOMAIN disk' = DOMAIN disk \cup {nextSeq}
      BY <1>1, <2>1 DEF CreateSegment, TypeOK
    <3>2. QED BY <1>2, <3>1
  <2>2. CASE ~CreateSegment
    BY <1>2, <1>3, <2>2 DEF Appends, AppendInPlace, AppendRotating, CreateFails,
                            AppendToNewSegment, Buffer
  <2>3. QED BY <2>1, <2>2
<1>4. CASE Flushes
  BY <1>1, <1>2, <1>4, FlushesBody
<1>5. CASE Recoveries
  <2>1. ASSUME NEW top, NEW k, disk' = Trimmed(top, k) PROVE DOMAIN disk' = DOMAIN disk
    BY <2>1 DEF Trimmed
  <2>2. QED BY <1>1, <1>2, <1>5, <2>1, RecoveriesSplit DEF Recover, RecoverFails, RecoverScan, RecoverLocked,
                                    OpenDirectory, OpenInterrupted, OpenEmptyDirectory
<1>6. CASE Cleanings
  <2>1. CASE \E s \in segs : CleanSegment(s) \/ CleanFails(s)
    <3>1. PICK s \in segs : CleanSegment(s) \/ CleanFails(s)
      BY <2>1
    <3>2. /\ pc = "clean" /\ s \in call.todo
          /\ DOMAIN disk' = DOMAIN disk \/ DOMAIN disk' = DOMAIN disk \ {s}
      BY <3>1 DEF CleanSegment, CleanFails, Oldest
    <3>3. CASE s \in DOMAIN disk
      <4>1. open /\ s \in Old(call.mark) /\ call.mark \in Nat /\ call.mark <= forgotten'
        BY <1>1, <3>2 DEF TypeOK, Lined, Call, Forgets
      <4>2. PICK t \in segs : s < t /\ t <= call.mark /\ t \in Nat /\ s \in Nat
        BY <1>1, <4>1, OldHasNext
      <4>3. t \in DOMAIN disk' /\ t <= forgotten'
        BY <3>2, <3>3, <4>1, <4>2 DEF PInv, Trailing, Forgets
      <4>4. QED BY <4>3 DEF Reaching
    <3>4. CASE s \notin DOMAIN disk
      BY <1>2, <3>2, <3>4
    <3>5. QED BY <3>3, <3>4
  <2>2. CASE (\E seq \in 1..MaxSeq : Corrupt(seq)) \/ CorruptFlips
    BY <1>1, <2>2 DEF Corrupt, CorruptFlips, SoundEnvironment, Control
  <2>3. QED BY <1>2, <1>6, <2>1, <2>2 DEF Cleanings, CleanOldSegments, CleanReturns
<1>7. CASE Endings
  <2>1. CASE Close
    BY <1>2, <2>1 DEF Close
  <2>2. CASE CloseReturns \/ ProcessCrash \/ PowerLoss
    <3>1. DOMAIN disk' \subseteq DOMAIN disk /\ \A s \in DOMAIN disk \ DOMAIN disk' : ~disk[s].named
      BY <1>1, <2>2, LeftOver
    <3>2. SUFFICES ASSUME NEW r \in DOMAIN disk' PROVE Reaching'
      BY DEF Reaching
    <3>3. PICK s \in DOMAIN disk : s = 1 \/ s <= forgotten
      BY <3>1, <3>2 DEF Reaching
    <3>4. CASE s \in DOMAIN disk'
      BY <1>1, <3>3, <3>4 DEF Reaching, Forgets
    <3>5. CASE s \notin DOMAIN disk'
      <4>1. r \in DOMAIN disk /\ r # s /\ ~disk[s].named
        BY <3>1, <3>2, <3>5
      <4>2. ~(s < r)
        BY <1>1, <4>1 DEF IInv, FilesLinked, Stored
      <4>3. r < s /\ s # 1 /\ r \in Nat /\ s \in Nat
        BY <1>1, <4>1, <4>2
      <4>4. r <= forgotten'
        BY <3>3, <4>3 DEF Forgets
      <4>5. QED BY <3>2, <4>4 DEF Reaching
    <3>6. QED BY <3>4, <3>5
  <2>3. QED BY <1>7, <2>1, <2>2 DEF Endings
<1>8. QED BY <1>3, <1>4, <1>5, <1>6, <1>7 DEF Next

LEMMA StepsRemembered ==
  ASSUME SoundEnvironment, PInv, Reaching, Remembered, Forgets, Next
  PROVE  Remembered'
<1>1. IInv /\ TypeOK /\ nextSeq \in Nat /\ DOMAIN disk \subseteq Nat \ {0}
  BY DEF PInv, IInv, TypeOK
<1>2. CASE UNCHANGED <<index, nextSeq>> /\ (open' => open)
  BY <1>1, <1>2 DEF Remembered, Forgets
<1>3. CASE \E p, force : Buffer(p, force) /\ open
  <2>1. PICK p, force : Buffer(p, force) /\ open
    BY <1>3
  <2>2. nextSeq' = nextSeq + 1 /\ DOMAIN index' = DOMAIN index \cup {nextSeq}
    BY <2>1 DEF Buffer
  <2>3. \A q \in 1..nextSeq : q = nextSeq \/ q \in 1..nextSeq - 1
    BY <1>1
  <2>4. QED BY <1>1, <2>1, <2>2, <2>3 DEF Remembered, Forgets
<1>4. ASSUME NEW top \in DOMAIN disk, NEW k \in 0..Len(disk[top].data),
             RecoverLocked(DOMAIN disk, top, k), disk[top].stable = Len(disk[top].data),
             disk[top].data # <<>> => disk[top].named
      PROVE  Remembered'
  <2>1. \A s \in DOMAIN disk : \A q \in s..nextSeq' - 1 : q \in DOMAIN index'
    BY <1>1, <1>4, RecoverLockedCovers
  <2>2. PICK s \in DOMAIN disk : s = 1 \/ s <= forgotten
    BY <1>4 DEF Reaching
  <2>3. SUFFICES ASSUME NEW q \in 1..nextSeq' - 1, forgotten' <= q PROVE q \in DOMAIN index'
    BY DEF Remembered
  <2>4. q \in s..nextSeq' - 1
    BY <1>1, <2>2, <2>3 DEF Forgets
  <2>5. QED BY <2>1, <2>4
<1>5. CASE Appends
  <2>1. AppendToNewSegment => open
    BY <1>1 DEF AppendToNewSegment, TypeOK
  <2>2. QED BY <1>2, <1>3, <1>5, <2>1 DEF Appends, AppendInPlace, AppendRotating, Idle, CreateSegment,
                                         CreateFails, AppendToNewSegment, memory
<1>6. CASE Flushes
  BY <1>1, <1>2, <1>6, FlushesBody
<1>7. CASE Recoveries
  <2>1. CASE Recover \/ RecoverFails
    BY <1>2, <2>1 DEF Recover, RecoverFails, memory
  <2>2. CASE \E top \in segs \cap DOMAIN disk :
               \E k \in 0..Len(disk[top].data) : RecoverScan(top, k)
    <3>1. PICK top \in segs \cap DOMAIN disk :
            \E k \in 0..Len(disk[top].data) : RecoverScan(top, k)
      BY <2>2
    <3>2. PICK k \in 0..Len(disk[top].data) : RecoverScan(top, k)
      BY <3>1
    <3>3. QED BY <1>1, <1>4, <3>2, RecoverFinds
  <2>3. CASE \E top \in DOMAIN disk :
               \E k \in 0..Len(disk[top].data) : OpenDirectory(top, k)
    <3>1. PICK top \in DOMAIN disk :
            \E k \in 0..Len(disk[top].data) : OpenDirectory(top, k)
      BY <2>3
    <3>2. PICK k \in 0..Len(disk[top].data) : OpenDirectory(top, k)
      BY <3>1
    <3>3. disk[top].stable = Len(disk[top].data) /\ disk[top].named
      BY <1>1, <3>2 DEF OpenDirectory, IInv, FilesSettled
    <3>4. QED BY <1>4, <3>2, <3>3 DEF OpenDirectory
  <2>4. CASE OpenEmptyDirectory
    BY <2>4 DEF OpenEmptyDirectory, Remembered
  <2>5. CASE \E top \in DOMAIN disk :
               \E k \in 0..Len(disk[top].data) : OpenInterrupted(top, k)
    BY <1>2, <2>5 DEF OpenInterrupted, memory
  <2>6. QED BY <1>1, <1>7, <2>1, <2>2, <2>3, <2>4, <2>5, RecoveriesSplit
<1>8. CASE Cleanings
  <2>1. CASE CleanReturns
    <3>1. /\ pc = "clean" /\ nextSeq' = nextSeq /\ open' = open
          /\ DOMAIN index' = {q \in DOMAIN index : q >= call.mark}
      BY <2>1 DEF CleanReturns
    <3>2. call.mark \in Nat /\ call.mark <= forgotten'
      BY <1>1, <3>1 DEF TypeOK, Call, Forgets
    <3>3. QED BY <1>1, <3>1, <3>2 DEF Remembered, Forgets
  <2>2. CASE ~CleanReturns
    BY <1>2, <1>8, <2>2 DEF Cleanings, CleanOldSegments, CleanSegment, CleanFails,
                            Corrupt, CorruptFlips, memory
  <2>3. QED BY <2>1, <2>2
<1>9. CASE Endings
  BY <1>2, <1>9 DEF Endings, Close, CloseReturns, ProcessCrash, PowerLoss, Down, Remembered, memory
<1>10. QED BY <1>5, <1>6, <1>7, <1>8, <1>9 DEF Next

LEMMA ForgetKeeps ==
  ASSUME SoundEnvironment, FInv, PInv', Marked', [Next]_vars,
         forgotten' \in Nat, forgotten <= forgotten', UNCHANGED vars \/ Forgets
  PROVE  FInv'
<1>1. CASE UNCHANGED vars
  <2>1. UNCHANGED <<disk, memory, control, history>> /\ forgotten \in Nat
    BY <1>1 DEF vars, FInv
  <2>2. Old(call.mark)' = Old(call.mark)
    BY <2>1 DEF Old, EndSeq, memory, control
  <2>3. Lined'
    BY <2>1, <2>2 DEF FInv, Lined, memory, control
  <2>4. Behind'
    BY <2>1 DEF FInv, Behind, memory, history
  <2>5. segs \subseteq Nat /\ DOMAIN disk \subseteq Nat /\ nextSeq \in Nat
    BY DEF FInv, PInv, IInv, TypeOK
  <2>6. ShutForgotten'
    <3>1. segs' = segs /\ shut' = shut
      BY <2>1 DEF memory
    <3>2. QED BY <2>1, <2>5, <3>1 DEF FInv, ShutForgotten
  <2>7. Reaching'
    BY <2>1, <2>5 DEF FInv, Reaching
  <2>8. Remembered'
    <3>1. UNCHANGED <<open, nextSeq, index>>
      BY <2>1 DEF memory
    <3>2. QED BY <2>1, <2>5, <3>1 DEF FInv, Remembered
  <2>9. QED BY <2>3, <2>4, <2>6, <2>7, <2>8 DEF FInv
<1>2. CASE ~UNCHANGED vars
  <2>1. /\ Next /\ Forgets /\ IInv /\ IInv' /\ PInv
        /\ Behind /\ Lined /\ ShutForgotten /\ Reaching /\ Remembered
    BY <1>2 DEF FInv, PInv
  <2>2. QED BY <1>2, <2>1, StepsBehind, StepsLined, StepsShutForgotten, StepsReaching,
               StepsRemembered DEF FInv
<1>3. QED BY <1>1, <1>2

\* A step of the reader or around it is a step of the log or none, and forgets what its
\* cleaning was asked to.
LEMMA ReaderForgets ==
  ASSUME FInv, RNext
  PROVE  /\ [Next]_vars /\ forgotten' \in Nat /\ forgotten <= forgotten'
         /\ UNCHANGED vars \/ Forgets
         /\ ~Around => forgotten' = forgotten
<1>1. forgotten \in Nat /\ call.mark \in Nat /\ (pc = "clean" => open)
  BY DEF FInv, PInv, IInv, TypeOK, Call
<1>2. [Next]_vars
  BY ReaderSteps
<1>3. CASE Around
  BY <1>1, <1>2, <1>3 DEF Around, Forgets
<1>4. CASE ~Around
  <2>1. forgotten' = forgotten
    BY <1>4 DEF RNext, Reads, ReadRange, NextRecord, CheckLast, Read, ReadFlushes, ReadFlushFails,
                ReadNotFound, ReadReturns, ReadFails, Locate, Finish
  <2>2. UNCHANGED vars \/ pc # "clean"
    BY <1>4 DEF RNext, Reads, ReadRange, NextRecord, CheckLast, Read, Idle, ReadFlushes,
                ReadFlushFails, ReadNotFound, ReadReturns, ReadFails, Locate, Finish,
                WriteAll, WriteRest, SyncFile, WritePart, WriteFails, Rollback, RollbackFails,
                SyncFails
  <2>3. QED BY <1>1, <1>2, <1>4, <2>1, <2>2 DEF Forgets
<1>5. QED BY <1>3, <1>4

-------------------------------------------------------------------------------
(* The range.                                                               *)

\* Where the range stands.
Walking ==
  /\ rpc \in {"none", "range", "next", "read", "reading", "locate",
              "full", "eof", "cancelled", "error", "corrupt"}
  /\ ~open => rpc = "none" /\ entries = <<>> /\ goal = 0
  /\ next \in Nat \ {0} /\ args.from \in Nat \ {0} /\ goal \in Nat
  /\ open => goal < nextSeq
  /\ rpc \in {"read", "reading", "locate"} => next < nextSeq
  /\ rpc = "eof" => goal < next

\* What Read looks at is durable.
Flushed == Reading => next <= durable \/ (pending = <<>> /\ unsynced = 0)

Entry == [seq : Nat \ {0}, at : Location, loc : Location \cup {Nowhere}, data : Seq(Frame)]

\* An entry is a durable record of the log, and carries the place its data came from, or none.
Told(e) ==
  /\ e.seq <= durable
  /\ e.data = Fragments(e.seq, hist[e.seq])
  /\ e.loc # Nowhere => e.loc = e.at

\* The entries are records in their order, in front of the reader.
InOrder ==
  \A i \in 1..Len(entries) :
    /\ i > 1 => entries[i-1].seq < entries[i].seq
    /\ IF rpc = "locate" /\ i = Len(entries) THEN entries[i].seq = next
                                             ELSE entries[i].seq < next

\* Among them is every record that the reader has passed and nobody asked to forget.
Gathered ==
  rpc # "none" =>
    \A seq \in args.from..next - 1 :
      seq < forgotten \/ \E i \in 1..Len(entries) : entries[i].seq = seq

Returned ==
  /\ entries \in Seq(Entry) /\ \A i \in 1..Len(entries) : Told(entries[i])
  /\ InOrder /\ Gathered

\* The last entry waits for its location: that of its record, wherever that still is.
Locating ==
  rpc = "locate" => /\ entries # <<>> /\ entries[Len(entries)].loc = Nowhere
                    /\ Only(next, entries[Len(entries)].at)

ReaderInv == FInv /\ Walking /\ Flushed /\ Returned /\ Locating

\* The log goes on, if at all, as an open log does.
Rides ==
  /\ open /\ open' /\ durable \in Nat /\ durable' \in Nat /\ durable <= durable'
  /\ durable < nextSeq
  /\ nextSeq \in Nat \ {0} /\ nextSeq' \in Nat \ {0} /\ nextSeq <= nextSeq'
  /\ \A q \in 1..nextSeq - 1 : hist'[q] = hist[q]
  /\ \A q, loc : q < nextSeq /\ Only(q, loc) => Only(q, loc)'

LEMMA LogRides ==
  ASSUME SoundEnvironment, FInv, PInv', Marked', [Next]_vars, open, open'
  PROVE  Rides
<1>1. /\ PInv /\ Marked /\ MInv /\ durable \in Nat /\ nextSeq \in Nat \ {0} /\ durable < nextSeq
  BY DEF FInv, PInv, MInv, IInv, TypeOK, Unsynced
<1>2. durable' \in Nat
  BY DEF PInv, IInv, TypeOK
<1>3. durable <= durable'
  BY <1>1, <1>2, DurableGrows
<1>4. CASE Next
  <2>1. \A q, loc : q < nextSeq /\ Only(q, loc) => Only(q, loc)'
    BY <1>1, <1>4, OnlyStays
  <2>2. QED BY <1>1, <1>2, <1>3, <1>4, <2>1, LogGrows DEF Rides
<1>5. CASE UNCHANGED vars
  <2>1. UNCHANGED <<disk, open, cur, pending, before, pc, index, nextSeq, hist>>
    BY <1>5 DEF vars, memory, control, history
  <2>2. \A q, loc : Only(q, loc) => Only(q, loc)'
    BY <2>1 DEF Only, Logged, Body, Base
  <2>3. QED BY <1>1, <1>2, <1>3, <2>1, <2>2 DEF Rides
<1>6. QED BY <1>4, <1>5

LEMMA ToldStays ==
  ASSUME Rides, NEW e \in Entry, Told(e)
  PROVE  Told(e)'
<1>1. e.seq \in Nat \ {0} /\ e.seq <= durable /\ e.seq \in 1..nextSeq - 1
  BY DEF Entry, Told, Rides
<1>2. e.seq <= durable' /\ hist'[e.seq] = hist[e.seq]
  BY <1>1 DEF Rides
<1>3. QED BY <1>2 DEF Told

\* What the reader has stays true while the log goes on.
LEMMA RangeRides ==
  ASSUME Walking, Returned, Locating, Rides, UNCHANGED <<next, args, entries, goal>>,
         forgotten \in Nat, forgotten' \in Nat, forgotten <= forgotten',
         rpc' \in {"none", "range", "next", "read", "reading", "locate",
                   "full", "eof", "cancelled", "error", "corrupt"},
         rpc' = "none" <=> rpc = "none", rpc' = "locate" <=> rpc = "locate",
         rpc' \in {"read", "reading"} => next < nextSeq, rpc' = "eof" => goal < next
  PROVE  Walking' /\ Returned' /\ Locating'
<1>1. Walking'
  BY DEF Walking, Rides
<1>2. Returned'
  <2>1. ASSUME NEW i \in 1..Len(entries) PROVE Told(entries[i])'
    <3>1. PICK e : e = entries[i]
      OBVIOUS
    <3>2. e \in Entry /\ Told(e)
      BY <3>1 DEF Returned
    <3>3. Told(e)'
      BY <3>2, ToldStays
    <3>4. QED BY <3>1, <3>3 DEF Told
  <2>2. InOrder'
    BY DEF Returned, InOrder
  <2>3. Gathered'
    <3>1. SUFFICES ASSUME NEW seq \in args.from..next - 1, rpc # "none"
                   PROVE  seq < forgotten' \/ \E i \in 1..Len(entries) : entries[i].seq = seq
      BY DEF Gathered
    <3>2. seq < forgotten \/ \E i \in 1..Len(entries) : entries[i].seq = seq
      BY <3>1 DEF Returned, Gathered
    <3>3. seq \in Int
      BY DEF Walking
    <3>4. QED BY <3>2, <3>3
  <2>4. QED BY <2>1, <2>2, <2>3 DEF Returned
<1>3. Locating'
  <2>1. SUFFICES ASSUME rpc = "locate"
                 PROVE  /\ entries # <<>> /\ entries[Len(entries)].loc = Nowhere
                        /\ Only(next, entries[Len(entries)].at)'
    BY DEF Locating
  <2>2. PICK q, loc : q = next /\ loc = entries[Len(entries)].at
    OBVIOUS
  <2>3. Only(q, loc) /\ q < nextSeq
    BY <2>1, <2>2 DEF Locating, Walking, Rides
  <2>4. Only(q, loc)'
    BY <2>3 DEF Rides
  <2>5. Only(next, entries[Len(entries)].at)'
    BY <2>2, <2>4 DEF Only
  <2>6. QED BY <2>1, <2>5 DEF Locating
<1>4. QED BY <1>1, <1>2, <1>3

-------------------------------------------------------------------------------
(* Its steps.                                                               *)

\* A range begins.
LEMMA ReadRangeKeeps ==
  ASSUME ReaderInv, NEW r \in Ranges, ReadRange(r)
  PROVE  Walking' /\ Flushed' /\ Returned' /\ Locating'
<1>1. r.from \in Nat \ {0} /\ nextSeq \in Nat \ {0} /\ nextSeq' = nextSeq
  BY RangesAssumption DEF ReadRange, ReaderInv, FInv, PInv, IInv, TypeOK, vars, memory
<1>2. /\ open' /\ rpc' = "range" /\ next' = r.from /\ entries' = <<>> /\ args' = r
      /\ goal' = nextSeq - 1
  BY DEF ReadRange, vars, memory
<1>3. r.from..r.from - 1 = {}
  BY <1>1
<1>4. QED BY <1>1, <1>2, <1>3 DEF Walking, Flushed, Reading, Returned, InOrder, Gathered, Locating

\* The caller has its answer.
LEMMA FinishKeeps ==
  ASSUME ReaderInv, Finish
  PROVE  Walking' /\ Flushed' /\ Returned' /\ Locating'
<1>1. nextSeq \in Nat \ {0} /\ nextSeq' = nextSeq
  BY DEF Finish, ReaderInv, FInv, PInv, IInv, TypeOK, vars, memory
<1>2. QED BY <1>1 DEF Finish, NoArgs, Walking, Flushed, Reading, Returned, InOrder, Gathered,
                      Locating

\* Before a record is looked at, the range has nothing new.
LEMMA LoopKeeps ==
  ASSUME ReaderInv, Rides, forgotten' = forgotten, NextRecord \/ CheckLast
  PROVE  Walking' /\ Flushed' /\ Returned' /\ Locating'
<1>1. forgotten \in Nat /\ goal \in Nat /\ nextSeq \in Nat \ {0} /\ goal < nextSeq /\ next \in Nat
  BY DEF ReaderInv, FInv, Walking, Rides
<1>2. UNCHANGED <<next, args, entries, goal>> /\ rpc \in {"range", "next"}
  BY DEF NextRecord, CheckLast
<1>3. rpc' \in {"next", "cancelled", "full", "eof", "read"}
  BY DEF NextRecord, CheckLast
<1>4. rpc' = "read" => next < nextSeq
  BY <1>1 DEF NextRecord, CheckLast
<1>5. rpc' = "eof" => goal < next
  BY <1>1 DEF NextRecord, CheckLast
<1>6. Walking' /\ Returned' /\ Locating'
  BY <1>1, <1>2, <1>3, <1>4, <1>5, RangeRides DEF ReaderInv
<1>7. QED BY <1>3, <1>6 DEF Flushed, Reading

\* Read begins with a flush of what is not durable yet.
LEMMA ReadKeeps ==
  ASSUME ReaderInv, Rides, forgotten' = forgotten, Read
  PROVE  Walking' /\ Flushed' /\ Returned' /\ Locating'
<1>1. /\ forgotten \in Nat /\ next < nextSeq /\ rpc = "read" /\ rpc' = "reading"
      /\ UNCHANGED <<next, args, entries, goal>> /\ unsynced \in Nat /\ next \in Nat
  BY DEF Read, ReaderInv, FInv, Walking, PInv, IInv, TypeOK
<1>2. Walking' /\ Returned' /\ Locating'
  BY <1>1, RangeRides DEF ReaderInv
<1>3. Flushed'
  <2>1. CASE next <= durable
    BY <1>1, <2>1 DEF Rides, Flushed
  <2>2. CASE ~(next <= durable)
    <3>1. Sync
      BY <1>1, <2>2 DEF Read, Rides
    <3>2. SUFFICES ASSUME pc' = "idle" PROVE pending' = <<>> /\ unsynced' = 0
      BY DEF Flushed, Reading, Idle
    <3>3. QED BY <1>1, <3>1, <3>2 DEF Sync, StartFlush, memory
  <2>3. QED BY <2>1, <2>2
<1>4. QED BY <1>2, <1>3

LEMMA ReadFlushesKeeps ==
  ASSUME ReaderInv, Rides, forgotten' = forgotten, ReadFlushes
  PROVE  Walking' /\ Flushed' /\ Returned' /\ Locating'
<1>1. /\ forgotten \in Nat /\ next < nextSeq /\ rpc = "reading" /\ rpc' = "reading"
      /\ UNCHANGED <<next, args, entries, goal>> /\ Control
  BY DEF ReadFlushes, range, ReaderInv, FInv, Walking, PInv, IInv
<1>2. Walking' /\ Returned' /\ Locating'
  BY <1>1, RangeRides DEF ReaderInv
<1>3. Flushed'
  <2>1. CASE SyncFile
    BY <1>1, <2>1 DEF SyncFile, Control, Flushed
  <2>2. CASE ~SyncFile
    <3>1. pc' \in {"sync", "partial"}
      BY <2>2 DEF ReadFlushes, WriteAll, WriteRest, WritePart
    <3>2. QED BY <3>1 DEF Flushed, Reading, Idle
  <2>3. QED BY <2>1, <2>2
<1>4. QED BY <1>2, <1>3

\* Read returns an error.
LEMMA ReadErrorKeeps ==
  ASSUME ReaderInv, Rides, forgotten' = forgotten, ReadFlushFails \/ ReadFails
  PROVE  Walking' /\ Flushed' /\ Returned' /\ Locating'
<1>1. /\ forgotten \in Nat /\ rpc = "reading" /\ rpc' \in {"error", "corrupt"}
      /\ UNCHANGED <<next, args, entries, goal>>
  BY DEF ReadFlushFails, ReadFails, Reading, ReaderInv, FInv
<1>2. Walking' /\ Returned' /\ Locating'
  BY <1>1, RangeRides DEF ReaderInv
<1>3. QED BY <1>1, <1>2 DEF Flushed, Reading

\* The log goes on around the range, or ends it.
LEMMA AroundKeeps ==
  ASSUME ReaderInv, PInv', forgotten' \in Nat, forgotten <= forgotten', Around,
         open /\ open' => Rides
  PROVE  Walking' /\ Flushed' /\ Returned' /\ Locating'
<1>1. forgotten \in Nat /\ nextSeq' \in Nat \ {0} /\ open \in BOOLEAN /\ open' \in BOOLEAN
  BY DEF ReaderInv, FInv, PInv, IInv, TypeOK
<1>2. CASE open /\ open'
  <2>1. UNCHANGED <<next, args, entries, goal>> /\ rpc' = rpc /\ rpc # "reading"
    BY <1>2 DEF Around, range
  <2>2. Walking' /\ Returned' /\ Locating'
    <3>1. Walking /\ Returned /\ Locating /\ Rides
      BY <1>2 DEF ReaderInv
    <3>2. /\ rpc' \in {"none", "range", "next", "read", "reading", "locate",
                       "full", "eof", "cancelled", "error", "corrupt"}
          /\ rpc' \in {"read", "reading"} => next < nextSeq
          /\ rpc' = "eof" => goal < next
      BY <2>1, <3>1 DEF Walking
    <3>3. QED BY <1>1, <2>1, <3>1, <3>2, RangeRides
  <2>3. QED BY <2>1, <2>2 DEF Flushed, Reading
<1>3. CASE ~(open /\ open')
  <2>1. /\ rpc' = "none" /\ entries' = <<>> /\ goal' = 0
        /\ next' \in Nat \ {0} /\ args'.from \in Nat \ {0}
    BY <1>1, <1>3 DEF Around, range, NoArgs, ReaderInv, Walking
  <2>2. QED BY <1>1, <2>1 DEF Walking, Flushed, Reading, Returned, InOrder, Gathered, Locating
<1>4. QED BY <1>2, <1>3

\* Only a record that may be forgotten is passed over.
LEMMA ReadNotFoundKeeps ==
  ASSUME ReaderInv, Rides, forgotten' = forgotten, ReadNotFound
  PROVE  Walking' /\ Flushed' /\ Returned' /\ Locating'
<1>1. /\ rpc = "reading" /\ rpc' = "next" /\ next' = next + 1
      /\ UNCHANGED <<args, entries, goal, nextSeq, open>>
      /\ forgotten \in Nat /\ next \in Nat \ {0} /\ next < nextSeq /\ open
      /\ nextSeq \in Nat /\ args.from \in Nat
  BY DEF ReadNotFound, Reading, vars, memory, ReaderInv, FInv, Walking, Rides
<1>2. next < forgotten
  <2>1. next \notin DOMAIN index
    BY DEF ReadNotFound, Found, ReaderInv, FInv, PInv, Placed
  <2>2. next \in 1..nextSeq - 1
    BY <1>1
  <2>3. QED BY <1>1, <2>1, <2>2 DEF ReaderInv, FInv, Remembered
<1>3. Walking' /\ Flushed' /\ Locating'
  BY <1>1 DEF ReaderInv, Walking, Flushed, Reading, Locating
<1>4. Returned'
  <2>1. ASSUME NEW i \in 1..Len(entries)
        PROVE  /\ Told(entries[i])' /\ entries[i].seq < next + 1
               /\ i > 1 => entries[i-1].seq < entries[i].seq
    <3>1. PICK e : e = entries[i]
      OBVIOUS
    <3>2. e \in Entry /\ Told(e) /\ e.seq < next /\ (i > 1 => entries[i-1].seq < entries[i].seq)
      BY <1>1, <3>1 DEF ReaderInv, Returned, InOrder
    <3>3. Told(e)' /\ e.seq \in Nat
      BY <3>2, ToldStays DEF Entry
    <3>4. QED BY <1>1, <3>1, <3>2, <3>3 DEF Told
  <2>2. InOrder'
    BY <1>1, <2>1 DEF InOrder
  <2>3. ASSUME NEW seq \in args.from..next
        PROVE  seq < forgotten \/ \E i \in 1..Len(entries) : entries[i].seq = seq
    <3>1. seq = next \/ seq \in args.from..next - 1
      BY <1>1
    <3>2. QED BY <1>1, <1>2, <3>1 DEF ReaderInv, Returned, Gathered
  <2>4. Gathered'
    <3>1. next' - 1 = next
      BY <1>1
    <3>2. QED BY <1>1, <2>3, <3>1 DEF Gathered
  <2>5. entries' \in Seq(Entry)
    BY <1>1 DEF ReaderInv, Returned
  <2>6. QED BY <1>1, <2>1, <2>2, <2>4, <2>5 DEF Returned
<1>5. QED BY <1>3, <1>4

\* The location is the one that the data came from, or it is gone.
LEMMA LocateKeeps ==
  ASSUME ReaderInv, Rides, forgotten' = forgotten, Locate
  PROVE  Walking' /\ Flushed' /\ Returned' /\ Locating'
<1> DEFINE n == Len(entries)
           last == entries[n]
<1>1. /\ rpc = "locate" /\ rpc' = "range" /\ next' = next + 1
      /\ UNCHANGED <<args, goal, nextSeq, open, durable, hist>>
      /\ forgotten \in Nat /\ next \in Nat \ {0} /\ open /\ args.from \in Nat \ {0}
      /\ entries # <<>> /\ Only(next, last.at) /\ entries \in Seq(Entry)
  BY DEF Locate, vars, memory, history, ReaderInv, FInv, Walking, Rides, Locating, Returned
<1>2. n \in Nat \ {0} /\ n \in 1..n /\ last \in Entry
  BY <1>1
<1>3. PICK loc : /\ loc = LocationOf(next) \/ loc = Nowhere
                 /\ entries' = [entries EXCEPT ![n].loc = loc]
  BY DEF Locate
<1>4. loc = Nowhere \/ loc = last.at
  BY <1>1, <1>3 DEF LocationOf, Only
<1>5. /\ entries' \in Seq(Entry) /\ Len(entries') = n
      /\ \A i \in 1..n : entries'[i] = IF i = n THEN [last EXCEPT !.loc = loc] ELSE entries[i]
  <2>1. [last EXCEPT !.loc = loc] \in Entry
    BY <1>2, <1>4 DEF Entry
  <2>2. entries' = [entries EXCEPT ![n] = [last EXCEPT !.loc = loc]]
    BY <1>3
  <2>3. QED BY <1>1, <1>2, <2>1, <2>2
<1>6. ASSUME NEW i \in 1..n
      PROVE  /\ entries'[i].seq = entries[i].seq /\ entries[i].seq \in Nat
             /\ entries[i].seq < next + 1
             /\ i > 1 => entries[i-1].seq < entries[i].seq
  <2>1. entries[i] \in Entry /\ entries[i].seq \in Nat
    <3>1. entries[i] \in Entry
      BY <1>1
    <3>2. QED BY <3>1 DEF Entry
  <2>2. entries'[i].seq = entries[i].seq
    BY <1>2, <1>5, <2>1 DEF Entry
  <2>3. entries[i].seq = next \/ entries[i].seq < next
    BY <1>1 DEF ReaderInv, Returned, InOrder
  <2>4. QED BY <1>1, <2>1, <2>2, <2>3 DEF ReaderInv, Returned, InOrder
<1>7. Walking' /\ Flushed' /\ Locating'
  BY <1>1 DEF ReaderInv, Walking, Flushed, Reading, Locating
<1>8. ASSUME NEW i \in 1..n PROVE Told(entries[i])'
  <2>1. PICK e : e = entries[i]
    OBVIOUS
  <2>2. e \in Entry /\ Told(e)
    BY <1>1, <2>1 DEF ReaderInv, Returned
  <2>3. PICK f : f = entries'[i]
    OBVIOUS
  <2>4. f.seq = e.seq /\ f.data = e.data /\ (f.loc # Nowhere => f.loc = f.at)
    <3>1. CASE i = n
      BY <1>4, <1>5, <2>1, <2>2, <2>3, <3>1 DEF Entry
    <3>2. CASE i # n
      BY <1>5, <2>1, <2>2, <2>3, <3>2 DEF Told
    <3>3. QED BY <3>1, <3>2
  <2>5. Told(f)'
    BY <1>1, <2>2, <2>4 DEF Told
  <2>6. QED BY <2>3, <2>5 DEF Told
<1>9. InOrder'
  <2>1. ASSUME NEW i \in 1..n
        PROVE  /\ i > 1 => entries'[i-1].seq < entries'[i].seq
               /\ entries'[i].seq < next + 1
    <3>1. i > 1 => i - 1 \in 1..n
      BY <1>2
    <3>2. QED BY <1>6, <3>1
  <2>2. QED BY <1>1, <1>5, <2>1 DEF InOrder
<1>10. Gathered'
  <2>1. SUFFICES ASSUME NEW seq \in args.from..next
                 PROVE  seq < forgotten \/ \E i \in 1..n : entries'[i].seq = seq
    BY <1>1, <1>5 DEF Gathered
  <2>2. CASE seq = next
    <3>1. entries[n].seq = next
      BY <1>1, <1>2 DEF ReaderInv, Returned, InOrder
    <3>2. QED BY <1>2, <1>6, <2>2, <3>1
  <2>3. CASE seq # next
    <3>1. seq \in args.from..next - 1
      BY <1>1, <2>3
    <3>2. seq < forgotten \/ \E i \in 1..n : entries[i].seq = seq
      BY <1>1, <3>1 DEF ReaderInv, Returned, Gathered
    <3>3. QED BY <1>6, <3>2
  <2>4. QED BY <2>2, <2>3
<1>11. QED BY <1>5, <1>7, <1>8, <1>9, <1>10 DEF Returned

\* What Read looks up is durable, whether or not it had to flush.
LEMMA LookedUp ==
  ASSUME ReaderInv, Reading
  PROVE  /\ MInv /\ IInv /\ PInv /\ open /\ next \in Nat \ {0} /\ next < nextSeq
         /\ next <= durable /\ durable \in Nat
<1>1. /\ MInv /\ IInv /\ PInv /\ open /\ pc = "idle" /\ next \in Nat \ {0} /\ next < nextSeq
      /\ durable \in Nat /\ nextSeq \in Nat
  BY DEF ReaderInv, FInv, PInv, MInv, IInv, TypeOK, Walking, Reading, Idle
<1>2. next <= durable
  <2>1. pending = <<>> /\ unsynced = 0 => durable = nextSeq - 1
    BY <1>1, AtEnd
  <2>2. QED BY <1>1, <2>1 DEF ReaderInv, Flushed
<1>3. QED BY <1>1, <1>2

\* The file of a segment that is open, without the buffer.
LEMMA OpenFile ==
  ASSUME IInv, Idle, NEW s \in segs \ shut
  PROVE  /\ s \in DOMAIN disk /\ disk[s].data \in Seq(Frame) /\ Written(s) \in Seq(Frame)
         /\ Len(disk[s].data) <= Len(Written(s))
         /\ \A i \in 1..Len(disk[s].data) : Written(s)[i] = disk[s].data[i]
<1>1. /\ s \in DOMAIN disk /\ disk[s].data \in Seq(Frame) /\ pending \in Seq(Frame)
      /\ Written(s) \in Seq(Frame)
  BY WrittenIsLogged, FileType DEF IInv, TypeOK
<1>2. Written(s) = disk[s].data \o pending \/ Written(s) = disk[s].data \o <<>>
  BY DEF Written
<1>3. QED BY <1>1, <1>2

\* The fragments that Read puts together are those of the record.
LEMMA ReadsWhole ==
  ASSUME IInv, NeverMisread, Reading, Found, NEW m \in 1..index[next].n, Readable(m)
  PROVE  LET loc == index[next]
         IN  /\ loc \in Location /\ loc.seg \in DOMAIN disk
             /\ SubSeq(disk[loc.seg].data, loc.off + 1, loc.off + m) \in Seq(Frame)
             /\ SubSeq(disk[loc.seg].data, loc.off + 1, loc.off + m)
                  = Fragments(next, hist[next])
<1> DEFINE loc == index[next]
           s   == loc.seg
           d   == disk[s].data
           w   == Written(s)
           p   == hist[next]
<1>1. /\ next \in DOMAIN index /\ loc \in Location /\ s \in segs \ shut /\ Idle
      /\ ReadsAt(d, next, loc, m)
  BY DEF Found, Readable, Reading, IInv, TypeOK
<1>2. /\ s \in DOMAIN disk /\ d \in Seq(Frame) /\ w \in Seq(Frame) /\ Len(d) <= Len(w)
      /\ \A i \in 1..Len(d) : w[i] = d[i]
  BY <1>1, OpenFile
<1>3. loc.off \in Nat /\ loc.n \in Nat \ {0} /\ m \in Nat \ {0}
  BY <1>1 DEF Location
<1>4. NeverMisread => (ReadsAt(w, next, loc, m) => Spells(w, loc, m, p))
  BY <1>1 DEF NeverMisread
<1> HIDE DEF loc, s, d, w, p
<1>5. /\ loc.off + m <= Len(d) /\ FlagFirst(d[loc.off + 1])
      /\ \A j \in 1..m : /\ loc.off + j \in 1..Len(d) /\ w[loc.off + j] = d[loc.off + j]
                         /\ d[loc.off + j].kind = "ok" /\ d[loc.off + j].seq = next
                         /\ FlagLast(d[loc.off + j]) <=> j = m
  BY <1>1, <1>2, <1>3 DEF ReadsAt
<1>6. ReadsAt(w, next, loc, m)
  <2>1. 1 \in 1..m /\ m \in 1..loc.n
    BY <1>1, <1>3 DEF ReadsAt
  <2>2. w[loc.off + 1] = d[loc.off + 1] /\ loc.off + m <= Len(w)
    BY <1>2, <1>3, <1>5, <2>1
  <2>3. QED BY <1>5, <2>1, <2>2 DEF ReadsAt
<1>7. m = Parts[p] /\ \A j \in 1..m : w[loc.off + j].payload = p /\ w[loc.off + j].part = j
  BY <1>4, <1>6 DEF Spells
<1> DEFINE e == SubSeq(d, loc.off + 1, loc.off + m)
<1>8. e \in Seq(Frame) /\ Len(e) = m /\ \A j \in 1..m : e[j] = d[loc.off + j]
  <2>1. PICK a, b : a = loc.off + 1 /\ b = loc.off + m
    OBVIOUS
  <2>2. a \in Int /\ b \in Int /\ a <= b /\ b - a + 1 = m /\ \A i \in a..b : d[i] \in Frame
    <3>1. loc.off \in Nat /\ m \in Nat \ {0} /\ loc.off + m <= Len(d) /\ Len(d) \in Nat
      BY <1>2, <1>3, <1>5
    <3>2. a \in Int /\ b \in Int
      BY <2>1, <3>1
    <3>3. a <= b /\ b - a + 1 = m
      BY <2>1, <3>1
    <3>4. \A i \in a..b : i \in 1..Len(d)
      BY <2>1, <3>1
    <3>5. QED BY <1>2, <3>2, <3>3, <3>4
  <2>3. /\ SubSeq(d, a, b) \in Seq(Frame) /\ Len(SubSeq(d, a, b)) = m
        /\ \A j \in 1..m : SubSeq(d, a, b)[j] = d[a + j - 1]
    BY <2>2, SubSeqProperties
  <2>4. \A j \in 1..m : a + j - 1 = loc.off + j
    BY <1>3, <2>1
  <2>5. QED BY <2>1, <2>3, <2>4
<1> HIDE DEF e
<1>9. ASSUME NEW j \in 1..m
      PROVE  e[j] = [seq |-> next, part |-> j, payload |-> p, kind |-> "ok"]
  <2>1. d[loc.off + j] \in Frame
    BY <1>2, <1>5
  <2>2. /\ d[loc.off + j].kind = "ok" /\ d[loc.off + j].seq = next
        /\ d[loc.off + j].payload = p /\ d[loc.off + j].part = j
    BY <1>5, <1>7
  <2>3. QED BY <1>8, <2>1, <2>2 DEF Frame
<1>10. e = Fragments(next, p)
  <2>1. e = [j \in 1..m |-> e[j]]
    BY <1>8
  <2>2. QED BY <1>7, <1>9, <2>1 DEF Fragments
<1>11. QED BY <1>1, <1>2, <1>8, <1>10 DEF loc, s, d, p, e

\* A durable record joins what was returned.
LEMMA ReadReturnsKeeps ==
  ASSUME ReaderInv, Rides, forgotten' = forgotten, NeverMisread, ReadReturns
  PROVE  Walking' /\ Flushed' /\ Returned' /\ Locating'
<1> DEFINE n == Len(entries)
           loc == index[next]
<1>1. /\ rpc = "reading" /\ rpc' = "locate" /\ Reading /\ Found
      /\ UNCHANGED <<vars, next, args, goal>>
  BY DEF ReadReturns, Reading
<1>2. PICK m \in 1..index[next].n :
        /\ Readable(m)
        /\ entries' = Append(entries,
             [seq |-> next, at |-> loc, loc |-> Nowhere,
              data |-> SubSeq(disk[loc.seg].data, loc.off + 1, loc.off + m)])
  BY DEF ReadReturns
<1> DEFINE e == [seq |-> next, at |-> loc, loc |-> Nowhere,
                 data |-> SubSeq(disk[loc.seg].data, loc.off + 1, loc.off + m)]
<1>3. /\ IInv /\ open /\ next \in Nat \ {0} /\ next < nextSeq /\ next <= durable /\ durable \in Nat
      /\ next \in DOMAIN index /\ entries \in Seq(Entry) /\ forgotten \in Nat
      /\ args.from \in Nat \ {0}
  BY <1>1, LookedUp DEF Found, ReaderInv, FInv, Returned, Walking
<1>4. /\ loc \in Location /\ loc.seg \in DOMAIN disk /\ e.data \in Seq(Frame)
      /\ e.data = Fragments(next, hist[next])
  BY <1>1, <1>2, <1>3, ReadsWhole
<1>5. Only(next, loc)
  BY <1>3, <1>4, OnePlace
<1> HIDE DEF loc
<1>6. e \in Entry /\ e.seq = next /\ e.at = loc /\ e.loc = Nowhere
  BY <1>3, <1>4 DEF Entry
<1>7. Told(e)
  BY <1>3, <1>4, <1>6 DEF Told
<1> HIDE DEF e
<1>8. /\ entries' = Append(entries, e) /\ entries' \in Seq(Entry) /\ n \in Nat
      /\ Len(entries') = n + 1 /\ entries'[n + 1] = e
      /\ \A i \in 1..n : entries'[i] = entries[i]
  BY <1>2, <1>3, <1>6 DEF e
<1>9. UNCHANGED <<open, durable, nextSeq, hist>>
  BY <1>1 DEF vars, memory, history
<1>10. Walking' /\ Flushed'
  BY <1>1, <1>3, <1>9 DEF ReaderInv, Walking, Flushed, Reading
<1>11. Locating'
  <2>1. PICK q, at : q = next /\ at = loc
    OBVIOUS
  <2>2. Only(q, at)'
    BY <1>3, <1>5, <2>1 DEF Rides
  <2>3. entries'[Len(entries')].at = at /\ entries'[Len(entries')].loc = Nowhere /\ next' = q
    BY <1>1, <1>6, <1>8, <2>1
  <2>4. Only(next, entries[Len(entries)].at)'
    BY <2>2, <2>3 DEF Only
  <2>5. entries' # <<>>
    BY <1>8
  <2>6. QED BY <2>3, <2>4, <2>5 DEF Locating
<1>12. ASSUME NEW i \in 1..n + 1 PROVE Told(entries[i])'
  <2>1. PICK f : f = entries'[i]
    OBVIOUS
  <2>2. f \in Entry /\ Told(f)
    <3>1. CASE i = n + 1
      BY <1>6, <1>7, <1>8, <2>1, <3>1
    <3>2. CASE i # n + 1
      <4>1. i \in 1..n
        BY <1>8, <3>2
      <4>2. QED BY <1>3, <1>8, <2>1, <4>1 DEF ReaderInv, Returned
    <3>3. QED BY <3>1, <3>2
  <2>3. Told(f)'
    BY <2>2, ToldStays
  <2>4. QED BY <2>1, <2>3 DEF Told
<1>13. InOrder'
  <2>1. ASSUME NEW i \in 1..n
        PROVE  /\ entries[i].seq < next /\ (i > 1 => entries[i-1].seq < entries[i].seq)
               /\ entries'[i].seq = entries[i].seq
    BY <1>1, <1>8 DEF ReaderInv, Returned, InOrder
  <2>2. ASSUME NEW i \in 1..n + 1
        PROVE  /\ i > 1 => entries'[i-1].seq < entries'[i].seq
               /\ IF i = n + 1 THEN entries'[i].seq = next ELSE entries'[i].seq < next
    <3>1. CASE i = n + 1
      <4>1. n \in Nat
        BY <1>8
      <4>2. i > 1 => i - 1 \in 1..n
        BY <3>1, <4>1
      <4>3. QED BY <1>6, <1>8, <2>1, <3>1, <4>2
    <3>2. CASE i # n + 1
      <4>1. n \in Nat
        BY <1>8
      <4>2. i \in 1..n /\ (i > 1 => i - 1 \in 1..n)
        BY <3>2, <4>1
      <4>3. QED BY <2>1, <3>2, <4>2
    <3>3. QED BY <3>1, <3>2
  <2>3. QED BY <1>1, <1>8, <2>2 DEF InOrder
<1>14. Gathered'
  <2>1. SUFFICES ASSUME NEW seq \in args.from..next - 1
                 PROVE  seq < forgotten \/ \E i \in 1..n + 1 : entries'[i].seq = seq
    BY <1>1, <1>8 DEF Gathered
  <2>2. CASE seq < forgotten
    BY <2>2
  <2>3. CASE \E i \in 1..n : entries[i].seq = seq
    <3>1. PICK i \in 1..n : entries[i].seq = seq
      BY <2>3
    <3>2. i \in 1..n + 1
      BY <1>8
    <3>3. QED BY <1>8, <3>1, <3>2
  <2>4. QED BY <1>1, <2>2, <2>3 DEF ReaderInv, Returned, Gathered
<1>15. QED BY <1>8, <1>10, <1>11, <1>12, <1>13, <1>14 DEF Returned

-------------------------------------------------------------------------------
(* The invariant is inductive.                                              *)

LEMMA ReaderInit ==
  ASSUME RInit, PInv, Marked
  PROVE  ReaderInv
<1>1. /\ open = FALSE /\ rpc = "none" /\ next = 1 /\ args.from = 1 /\ entries = <<>>
      /\ goal = 0 /\ forgotten = 0 /\ disk = <<>> /\ shut = {} /\ pc = "idle" /\ resume = "idle"
  BY DEF RInit, Init, NoRange, NoArgs
<1>2. FInv
  BY <1>1 DEF FInv, Behind, Lined, ShutForgotten, Reaching, Remembered
<1>3. QED BY <1>1, <1>2 DEF ReaderInv, Walking, Flushed, Reading, Returned, InOrder, Gathered,
                            Locating

\* Every step of the reader, and every step of the log around it, keeps the invariant.
LEMMA ReaderKeeps ==
  ASSUME SoundEnvironment, ReaderInv, PInv', Marked', NeverMisread, [RNext]_rvars
  PROVE  ReaderInv'
<1>1. CASE RNext
  <2>1. /\ [Next]_vars /\ forgotten' \in Nat /\ forgotten <= forgotten'
        /\ UNCHANGED vars \/ Forgets
        /\ ~Around => forgotten' = forgotten
    BY <1>1, ReaderForgets DEF ReaderInv
  <2>2. FInv'
    BY <2>1, ForgetKeeps DEF ReaderInv
  <2>3. open /\ open' => Rides
    BY <2>1, LogRides DEF ReaderInv
  <2>4. CASE Around
    BY <2>1, <2>2, <2>3, <2>4, AroundKeeps DEF ReaderInv
  <2>5. CASE \E r \in Ranges : ReadRange(r)
    BY <2>2, <2>5, ReadRangeKeeps DEF ReaderInv
  <2>6. CASE Finish
    BY <2>2, <2>6, FinishKeeps DEF ReaderInv
  <2>7. CASE Reads /\ ~Around /\ ~Finish /\ ~\E r \in Ranges : ReadRange(r)
    <3>1. rpc # "none"
      BY <2>7 DEF Reads, NextRecord, CheckLast, Read, ReadFlushes, ReadFlushFails, ReadNotFound,
                  ReadReturns, ReadFails, Reading, Locate
    <3>2. open
      BY <3>1 DEF ReaderInv, Walking
    <3>3. open' = open
      BY <2>7 DEF Reads, NextRecord, CheckLast, Read, Sync, ReadFlushes, WriteAll, WriteRest,
                  SyncFile, WritePart, ReadFlushFails, WriteFails, Rollback, RollbackFails,
                  SyncFails, ReadNotFound, ReadReturns, ReadFails, Locate, vars, memory
    <3>4. Rides /\ forgotten' = forgotten
      BY <2>1, <2>3, <2>7, <3>2, <3>3
    <3>5. Walking' /\ Flushed' /\ Returned' /\ Locating'
      BY <2>7, <3>4, LoopKeeps, ReadKeeps, ReadFlushesKeeps, ReadErrorKeeps, ReadNotFoundKeeps,
         ReadReturnsKeeps, LocateKeeps DEF Reads
    <3>6. QED BY <2>2, <3>5 DEF ReaderInv
  <2>8. QED BY <1>1, <2>4, <2>5, <2>6, <2>7 DEF RNext, Reads
<1>2. CASE UNCHANGED rvars
  <2>1. UNCHANGED <<vars, rpc, next, args, entries, goal, forgotten>>
    BY <1>2 DEF rvars, range
  <2>2. FInv'
    <3>1. forgotten \in Nat
      BY DEF ReaderInv, FInv
    <3>2. QED BY <2>1, <3>1, ForgetKeeps DEF ReaderInv
  <2>3. UNCHANGED <<open, pc, pending, unsynced, durable, nextSeq, hist>>
    BY <2>1 DEF vars, memory, control, history
  <2>4. Walking' /\ Flushed'
    BY <2>1, <2>3 DEF ReaderInv, Walking, Flushed, Reading, Idle
  <2>5. Returned' /\ Locating'
    <3>1. CASE ~open
      <4>1. rpc = "none" /\ entries = <<>>
        BY <3>1 DEF ReaderInv, Walking
      <4>2. QED BY <2>1, <4>1 DEF Returned, InOrder, Gathered, Locating
    <3>2. CASE open
      <4>1. Rides
        BY <2>1, <2>3, <3>2, LogRides DEF ReaderInv
      <4>2. forgotten \in Nat
        BY DEF ReaderInv, FInv
      <4>3. QED BY <2>1, <4>1, <4>2, RangeRides DEF ReaderInv, Walking
    <3>3. QED BY <3>1, <3>2
  <2>6. QED BY <2>2, <2>4, <2>5 DEF ReaderInv
<1>3. QED BY <1>1, <1>2

\* What the reader has, and what it knows of the log, holds in every state.
THEOREM ReaderInductive ==
  ASSUME SoundEnvironment
  PROVE  RSpec => []ReaderInv
<1>1. RInit /\ PInv /\ MInv => ReaderInv
  BY ReaderInit DEF MInv
<1>2. ReaderInv /\ [RNext]_rvars /\ NeverMisread /\ PInv' /\ MInv' => ReaderInv'
  <2>1. SUFFICES ASSUME ReaderInv, [RNext]_rvars, NeverMisread, PInv', MInv' PROVE ReaderInv'
    OBVIOUS
  <2>2. Marked'
    BY <2>1 DEF MInv
  <2>3. QED BY <2>1, <2>2, ReaderKeeps
<1>3. QED BY <1>1, <1>2, ReaderIsWal, PlacesHold, WatermarkHolds, NeverMisreads, PTL DEF RSpec

-------------------------------------------------------------------------------
(* What a caller can rely on.                                               *)

\* Whatever a range has returned was reported durable: Read flushes what is not durable
\* yet and returns nothing before the fsync, and no failed write or fsync, rollback,
\* recovery or rotation comes between.
THEOREM AlwaysEntriesDurable ==
  ASSUME SoundEnvironment
  PROVE  RSpec => []EntriesDurable
<1>1. ReaderInv => EntriesDurable
  <2>1. SUFFICES ASSUME ReaderInv, NEW i \in 1..Len(entries)
                 PROVE  entries[i].seq <= promised
    BY DEF EntriesDurable
  <2>2. open
    <3>1. entries # <<>>
      BY <2>1
    <3>2. QED BY <2>1, <3>1 DEF ReaderInv, Walking
  <2>3. PICK e : e = entries[i]
    OBVIOUS
  <2>4. e \in Entry /\ Told(e)
    BY <2>1, <2>3 DEF ReaderInv, Returned
  <2>5. e.seq \in Nat /\ e.seq <= durable
    BY <2>4 DEF Entry, Told
  <2>6. durable \in Nat /\ promised \in Nat /\ durable <= promised
    BY <2>1, <2>2 DEF ReaderInv, FInv, Behind, PInv, IInv, TypeOK
  <2>7. QED BY <2>3, <2>5, <2>6
<1>2. QED BY <1>1, ReaderInductive, PTL

\* A range that ends without an error has returned whole records in their order and, but
\* for those that a caller asked to forget, all up to where it stopped: to its limit, or
\* to the last that was appended when it began; although between any two of its steps the
\* log may rotate, clean, recover and fail.
THEOREM AlwaysRangeExact ==
  ASSUME SoundEnvironment
  PROVE  RSpec => []RangeExact
<1>1. ReaderInv => RangeExact
  <2>1. SUFFICES ASSUME ReaderInv, rpc \in {"full", "eof"}
                 PROVE  /\ \A i \in 1..Len(entries) :
                             /\ entries[i].data = Fragments(entries[i].seq, hist[entries[i].seq])
                             /\ i > 1 => entries[i-1].seq < entries[i].seq
                        /\ \A seq \in args.from..(IF rpc = "eof" THEN goal ELSE next - 1) :
                             seq < forgotten \/ \E i \in 1..Len(entries) : entries[i].seq = seq
    BY DEF RangeExact
  <2>2. \A i \in 1..Len(entries) :
          /\ entries[i].data = Fragments(entries[i].seq, hist[entries[i].seq])
          /\ i > 1 => entries[i-1].seq < entries[i].seq
    BY <2>1 DEF ReaderInv, Returned, Told, InOrder
  <2>3. ASSUME NEW seq \in args.from..(IF rpc = "eof" THEN goal ELSE next - 1)
        PROVE  seq < forgotten \/ \E i \in 1..Len(entries) : entries[i].seq = seq
    <3>1. /\ args.from \in Nat /\ next \in Nat /\ goal \in Nat
          /\ (rpc = "eof" => goal < next)
      BY <2>1 DEF ReaderInv, Walking
    <3>2. seq \in args.from..next - 1
      BY <3>1
    <3>3. QED BY <2>1, <3>2 DEF ReaderInv, Returned, Gathered
  <2>4. QED BY <2>2, <2>3
<1>2. QED BY <1>1, ReaderInductive, PTL

\* The location of an entry is the one its data was read from, or none: between the read
\* and the second look at the index, without the mutex, the record may be removed and the
\* index be built again, but no record ever takes the place of another.
THEOREM AlwaysLocationTrueOrNone ==
  ASSUME SoundEnvironment
  PROVE  RSpec => []LocationTrueOrNone
<1>1. ReaderInv => LocationTrueOrNone
  BY DEF ReaderInv, Returned, Told, LocationTrueOrNone
<1>2. QED BY <1>1, ReaderInductive, PTL

\* The record that Read looks up can be read, unless a caller asked to forget it.
LEMMA ReadsOrForgets ==
  ASSUME ReaderInv, DurableConfirmed, Reading, Found, ~(next < forgotten)
  PROVE  \E m \in 1..index[next].n : Readable(m)
<1> DEFINE loc == index[next]
           s   == loc.seg
           d   == disk[s].data
           w   == Written(s)
<1>1. /\ IInv /\ PInv /\ next \in Nat \ {0} /\ next <= durable /\ Idle /\ forgotten \in Nat
      /\ next \in DOMAIN index /\ s \in segs /\ loc \in Location /\ hist \in Seq(Payloads)
  BY LookedUp DEF Reading, Found, ReaderInv, FInv, IInv, TypeOK
<1>2. s \notin shut
  <2>1. SUFFICES ASSUME s \in shut PROVE FALSE
    OBVIOUS
  <2>2. PICK u \in segs : s < u /\ u <= forgotten
    BY <2>1 DEF ReaderInv, FInv, ShutForgotten
  <2>3. next < u /\ u \in Nat
    BY <1>1, <2>2 DEF PInv, Placed, IInv, TypeOK
  <2>4. QED BY <1>1, <2>2, <2>3
<1>3. loc.off + loc.n <= disk[s].stable
  BY <1>1, <1>2 DEF DurableConfirmed
<1>4. /\ s \in DOMAIN disk /\ d \in Seq(Frame) /\ w \in Seq(Frame) /\ Len(d) <= Len(w)
      /\ \A i \in 1..Len(d) : w[i] = d[i]
  BY <1>1, <1>2, OpenFile
<1>5. disk[s].stable \in Nat /\ disk[s].stable <= Len(d)
  BY <1>1, <1>4, FileType DEF IInv
<1>6. /\ w = Logged(s) /\ s - 1 \in Nat /\ Chained(w, s - 1) /\ AllOk(w) /\ Carries(w, hist)
  BY <1>1, <1>2, WrittenIsLogged
<1>7. LiesAt(w, next, loc)
  BY <1>1, <1>4, <1>6 DEF Idle, IInv, Indexed
<1> HIDE DEF d, w
<1>8. PICK m \in 1..loc.n : ReadsAt(w, next, loc, m)
  BY <1>1, <1>4, <1>6, <1>7, ReadsRecord
<1>9. loc.off \in Nat /\ loc.n \in Nat \ {0} /\ loc.off + loc.n <= Len(d) /\ m \in Nat \ {0}
  <2>1. loc.off \in Nat /\ loc.n \in Nat \ {0} /\ Len(d) \in Nat
    BY <1>1, <1>4 DEF Location
  <2>2. QED BY <1>3, <1>5, <1>8, <2>1
<1> HIDE DEF loc, s
<1>10. ReadsAt(d, next, loc, m)
  <2>1. loc.off + m <= Len(d) /\ \A j \in 1..m : w[loc.off + j] = d[loc.off + j]
    BY <1>4, <1>8, <1>9
  <2>2. w[loc.off + 1] = d[loc.off + 1]
    BY <1>9, <2>1
  <2>3. QED BY <1>8, <2>1, <2>2 DEF ReadsAt
<1>11. QED BY <1>2, <1>8, <1>10 DEF Readable, loc, s, d

\* Where no byte on disk is damaged, the only record that a range reports as corrupt is one
\* that a caller asked to forget, whose removal has failed half-way: a range that meets a
\* rotation, a cleaning, a recovery or a failed write never mistakes it for damage.
THEOREM CorruptionsAreReal ==
  ASSUME SoundEnvironment
  PROVE  RSpec => CorruptionReal
<1>1. ReaderInv /\ DurableConfirmed /\ [RNext]_rvars =>
        [rpc' = "corrupt" /\ rpc # "corrupt" => next < forgotten]_rvars
  <2>1. SUFFICES ASSUME ReaderInv, DurableConfirmed, RNext, rpc' = "corrupt", rpc # "corrupt"
                 PROVE  next < forgotten
    OBVIOUS
  <2>2. ReadFails
    BY <2>1 DEF RNext, Around, range, Reads, ReadRange, NextRecord, CheckLast, Read, ReadFlushes,
                ReadFlushFails, ReadNotFound, ReadReturns, Locate, Finish
  <2>3. QED BY <2>1, <2>2, ReadsOrForgets DEF ReadFails
<1>2. [rpc' = "corrupt" /\ rpc # "corrupt" => next < forgotten]_rvars =>
        [rpc' = "corrupt" /\ rpc # "corrupt" =>
           \/ next < forgotten
           \/ \E s \in DOMAIN disk : \E i \in 1..Len(disk[s].data) :
                disk[s].data[i].seq = next /\ disk[s].data[i].kind = "bad"]_rvars
  OBVIOUS
<1>3. QED BY <1>1, <1>2, ReaderInductive, ReaderIsWal, AlwaysDurableConfirmed, PTL
          DEF RSpec, CorruptionReal

===============================================================================
