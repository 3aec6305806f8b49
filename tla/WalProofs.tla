------------------------------ MODULE WalProofs ------------------------------
(***************************************************************************)
(* Theorems about the WAL, for every value of its constants in an          *)
(* environment it is made for: a failed write can be rolled back, nobody   *)
(* damages a segment, a new file that is fsynced can be found again, the   *)
(* pages of a failed fsync stay dirty, and what a dead process wrote       *)
(* reaches the disk.  Writes, fsyncs, creations and removals may fail, and *)
(* the process and the machine may stop at any step.  The last parts, from *)
(* Genuine on, are for every environment.                                  *)
(***************************************************************************)
EXTENDS Wal, WalFormatProofs

SoundEnvironment ==
  /\ Faults \subseteq {"write", "sync", "create", "remove"}
  /\ SyncNamesFile /\ ~SyncFailDrops /\ ExitSettles

-------------------------------------------------------------------------------
(* The inductive invariant.                                                 *)

\* The frames of the current segment that a failed write leaves there, and
\* those it holds once the buffer is flushed.
Base == IF pc = "partial" THEN SubSeq(disk[cur].data, 1, before) ELSE disk[cur].data
Body == Base \o pending

Logged(s) == IF open /\ s = cur THEN Body ELSE disk[s].data

\* The frames of d carry the payloads of the log.
Carries(d, log) == \A i \in 1..Len(d) : d[i].seq <= Len(log) /\ d[i].payload = log[d[i].seq]

\* Every file holds fragments of records in order; a torn one is its last.
FilesChained ==
  \A s \in DOMAIN disk :
    /\ Chained(disk[s].data, s - 1) /\ TornEnd(disk[s].data)
    /\ s - 1 <= Len(hist) /\ Carries(disk[s].data, hist)
    /\ ~disk[s].dropped

Stored(f) == /\ AllOk(f.data) /\ Complete(f.data, Len(f.data))
             /\ f.stable = Len(f.data) /\ f.named

\* A file that has a successor is complete, durable, and ends in front of it.
FilesLinked ==
  \A s, t \in DOMAIN disk :
    /\ s < t => Stored(disk[s]) /\ LastSeqOf(disk[s].data, s - 1) < t
    /\ Adjacent(DOMAIN disk, s, t) => LastSeqOf(disk[s].data, s - 1) + 1 = t

FilesSettled ==
  ~open => \A s \in DOMAIN disk : disk[s].stable = Len(disk[s].data) /\ disk[s].named

\* Every element but the newest has a neighbour.
Successors(S) == \A s \in S : Newest(S, s) \/ \E t \in S : Adjacent(S, s, t)

Directory ==
  /\ Successors(DOMAIN disk) /\ Successors(segs)
  /\ open => DOMAIN disk \subseteq segs /\ Newest(segs, cur)

\* A cleaning has removed what it no longer lists, from the oldest on.
Cleaning ==
  /\ \A s \in call.todo : \A t \in DOMAIN disk : t < s => t \in call.todo
  /\ "clean" \in {pc, resume} => Old(call.mark) \cap DOMAIN disk \subseteq call.todo

\* The current segment and the buffer hold the end of the log.
Current ==
  open => /\ pc = "partial" => before <= Len(disk[cur].data)
          /\ AllOk(Base) /\ Complete(Base, Len(Base))
          /\ Chained(Body, cur - 1) /\ AllOk(Body) /\ Complete(Body, Len(Body))
          /\ Carries(Body, hist)
          /\ LastSeqOf(Body, cur - 1) = nextSeq - 1 /\ nextSeq = Len(hist) + 1

\* What the next flush has to sync.
Unsynced ==
  open => /\ disk[cur].stable <= Len(Base)
          /\ unsynced = 0 => disk[cur].stable = Len(Base) /\ (Base # <<>> => disk[cur].named)
          /\ unsynced > 0 => unsynced = LastSeqOf(Base, cur - 1)
          /\ durable < nextSeq
          /\ \A i \in 1..Len(Body) :
               Body[i].seq <= durable => i <= disk[cur].stable /\ disk[cur].named

\* What a call has behind it.
Control ==
  /\ pc \in {"write", "partial"} => pending # <<>>
  /\ pc = "sync" => pending = <<>> /\ unsynced > 0
  /\ pc \in {"create", "put", "recover", "clean", "corrupt"} \/ ~open
       => pending = <<>> /\ unsynced = 0
  /\ pc # "corrupt" /\ resume # "corrupt"

Indexed ==
  open => \A seq \in DOMAIN index :
            /\ index[seq].seg <= seq /\ seq < nextSeq
            /\ index[seq].seg \in DOMAIN disk => LiesAt(Logged(index[seq].seg), seq, index[seq])

IInv == /\ TypeOK
        /\ FilesChained /\ FilesLinked /\ FilesSettled /\ Directory /\ Cleaning
        /\ Current /\ Unsynced /\ Control /\ Indexed

-------------------------------------------------------------------------------
(* The current file, and what the buffer adds to it.                        *)
LEMMA FileType ==
  ASSUME TypeOK, NEW s \in DOMAIN disk
  PROVE  /\ s \in Nat \ {0} /\ s - 1 \in Nat
         /\ disk[s] \in File
         /\ disk[s].data \in Seq(Frame) /\ disk[s].stable \in Nat
         /\ disk[s].named \in BOOLEAN /\ disk[s].dropped \in BOOLEAN
         /\ disk[s].stable <= Len(disk[s].data)
<1>1. s \in Nat \ {0} /\ disk[s] \in File /\ disk[s].stable <= Len(disk[s].data)
  BY DEF TypeOK
<1>2. QED BY <1>1 DEF File

\* Body is Base and, behind it, the buffer.
LEMMA CurrentFile ==
  ASSUME TypeOK, Current, open
  PROVE  /\ cur \in DOMAIN disk /\ cur \in segs /\ cur \in Nat \ {0} /\ cur - 1 \in Nat
         /\ Base \in Seq(Frame) /\ pending \in Seq(Frame) /\ Body \in Seq(Frame)
         /\ Len(Body) = Len(Base) + Len(pending)
         /\ \A i \in 1..Len(Base) : Body[i] = Base[i]
         /\ \A i \in 1..Len(pending) : Body[Len(Base) + i] = pending[i]
         /\ pc = "partial" => before \in 0..Len(disk[cur].data) /\ Len(Base) = before
<1>1. cur \in DOMAIN disk /\ cur \in segs /\ pending \in Seq(Frame) /\ before \in Nat
  BY DEF TypeOK
<1>2. cur \in Nat \ {0} /\ cur - 1 \in Nat /\ disk[cur].data \in Seq(Frame)
  BY <1>1, FileType
<1>3. Base \in Seq(Frame) /\ (pc = "partial" => Len(Base) = before)
  <2>1. CASE pc = "partial"
    <3>1. before \in 0..Len(disk[cur].data)
      BY <1>1, <1>2, <2>1 DEF Current
    <3>2. QED BY <3>1, <1>2, <2>1 DEF Base
  <2>2. CASE pc # "partial"
    BY <1>2, <2>2 DEF Base
  <2>3. QED BY <2>1, <2>2
<1>4. pc = "partial" => before \in 0..Len(disk[cur].data)
  BY <1>1, <1>2 DEF Current
<1>5. /\ Body \in Seq(Frame) /\ Len(Body) = Len(Base) + Len(pending)
      /\ \A i \in 1..Len(Base) : Body[i] = Base[i]
      /\ \A i \in 1..Len(pending) : Body[Len(Base) + i] = pending[i]
  BY <1>1, <1>3 DEF Body
<1>6. QED BY <1>1, <1>2, <1>3, <1>4, <1>5

\* The frames in the file are the front of Body, and chained like it.
LEMMA BaseChained ==
  ASSUME TypeOK, Current, open
  PROVE  Chained(Base, cur - 1) /\ Carries(Base, hist)
<1>1. Body \in Seq(Frame) /\ Base \in Seq(Frame) /\ cur - 1 \in Nat /\ Len(Base) <= Len(Body)
      /\ \A i \in 1..Len(Base) : Body[i] = Base[i]
  BY CurrentFile
<1>2. Chained(Body, cur - 1) /\ Carries(Body, hist)
  BY DEF Current
<1>3. Chained(Base, cur - 1)
  BY <1>1, <1>2, ChainedCut
<1>4. \A i \in 1..Len(Base) : i \in 1..Len(Body)
  BY <1>1
<1>5. QED BY <1>1, <1>2, <1>3, <1>4 DEF Carries

\* Only the newest file may differ from one state to the next without any other
\* file noticing.
LEMMA CurrentFileChanges ==
  ASSUME IInv, open, NEW f \in File, disk' = [disk EXCEPT ![cur] = f],
         UNCHANGED <<open, segs, shut, cur, nextSeq, hist>>,
         call' = call \/ call' = NoCall,
         "clean" \in {pc', resume'} => "clean" \in {pc, resume} /\ call' = call,
         Chained(f.data, cur - 1), TornEnd(f.data), Carries(f.data, hist),
         ~f.dropped, f.stable <= Len(f.data)
  PROVE  /\ DOMAIN disk' = DOMAIN disk /\ disk' \in [DOMAIN disk -> File]
         /\ disk'[cur] = f /\ \A s \in DOMAIN disk : s # cur => disk'[s] = disk[s]
         /\ \A s \in DOMAIN disk : disk'[s].stable <= Len(disk'[s].data)
         /\ FilesChained' /\ FilesLinked' /\ FilesSettled' /\ Directory' /\ Cleaning'
<1>1. cur \in DOMAIN disk /\ TypeOK /\ disk \in [DOMAIN disk -> File]
  BY CurrentFile DEF IInv, TypeOK
<1>2. /\ DOMAIN disk' = DOMAIN disk /\ disk' \in [DOMAIN disk -> File]
      /\ disk'[cur] = f /\ \A s \in DOMAIN disk : s # cur => disk'[s] = disk[s]
  BY <1>1
<1>3. \A s \in DOMAIN disk : disk'[s].stable <= Len(disk'[s].data)
  BY <1>1, <1>2, FileType
<1>4. FilesChained'
  <2>1. cur - 1 <= Len(hist) /\ Carries(f.data, hist')
    BY <1>1 DEF IInv, FilesChained, Carries
  <2>2. ASSUME NEW s \in DOMAIN disk, s # cur
        PROVE  /\ Chained(disk[s].data, s - 1) /\ TornEnd(disk[s].data)
               /\ s - 1 <= Len(hist) /\ Carries(disk[s].data, hist') /\ ~disk[s].dropped
    BY <2>2 DEF IInv, FilesChained, Carries
  <2>3. QED BY <1>2, <2>1, <2>2 DEF FilesChained, Carries
<1>5. \A s, t \in DOMAIN disk : s < t => s # cur
  BY <1>1, FileType DEF IInv, Directory, Newest
<1>6. FilesLinked'
  BY <1>1, <1>2, <1>5, FileType DEF IInv, FilesLinked, Adjacent
<1>7. FilesSettled'
  BY DEF FilesSettled
<1>8. Directory'
  BY <1>2 DEF IInv, Directory
<1>9. Cleaning'
  <2>1. CASE call' # call
    <3>1. call'.todo = {} /\ "clean" \notin {pc', resume'}
      BY <2>1 DEF NoCall
    <3>2. QED BY <3>1 DEF Cleaning
  <2>2. CASE call' = call
    <3>1. Old(call.mark)' = Old(call.mark)
      BY <2>2 DEF Old, EndSeq
    <3>2. QED BY <1>2, <2>2, <3>1 DEF IInv, Cleaning
  <2>3. QED BY <2>1, <2>2
<1>10. QED BY <1>2, <1>3, <1>4, <1>6, <1>7, <1>8, <1>9

-------------------------------------------------------------------------------
(* Steps that change nothing but the control of the call in progress.       *)
Resumes == {"idle", "create", "recover", "clean", "corrupt", "close"}

\* A step that moves only pc, resume and call keeps the invariant, if it keeps the
\* parts about them.
LEMMA ControlChanges ==
  ASSUME IInv, UNCHANGED <<disk, memory, history>>, pc # "partial", pc' # "partial",
         pc' \in Steps, resume' \in Resumes,
         resume' # "idle" => pc' \in {"write", "partial", "sync"},
         ~open => pc' = "idle",
         call' \in Call, call'.todo \subseteq segs \ {cur},
         Control', Cleaning'
  PROVE  IInv'
<1>1. /\ disk' = disk /\ open' = open /\ segs' = segs /\ shut' = shut /\ cur' = cur
      /\ pending' = pending /\ before' = before /\ index' = index /\ nextSeq' = nextSeq
      /\ durable' = durable /\ unsynced' = unsynced /\ hist' = hist /\ promised' = promised
  BY DEF memory, history
<1>2. TypeOK'
  BY <1>1 DEF IInv, TypeOK, Resumes
<1>3. Base' = Base /\ Body' = Body
  BY <1>1 DEF Base, Body
<1>4. FilesChained' /\ FilesLinked' /\ FilesSettled' /\ Directory'
  BY <1>1 DEF IInv, FilesChained, Carries, FilesLinked, FilesSettled, Directory
<1>5. Current'
  BY <1>1, <1>3 DEF IInv, Current, Carries
<1>6. Unsynced'
  BY <1>1, <1>3 DEF IInv, Unsynced
<1>7. Indexed'
  BY <1>1, <1>3 DEF IInv, Indexed, Logged
<1>8. QED BY <1>2, <1>4, <1>5, <1>6, <1>7 DEF IInv

\* The call of an idle WAL has its type and no work left.
LEMMA NoCallType == NoCall \in Call /\ NoCall.todo = {}
BY PartsAssumption DEF NoCall, Call

\* A flush begins.
LEMMA FlushStarts ==
  ASSUME IInv, Idle, NEW next \in Resumes \ {"corrupt"}, StartFlush(next),
         UNCHANGED <<disk, memory, history>>,
         call' \in Call, call'.todo \subseteq segs \ {cur}, Cleaning'
  PROVE  IInv'
<1>1. pending' = pending /\ unsynced' = unsynced /\ open' = open /\ open /\ pc = "idle"
  BY DEF memory, Idle
<1>2. unsynced \in Nat
  BY DEF IInv, TypeOK
<1>3. Control' /\ pc' # "partial" /\ pc' \in Steps /\ resume' \in Resumes
      /\ (resume' # "idle" => pc' \in {"write", "partial", "sync"})
  BY <1>1, <1>2 DEF StartFlush, Control, Steps, Resumes
<1>4. QED BY <1>1, <1>3, ControlChanges

\* A flush, or the step behind it, returns early.
LEMMA EarlyReturn ==
  ASSUME IInv, pc \notin {"idle", "partial"}, UNCHANGED <<disk, memory, history>>,
         Return \/ FlushFails
  PROVE  IInv'
<1>1. open /\ open' = open
  BY DEF IInv, TypeOK, memory
<1>2. pc' \in {"idle", "close"} /\ resume' = "idle" /\ call' = NoCall
  BY DEF Return, FlushFails
<1>3. Control'
  BY <1>1, <1>2 DEF Control
<1>4. Cleaning'
  BY <1>2, NoCallType DEF Cleaning
<1>5. pc' \in Steps /\ resume' \in Resumes
  BY <1>2 DEF Steps, Resumes
<1>6. QED BY <1>1, <1>2, <1>3, <1>4, <1>5, NoCallType, ControlChanges

\* Sync, the ticker, Recover and Close begin with a flush.
LEMMA SyncKeeps ==
  ASSUME IInv, Sync \/ PeriodicFlush \/ Recover \/ Close
  PROVE  IInv'
<1>1. PICK next \in Resumes \ {"corrupt", "clean"} : StartFlush(next)
  BY DEF Sync, PeriodicFlush, Recover, Close, Resumes
<1>2. Idle /\ call' = call /\ UNCHANGED <<disk, memory, history>>
  BY DEF Sync, PeriodicFlush, Recover, Close
<1>3. call \in Call /\ call.todo \subseteq segs \ {cur}
  BY DEF IInv, TypeOK
<1>4. "clean" \notin {pc', resume'}
  BY <1>1, <1>2 DEF StartFlush, Idle
<1>5. Cleaning'
  BY <1>2, <1>4 DEF IInv, Cleaning
<1>6. QED BY <1>1, <1>2, <1>3, <1>5, FlushStarts

\* rotateLocked begins with a flush.
LEMMA AppendRotatingKeeps ==
  ASSUME IInv, NEW p \in Payloads, NEW force \in BOOLEAN, AppendRotating(p, force)
  PROVE  IInv'
<1>1. StartFlush("create") /\ Idle /\ UNCHANGED <<disk, memory, history>>
  BY DEF AppendRotating
<1>2. call' \in Call /\ call'.todo = {}
  BY NoCallType DEF AppendRotating, Call
<1>3. "clean" \notin {pc', resume'}
  BY <1>1 DEF StartFlush, Idle
<1>4. Cleaning'
  BY <1>2, <1>3 DEF Cleaning
<1>5. QED BY <1>1, <1>2, <1>4, FlushStarts DEF Resumes

\* A creation, a write, an fsync or a recovery that fails changes no file and no memory.
LEMMA FailuresKeep ==
  ASSUME SoundEnvironment, IInv, CreateFails \/ WriteFails \/ SyncFails \/ RecoverFails
  PROVE  IInv'
<1>1. CASE CreateFails \/ WriteFails \/ RecoverFails
  BY <1>1, EarlyReturn DEF CreateFails, WriteFails, RecoverFails
<1>2. CASE SyncFails
  <2>1. open /\ cur \in DOMAIN disk /\ disk \in [DOMAIN disk -> File]
    BY <1>2 DEF IInv, TypeOK, SyncFails
  <2>2. disk[cur] \in File /\ disk[cur].dropped = FALSE
    BY <2>1 DEF IInv, FilesChained, File
  <2>3. [disk[cur] EXCEPT !.dropped = FALSE] = disk[cur]
    BY <2>2 DEF File
  <2>4. disk' = disk
    BY <1>2, <2>1, <2>2, <2>3 DEF SyncFails, SoundEnvironment
  <2>5. QED BY <1>2, <2>4, EarlyReturn DEF SyncFails
<1>3. QED BY <1>1, <1>2

-------------------------------------------------------------------------------
(* Steps of a flush that write, cut or sync the current file.               *)
LEMMA WritesFile ==
  ASSUME TypeOK, cur \in DOMAIN disk, NEW d \in Seq(Frame), Writes(d)
  PROVE  \E f \in File : /\ disk' = [disk EXCEPT ![cur] = f]
                         /\ f.data = d /\ f.stable = disk[cur].stable
                         /\ f.named = disk[cur].named /\ f.dropped = disk[cur].dropped
<1> DEFINE f == [disk[cur] EXCEPT !.data = d]
<1>1. disk[cur] \in File
  BY FileType
<1>2. f \in File /\ f.data = d /\ f.stable = disk[cur].stable
      /\ f.named = disk[cur].named /\ f.dropped = disk[cur].dropped
  BY <1>1 DEF File
<1>3. disk' = [disk EXCEPT ![cur] = f]
  BY DEF Writes
<1>4. QED BY <1>2, <1>3

\* The frames behind Base may change as long as Base and the buffer make Body.
LEMMA SameBody ==
  ASSUME IInv, open, cur \in DOMAIN disk,
         DOMAIN disk' = DOMAIN disk, \A s \in DOMAIN disk : s # cur => disk'[s] = disk[s],
         UNCHANGED <<open, cur, index, nextSeq, hist>>,
         Body' = Body, AllOk(Base'), Complete(Base', Len(Base')),
         pc' = "partial" => before' <= Len(disk'[cur].data)
  PROVE  Current' /\ Indexed'
<1>1. Current'
  BY DEF IInv, Current, Carries
<1>2. ASSUME NEW s \in DOMAIN disk PROVE Logged(s)' = Logged(s)
  BY <1>2 DEF Logged
<1>3. Indexed'
  <2>1. SUFFICES ASSUME NEW seq \in DOMAIN index
                 PROVE  /\ index[seq].seg <= seq /\ seq < nextSeq
                        /\ index[seq].seg \in DOMAIN disk
                             => LiesAt(Logged(index[seq].seg)', seq, index[seq])
    BY DEF Indexed
  <2>2. QED BY <1>2 DEF IInv, Indexed
<1>4. QED BY <1>1, <1>3

\* The buffer moves to the file: Base grows to Body.
LEMMA WriteAllKeeps ==
  ASSUME IInv, WriteAll \/ WriteRest
  PROVE  IInv'
<1>1. open /\ open' = open
  BY DEF IInv, TypeOK, WriteAll, WriteRest
<1>2. /\ cur \in DOMAIN disk /\ cur \in Nat \ {0} /\ cur - 1 \in Nat
      /\ Body \in Seq(Frame) /\ Base \in Seq(Frame) /\ pending \in Seq(Frame)
      /\ Len(Body) = Len(Base) + Len(pending)
      /\ \A i \in 1..Len(Base) : Body[i] = Base[i]
  BY <1>1, CurrentFile DEF IInv
<1>3. Writes(Body)
  BY DEF WriteAll, WriteRest, Body, Base
<1>4. PICK f \in File : /\ disk' = [disk EXCEPT ![cur] = f]
                        /\ f.data = Body /\ f.stable = disk[cur].stable
                        /\ f.named = disk[cur].named /\ f.dropped = disk[cur].dropped
  BY <1>2, <1>3, WritesFile DEF IInv
<1>5. /\ pending # <<>> /\ pc' = "sync" /\ resume' = resume /\ call' = call
      /\ pending' = <<>> /\ unsynced' = nextSeq - 1 /\ before' \in Nat
      /\ UNCHANGED <<segs, shut, cur, index, nextSeq, durable, hist, promised>>
  BY DEF WriteAll, WriteRest, IInv, Control, history, TypeOK
<1>6. Chained(Body, cur - 1) /\ Carries(Body, hist) /\ AllOk(Body) /\ Complete(Body, Len(Body))
      /\ LastSeqOf(Body, cur - 1) = nextSeq - 1
  BY <1>1 DEF IInv, Current
<1>7. ~f.dropped /\ f.stable <= Len(Base) /\ f.stable \in Nat
  BY <1>1, <1>2, <1>4, FileType DEF IInv, FilesChained, Unsynced
<1>8. TornEnd(f.data) /\ f.stable <= Len(f.data)
  BY <1>2, <1>4, <1>6, <1>7 DEF TornEnd, AllOk
<1>9. /\ DOMAIN disk' = DOMAIN disk /\ disk' \in [DOMAIN disk -> File]
      /\ disk'[cur] = f /\ \A s \in DOMAIN disk : s # cur => disk'[s] = disk[s]
      /\ \A s \in DOMAIN disk : disk'[s].stable <= Len(disk'[s].data)
      /\ FilesChained' /\ FilesLinked' /\ FilesSettled' /\ Directory' /\ Cleaning'
  BY <1>1, <1>4, <1>5, <1>6, <1>7, <1>8, CurrentFileChanges DEF WriteAll, WriteRest
<1>10. Base' = Body /\ Body' = Body
  <2>1. Base' = disk'[cur].data
    BY <1>5 DEF Base
  <2>2. Base' = Body
    BY <1>4, <1>9, <2>1
  <2>3. Body' = Base' \o <<>>
    BY <1>5 DEF Body
  <2>4. QED BY <1>2, <2>2, <2>3
<1>11. Current' /\ Indexed'
  BY <1>1, <1>2, <1>5, <1>6, <1>9, <1>10, SameBody
<1>12. nextSeq \in Nat \ {0} /\ nextSeq - 1 > 0
  <2>1. Len(Body) \in 1..Len(Body)
    BY <1>2, <1>5
  <2>2. cur - 1 < Body[Len(Body)].seq /\ LastSeqOf(Body, cur - 1) = Body[Len(Body)].seq
    BY <1>2, <1>6, <2>1, LastFrame
  <2>3. QED BY <1>2, <1>6, <2>1, <2>2, FrameTypes DEF IInv, TypeOK
<1>13. TypeOK'
  <2>1. DOMAIN disk' \subseteq Nat \ {0} /\ disk' \in [DOMAIN disk' -> File]
        /\ \A s \in DOMAIN disk' : disk'[s].stable <= Len(disk'[s].data)
    BY <1>9 DEF IInv, TypeOK
  <2>2. pc' \in Steps
    BY <1>5 DEF Steps
  <2>3. QED BY <1>1, <1>5, <1>9, <1>12, <2>1, <2>2 DEF IInv, TypeOK
<1>14. Unsynced'
  <2>1. /\ disk'[cur].stable = disk[cur].stable /\ disk'[cur].named = disk[cur].named
        /\ cur' = cur /\ nextSeq' = nextSeq /\ durable' = durable
    BY <1>4, <1>5, <1>9
  <2>2. /\ durable < nextSeq
        /\ \A i \in 1..Len(Body) :
             Body[i].seq <= durable => i <= disk[cur].stable /\ disk[cur].named
    BY <1>1 DEF IInv, Unsynced
  <2>3. disk[cur].stable <= Len(Body)
    BY <1>4, <1>8
  <2>4. unsynced' = LastSeqOf(Body, cur - 1) /\ unsynced' # 0
    BY <1>5, <1>6, <1>12
  <2>5. QED BY <1>10, <2>1, <2>2, <2>3, <2>4 DEF Unsynced
<1>15. Control'
  BY <1>1, <1>5, <1>12 DEF IInv, Control
<1>16. QED BY <1>9, <1>11, <1>13, <1>14, <1>15 DEF IInv

\* A partial write puts a front of the buffer behind Base.  The file then holds a rest of
\* what the whole write would leave, with the frames it had in front.
LEMMA PartIsRest ==
  ASSUME IInv, NEW k \in 0..Len(pending), NEW torn \in BOOLEAN, WritePart(k, torn)
  PROVE  LET w == disk[cur].data \o SubSeq(pending, 1, k)
                    \o IF torn THEN <<[pending[k+1] EXCEPT !.kind = "torn"]>> ELSE <<>>
         IN  /\ Writes(w) /\ RestOf(w, Body) /\ Len(disk[cur].data) <= Len(w)
             /\ \A i \in 1..Len(disk[cur].data) : w[i] = Body[i]
             /\ SubSeq(w, 1, Len(disk[cur].data)) = disk[cur].data
<1> DEFINE d == disk[cur].data
           n == Len(d)
           w == d \o SubSeq(pending, 1, k)
                  \o IF torn THEN <<[pending[k+1] EXCEPT !.kind = "torn"]>> ELSE <<>>
<1>1. open /\ pc = "write" /\ k < Len(pending) /\ Writes(w)
  BY DEF IInv, TypeOK, WritePart
<1>2. /\ Body \in Seq(Frame) /\ Base \in Seq(Frame) /\ pending \in Seq(Frame)
      /\ Len(Body) = Len(Base) + Len(pending)
      /\ \A i \in 1..Len(Base) : Body[i] = Base[i]
  BY <1>1, CurrentFile DEF IInv
<1>3. Base = d /\ Body = d \o pending /\ n \in Nat
  BY <1>1, <1>2 DEF Base, Body
<1>4. AllOk(Body) /\ TornEnd(Body)
  BY <1>1 DEF IInv, Current, AllOk, TornEnd
<1> DEFINE m == n + k
<1>5. m \in 0..Len(Body) - 1 /\ m \in 0..Len(Body) /\ n <= m
  BY <1>1, <1>2, <1>3
<1>6. w = IF torn THEN TornAt(Body, m) ELSE CutTo(Body, m)
  <2>1. /\ d \in Seq(Frame)
        /\ d \o SubSeq(pending, 1, k) \o <<>> = CutTo(d \o pending, Len(d) + k)
        /\ d \o SubSeq(pending, 1, k) \o <<[pending[k+1] EXCEPT !.kind = "torn"]>>
             = TornAt(d \o pending, Len(d) + k)
    <3>1. d \in Seq(Frame) /\ pending \in Seq(Frame) /\ k \in 0..Len(pending) /\ k < Len(pending)
      BY <1>1, <1>2, <1>3
    <3> HIDE DEF d
    <3>2. QED BY <3>1, PartialWrite
  <2>2. QED BY <1>3, <2>1, Zenon
<1> HIDE DEF w, m
<1>7. /\ RestOf(w, Body) /\ n <= Len(w) /\ \A i \in 1..n : w[i] = Body[i]
  <2>1. CASE torn
    <3>1. RestOf(w, Body) /\ Len(w) = m + 1 /\ \A i \in 1..m : w[i] = Body[i]
      BY <1>2, <1>4, <1>5, <1>6, <2>1, TornAtRest
    <3>2. QED BY <1>3, <1>5, <3>1
  <2>2. CASE ~torn
    <3>1. RestOf(w, Body) /\ Len(w) = m /\ \A i \in 1..m : w[i] = Body[i]
      BY <1>2, <1>4, <1>5, <1>6, <2>2, CutToRest
    <3>2. QED BY <1>3, <1>5, <3>1
  <2>3. QED BY <2>1, <2>2
<1>8. SubSeq(w, 1, n) = d
  <2> DEFINE c == SubSeq(w, 1, n)
  <2>1. w \in Seq(Frame) /\ n \in 0..Len(w)
    BY <1>3, <1>7 DEF RestOf
  <2>2. c \in Seq(Frame) /\ Len(c) = n /\ \A i \in 1..n : c[i] = w[i]
    BY <2>1
  <2>3. \A i \in 1..n : w[i] = d[i]
    BY <1>2, <1>3, <1>7
  <2>4. d \in Seq(Frame) /\ c \in Seq(Frame) /\ Len(c) = Len(d) /\ \A i \in 1..Len(d) : c[i] = d[i]
    BY <1>2, <1>3, <2>2, <2>3
  <2> HIDE DEF c, d
  <2>5. c = d
    BY <2>4, SeqEqual
  <2>6. QED BY <2>5 DEF c
<1>9. QED BY <1>1, <1>7, <1>8 DEF w

LEMMA WritePartKeeps ==
  ASSUME IInv, NEW k \in 0..Len(pending), NEW torn \in BOOLEAN, WritePart(k, torn)
  PROVE  IInv'
<1> DEFINE d == disk[cur].data
           n == Len(d)
           w == d \o SubSeq(pending, 1, k)
                  \o IF torn THEN <<[pending[k+1] EXCEPT !.kind = "torn"]>> ELSE <<>>
<1>1. open /\ open' = open /\ pc = "write" /\ pc' = "partial" /\ before' = n
      /\ UNCHANGED <<segs, shut, cur, pending, index, nextSeq, durable, unsynced,
                     resume, call, hist, promised>>
      /\ k < Len(pending) /\ pending # <<>>
  BY DEF IInv, TypeOK, WritePart, history, Control
<1>2. /\ cur \in DOMAIN disk /\ cur \in Nat \ {0} /\ cur - 1 \in Nat
      /\ Body \in Seq(Frame) /\ Base \in Seq(Frame) /\ pending \in Seq(Frame)
      /\ Len(Body) = Len(Base) + Len(pending)
      /\ \A i \in 1..Len(Base) : Body[i] = Base[i]
  BY <1>1, CurrentFile DEF IInv
<1>3. Base = d /\ Body = d \o pending /\ n \in Nat
  BY <1>1, <1>2 DEF Base, Body
<1>4. Chained(Body, cur - 1) /\ Carries(Body, hist) /\ AllOk(Body)
  BY <1>1 DEF IInv, Current
<1>5. /\ Writes(w) /\ RestOf(w, Body) /\ n <= Len(w) /\ \A i \in 1..n : w[i] = Body[i]
      /\ SubSeq(w, 1, n) = d
  BY PartIsRest
<1> HIDE DEF w
<1>6. w \in Seq(Frame) /\ TornEnd(w) /\ Chained(w, cur - 1) /\ Carries(w, hist)
  <2>1. Chained(w, cur - 1) /\ w \in Seq(Frame) /\ TornEnd(w)
    BY <1>2, <1>4, <1>5, RestChained DEF RestOf
  <2>2. Len(w) <= Len(Body) /\ w \in Seq(Frame)
        /\ \A i \in 1..Len(w) : w[i].seq = Body[i].seq /\ w[i].payload = Body[i].payload
    BY <1>5 DEF RestOf
  <2>3. \A i \in 1..Len(w) : i \in 1..Len(Body)
    BY <1>2, <2>2
  <2>4. Carries(w, hist)
    BY <1>4, <2>2, <2>3 DEF Carries
  <2>5. QED BY <2>1, <2>4
<1>7. PICK f \in File : /\ disk' = [disk EXCEPT ![cur] = f]
                        /\ f.data = w /\ f.stable = disk[cur].stable
                        /\ f.named = disk[cur].named /\ f.dropped = disk[cur].dropped
  BY <1>1, <1>2, <1>5, <1>6, WritesFile DEF IInv
<1>8. ~f.dropped /\ f.stable <= n /\ f.stable <= Len(f.data)
  BY <1>1, <1>2, <1>3, <1>5, <1>6, <1>7, FileType DEF IInv, FilesChained, Unsynced
<1>9. /\ DOMAIN disk' = DOMAIN disk /\ disk' \in [DOMAIN disk -> File]
      /\ disk'[cur] = f /\ \A s \in DOMAIN disk : s # cur => disk'[s] = disk[s]
      /\ \A s \in DOMAIN disk : disk'[s].stable <= Len(disk'[s].data)
      /\ FilesChained' /\ FilesLinked' /\ FilesSettled' /\ Directory' /\ Cleaning'
  BY <1>1, <1>6, <1>7, <1>8, CurrentFileChanges
<1>10. Base' = Base /\ Body' = Body
  <2>1. Base' = SubSeq(w, 1, n)
    BY <1>1, <1>7, <1>9 DEF Base
  <2>2. QED BY <1>1, <1>3, <1>5, <2>1 DEF Body
<1>11. Current' /\ Indexed'
  <2>1. AllOk(Base') /\ Complete(Base', Len(Base')) /\ before' <= Len(disk'[cur].data)
    BY <1>1, <1>5, <1>7, <1>9, <1>10 DEF IInv, Current
  <2>2. QED BY <1>1, <1>2, <1>9, <1>10, <2>1, SameBody
<1>12. TypeOK'
  <2>1. /\ DOMAIN disk' \subseteq Nat \ {0} /\ disk' \in [DOMAIN disk' -> File]
        /\ \A s \in DOMAIN disk' : disk'[s].stable <= Len(disk'[s].data)
        /\ segs' \ shut' \subseteq DOMAIN disk'
    BY <1>1, <1>9 DEF IInv, TypeOK
  <2>2. pc' \in Steps /\ before' \in Nat
    BY <1>1, <1>3 DEF Steps
  <2>3. QED BY <1>1, <2>1, <2>2 DEF IInv, TypeOK
<1>13. Unsynced'
  BY <1>1, <1>2, <1>3, <1>7, <1>9, <1>10 DEF IInv, Unsynced
<1>14. Control'
  BY <1>1 DEF IInv, Control
<1>15. FilesChained' /\ FilesLinked' /\ FilesSettled' /\ Directory' /\ Cleaning'
  BY <1>9
<1>16. QED BY <1>11, <1>12, <1>13, <1>14, <1>15 DEF IInv

\* The rollback of a partial write restores Base and keeps the buffer.
LEMMA RollbackKeeps ==
  ASSUME IInv, Rollback
  PROVE  IInv'
<1>1. /\ open /\ open' = open /\ pc = "partial" /\ before' = 0 /\ pc' \in {"idle", "close"}
      /\ resume' = "idle" /\ call' = NoCall /\ Writes(Base)
      /\ UNCHANGED <<segs, shut, cur, pending, index, nextSeq, durable, unsynced,
                     hist, promised>>
  BY DEF IInv, TypeOK, Rollback, history, FlushFails, Base
<1>2. /\ cur \in DOMAIN disk /\ cur \in Nat \ {0} /\ cur - 1 \in Nat
      /\ Base \in Seq(Frame) /\ pending \in Seq(Frame)
  BY <1>1, CurrentFile DEF IInv
<1>3. Chained(Base, cur - 1) /\ Carries(Base, hist) /\ AllOk(Base) /\ TornEnd(Base)
  BY <1>1, BaseChained DEF IInv, Current, AllOk, TornEnd
<1>4. PICK f \in File : /\ disk' = [disk EXCEPT ![cur] = f]
                        /\ f.data = Base /\ f.stable = disk[cur].stable
                        /\ f.named = disk[cur].named /\ f.dropped = disk[cur].dropped
  BY <1>1, <1>2, WritesFile DEF IInv
<1>5. ~f.dropped /\ f.stable <= Len(f.data)
  BY <1>1, <1>2, <1>4 DEF IInv, FilesChained, Unsynced
<1>6. /\ DOMAIN disk' = DOMAIN disk /\ disk' \in [DOMAIN disk -> File]
      /\ disk'[cur] = f /\ \A s \in DOMAIN disk : s # cur => disk'[s] = disk[s]
      /\ \A s \in DOMAIN disk : disk'[s].stable <= Len(disk'[s].data)
      /\ FilesChained' /\ FilesLinked' /\ FilesSettled' /\ Directory' /\ Cleaning'
  BY <1>1, <1>3, <1>4, <1>5, CurrentFileChanges
<1>7. Base' = Base /\ Body' = Body
  <2>1. Base' = disk'[cur].data
    BY <1>1 DEF Base
  <2>2. QED BY <1>1, <1>4, <1>6, <2>1 DEF Body
<1>8. Current' /\ Indexed'
  <2>1. AllOk(Base') /\ Complete(Base', Len(Base')) /\ pc' # "partial"
    BY <1>1, <1>7 DEF IInv, Current
  <2>2. QED BY <1>1, <1>2, <1>6, <1>7, <2>1, SameBody
<1>9. TypeOK'
  BY <1>1, <1>6, NoCallType DEF IInv, TypeOK, Steps
<1>10. Unsynced'
  BY <1>1, <1>4, <1>6, <1>7 DEF IInv, Unsynced
<1>11. Control'
  BY <1>1 DEF IInv, Control
<1>12. QED BY <1>6, <1>8, <1>9, <1>10, <1>11 DEF IInv

\* A file whose pages are all still there is stable once it is synced.
LEMMA SyncedFile ==
  ASSUME SoundEnvironment, NEW g \in File, ~g.dropped
  PROVE  /\ Synced(g) \in File /\ Synced(g).data = g.data
         /\ Synced(g).stable = Len(g.data) /\ Synced(g).stable <= Len(g.data)
         /\ Synced(g).named /\ ~Synced(g).dropped
<1> DEFINE n == Len(g.data)
           f == Synced(g)
<1>1. g.data \in Seq(Frame) /\ n \in Nat /\ g.dropped = FALSE
  BY DEF File
<1>2. f = [g EXCEPT !.stable = n, !.named = TRUE]
  <2>1. (g.named \/ SyncNamesFile) = TRUE
    BY DEF SoundEnvironment
  <2>2. f = [g EXCEPT !.stable = IF FALSE THEN g.stable ELSE n, !.named = TRUE]
    BY <1>1, <2>1, Zenon DEF Synced
  <2>3. QED BY <2>2
<1> HIDE DEF f, n
<1>3. /\ f \in File /\ f.data = g.data /\ f.stable = n /\ f.named
      /\ f.dropped = g.dropped
  BY <1>1, <1>2 DEF File
<1>4. QED BY <1>1, <1>3 DEF f, n

\* An fsync confirms every frame of the current segment.
LEMMA SyncFileKeeps ==
  ASSUME SoundEnvironment, IInv, SyncFile
  PROVE  IInv'
<1> DEFINE f == Synced(disk[cur])
<1>1. /\ open /\ open' = open /\ pc = "sync" /\ pc' = resume /\ resume' = "idle"
      /\ pending = <<>> /\ unsynced > 0 /\ durable' = unsynced /\ unsynced' = 0
      /\ call' = call /\ disk' = [disk EXCEPT ![cur] = f]
      /\ UNCHANGED <<segs, shut, cur, pending, before, index, nextSeq, hist>>
  BY DEF IInv, TypeOK, SyncFile, Control
<1>2. /\ cur \in DOMAIN disk /\ cur \in Nat \ {0} /\ cur - 1 \in Nat
      /\ Base \in Seq(Frame) /\ Body \in Seq(Frame)
      /\ Len(Body) = Len(Base) + Len(pending)
      /\ unsynced \in Nat /\ resume \in Resumes /\ disk[cur] \in File
  BY <1>1, CurrentFile, FileType DEF IInv, TypeOK, Resumes
<1>3. Base = disk[cur].data /\ Body = Base
  BY <1>1, <1>2 DEF Base, Body
<1>4. /\ f \in File /\ f.data = disk[cur].data /\ f.stable = Len(f.data) /\ f.named
      /\ ~f.dropped /\ f.stable <= Len(f.data)
  <2>1. ~disk[cur].dropped /\ disk[cur].data \in Seq(Frame)
    BY <1>2 DEF IInv, FilesChained, File
  <2>2. QED BY <1>2, <2>1, SyncedFile
<1> HIDE DEF f
<1>5. Chained(f.data, cur - 1) /\ Carries(f.data, hist) /\ TornEnd(f.data)
  BY <1>2, <1>4 DEF IInv, FilesChained
<1>6. /\ DOMAIN disk' = DOMAIN disk /\ disk' \in [DOMAIN disk -> File]
      /\ disk'[cur] = f /\ \A s \in DOMAIN disk : s # cur => disk'[s] = disk[s]
      /\ \A s \in DOMAIN disk : disk'[s].stable <= Len(disk'[s].data)
      /\ FilesChained' /\ FilesLinked' /\ FilesSettled' /\ Directory' /\ Cleaning'
  BY <1>1, <1>2, <1>4, <1>5, CurrentFileChanges
<1>7. pc' # "partial" /\ Base' = Base /\ Body' = Body
  <2>1. pc' # "partial"
    BY <1>1, <1>2 DEF Resumes
  <2>2. Base' = f.data
    BY <1>1, <1>6, <2>1 DEF Base
  <2>3. QED BY <1>1, <1>3, <1>4, <2>1, <2>2 DEF Body
<1>8. Current' /\ Indexed'
  <2>1. AllOk(Base') /\ Complete(Base', Len(Base'))
    BY <1>1, <1>7 DEF IInv, Current
  <2>2. QED BY <1>1, <1>2, <1>6, <1>7, <2>1, SameBody
<1>9. TypeOK'
  BY <1>1, <1>2, <1>6 DEF IInv, TypeOK, Steps, Resumes, SyncFile
<1>10. unsynced = nextSeq - 1
  BY <1>1, <1>2, <1>3 DEF IInv, Unsynced, Current
<1>11. Unsynced'
  BY <1>1, <1>2, <1>3, <1>4, <1>6, <1>7, <1>10 DEF IInv, TypeOK, Unsynced
<1>12. Control'
  BY <1>1, <1>2 DEF IInv, Control, Resumes
<1>13. QED BY <1>6, <1>8, <1>9, <1>11, <1>12 DEF IInv

-------------------------------------------------------------------------------
(* Appends.                                                                 *)
LEMMA CarriesMore ==
  ASSUME NEW log \in Seq(Payloads), NEW p \in Payloads, NEW d \in Seq(Frame), Carries(d, log)
  PROVE  Carries(d, Append(log, p))
<1>1. \A i \in 1..Len(d) : d[i].seq \in 1..Len(log)
  BY FrameTypes DEF Carries
<1>2. Len(Append(log, p)) = Len(log) + 1 /\ \A q \in 1..Len(log) : Append(log, p)[q] = log[q]
  OBVIOUS
<1>3. QED BY <1>1, <1>2 DEF Carries

\* The frames and the location of the next record in a segment d.
LEMMA RecordJoins ==
  ASSUME NEW log \in Seq(Payloads), NEW base \in Nat, NEW d \in Seq(Frame),
         Chained(d, base), AllOk(d), Complete(d, Len(d)), Carries(d, log),
         LastSeqOf(d, base) = Len(log), NEW p \in Payloads
  PROVE  LET seq == Len(log) + 1
             e   == d \o Fragments(seq, p)
         IN  /\ e \in Seq(Frame) /\ Len(e) = Len(d) + Parts[p]
             /\ \A i \in 1..Len(d) : e[i] = d[i]
             /\ \A i \in 1..Len(e) : i \in 1..Len(d) \/ e[i].seq = seq
             /\ Chained(e, base) /\ AllOk(e) /\ Complete(e, Len(e))
             /\ Carries(e, Append(log, p)) /\ LastSeqOf(e, base) = seq
             /\ \A seg : LiesAt(e, seq, [seg |-> seg, off |-> Len(d), n |-> Parts[p]])
<1> DEFINE seq == Len(log) + 1
           g == Fragments(seq, p)
           e == d \o g
<1>1. seq \in Nat \ {0}
  OBVIOUS
<1>2. /\ e \in Seq(Frame) /\ Len(e) = Len(d) + Parts[p]
      /\ \A i \in 1..Len(d) : e[i] = d[i]
      /\ \A k \in 1..Parts[p] : e[Len(d) + k] = g[k]
      /\ Chained(e, base) /\ Complete(e, Len(e)) /\ LastSeqOf(e, base) = seq
  <2> DEFINE t == LastSeqOf(d, base) + 1
             c == d \o Fragments(t, p)
  <2>1. /\ c \in Seq(Frame) /\ Len(c) = Len(d) + Parts[p]
        /\ \A i \in 1..Len(d) : c[i] = d[i]
        /\ \A k \in 1..Parts[p] : c[Len(d) + k] = Fragments(t, p)[k]
        /\ Chained(c, base) /\ Complete(c, Len(c)) /\ LastSeqOf(c, base) = t
    BY ChainedAppend
  <2>2. t = seq
    OBVIOUS
  <2> HIDE DEF t, seq
  <2>3. QED BY <2>1, <2>2
<1>3. /\ g \in Seq(Frame) /\ Len(g) = Parts[p] /\ Parts[p] \in Nat \ {0}
      /\ \A k \in 1..Parts[p] :
           g[k] = [seq |-> seq, part |-> k, payload |-> p, kind |-> "ok"]
  BY <1>1, FragmentsShape
<1> HIDE DEF g, e
<1>4. ASSUME NEW i \in 1..Len(e), i \notin 1..Len(d)
      PROVE  e[i].seq = seq /\ e[i].payload = p /\ e[i].kind = "ok"
  <2>1. i - Len(d) \in 1..Parts[p] /\ Len(d) + (i - Len(d)) = i
    BY <1>2, <1>3, <1>4
  <2>2. e[Len(d) + (i - Len(d))] = [seq |-> seq, part |-> i - Len(d), payload |-> p, kind |-> "ok"]
    BY <1>2, <1>3, <2>1
  <2>3. QED BY <2>1, <2>2
<1>5. AllOk(e)
  BY <1>2, <1>4 DEF AllOk
<1>6. Carries(e, Append(log, p))
  <2>1. Carries(d, Append(log, p))
    BY CarriesMore
  <2>2. Len(Append(log, p)) = seq /\ Append(log, p)[seq] = p
    OBVIOUS
  <2> DEFINE h == Append(log, p)
  <2> HIDE DEF h, seq
  <2>3. SUFFICES ASSUME NEW i \in 1..Len(e)
                 PROVE  e[i].seq <= Len(h) /\ e[i].payload = h[e[i].seq]
    BY DEF Carries, h
  <2>4. CASE i \in 1..Len(d)
    BY <1>2, <2>1, <2>4 DEF Carries, h
  <2>5. CASE i \notin 1..Len(d)
    BY <1>1, <1>4, <2>2, <2>5 DEF h
  <2>6. QED BY <2>4, <2>5
<1>7. ASSUME NEW seg PROVE LiesAt(e, seq, [seg |-> seg, off |-> Len(d), n |-> Parts[p]])
  <2>1. 1 \in 1..Parts[p] /\ Parts[p] \in 1..Parts[p]
    BY <1>3
  <2>2. /\ e[Len(d) + 1].seq = seq /\ e[Len(d) + 1].part = 1
        /\ e[Len(d) + Parts[p]].seq = seq /\ e[Len(d) + Parts[p]].part = Parts[p]
        /\ e[Len(d) + Parts[p]].payload = p
    <3>1. e[Len(d) + 1] = g[1] /\ e[Len(d) + Parts[p]] = g[Parts[p]]
      BY <1>2, <2>1
    <3>2. /\ g[1] = [seq |-> seq, part |-> 1, payload |-> p, kind |-> "ok"]
          /\ g[Parts[p]] = [seq |-> seq, part |-> Parts[p], payload |-> p, kind |-> "ok"]
      BY <1>3, <2>1
    <3> HIDE DEF seq
    <3>3. QED BY <3>1, <3>2
  <2>3. Len(d) + Parts[p] <= Len(e)
    BY <1>2, <1>3
  <2>4. QED BY <2>2, <2>3 DEF LiesAt, FlagFirst, FlagLast
<1>8. \A i \in 1..Len(e) : i \in 1..Len(d) \/ e[i].seq = seq
  BY <1>4
<1>9. QED BY <1>2, <1>5, <1>6, <1>7, <1>8 DEF e, g

\* The buffer is put behind the file before or after a record joins it: no matter.
LEMMA FramesConcat ==
  ASSUME NEW s \in Seq(Frame), NEW t \in Seq(Frame), NEW u \in Seq(Frame)
  PROVE  (s \o t) \o u = s \o (t \o u)
BY ConcatAssociative

\* A record joins the buffer and the index.
LEMMA BufferKeeps ==
  ASSUME IInv, open, pc \in {"idle", "put"}, NEW p \in Payloads, NEW force \in BOOLEAN,
         Buffer(p, force)
  PROVE  IInv'
<1> DEFINE g == Fragments(nextSeq, p)
           b == Body \o g
           h == Append(hist, p)
           loc == [seg |-> cur, off |-> Len(disk[cur].data) + Len(pending), n |-> Parts[p]]
<1>1. /\ pending' = pending \o g /\ nextSeq' = nextSeq + 1 /\ hist' = h
      /\ pc' \in {"idle", "write"} /\ resume' = "idle" /\ call' = NoCall
      /\ UNCHANGED <<disk, open, segs, shut, cur, before, durable, unsynced, promised>>
  BY DEF Buffer
<1>2. /\ cur \in DOMAIN disk /\ cur \in Nat \ {0} /\ cur - 1 \in Nat
      /\ Base \in Seq(Frame) /\ pending \in Seq(Frame) /\ Body \in Seq(Frame)
      /\ Len(Body) = Len(Base) + Len(pending)
      /\ nextSeq \in Nat \ {0} /\ hist \in Seq(Payloads)
      /\ durable \in Nat
  BY CurrentFile DEF IInv, TypeOK
<1>3. /\ Chained(Body, cur - 1) /\ AllOk(Body) /\ Complete(Body, Len(Body))
      /\ Carries(Body, hist) /\ LastSeqOf(Body, cur - 1) = Len(hist) /\ nextSeq = Len(hist) + 1
  BY <1>2 DEF IInv, Current
<1>4. Base' = Base /\ Base = disk[cur].data /\ Body' = b
  <2>1. Base' = Base /\ Base = disk[cur].data
    BY <1>1 DEF Base
  <2>2. Body' = Base \o (pending \o g)
    <3>1. pending' = pending \o g
      BY <1>1
    <3>2. QED BY <2>1, <3>1, Zenon DEF Body
  <2>3. g \in Seq(Frame)
    BY <1>2, FragmentsShape
  <2>4. (Base \o pending) \o g = Base \o (pending \o g)
    <3> HIDE DEF g
    <3>1. Base \in Seq(Frame) /\ pending \in Seq(Frame)
      BY <1>2
    <3>2. QED BY <2>3, <3>1, FramesConcat
  <2>5. QED BY <2>1, <2>2, <2>4 DEF Body
<1>5. /\ b \in Seq(Frame) /\ Len(b) = Len(Body) + Parts[p]
      /\ \A i \in 1..Len(Body) : b[i] = Body[i]
      /\ \A i \in 1..Len(b) : i \in 1..Len(Body) \/ b[i].seq = nextSeq
      /\ Chained(b, cur - 1) /\ AllOk(b) /\ Complete(b, Len(b))
      /\ Carries(b, h) /\ LastSeqOf(b, cur - 1) = nextSeq
      /\ LiesAt(b, nextSeq, [seg |-> cur, off |-> Len(Body), n |-> Parts[p]])
  <2> DEFINE seq == Len(hist) + 1
             e   == Body \o Fragments(seq, p)
  <2>1. /\ e \in Seq(Frame) /\ Len(e) = Len(Body) + Parts[p]
        /\ \A i \in 1..Len(Body) : e[i] = Body[i]
        /\ \A i \in 1..Len(e) : i \in 1..Len(Body) \/ e[i].seq = seq
        /\ Chained(e, cur - 1) /\ AllOk(e) /\ Complete(e, Len(e))
        /\ Carries(e, h) /\ LastSeqOf(e, cur - 1) = seq
        /\ \A seg : LiesAt(e, seq, [seg |-> seg, off |-> Len(Body), n |-> Parts[p]])
    BY <1>2, <1>3, RecordJoins
  <2>2. nextSeq = seq
    BY <1>3
  <2>3. b = e
    BY <2>2
  <2> HIDE DEF seq, e, b, h
  <2>4. QED BY <2>1, <2>2, <2>3
<1>6. Parts[p] \in Nat \ {0} /\ g \in Seq(Frame) /\ Len(g) = Parts[p]
  BY <1>2, FragmentsShape
<1>7. /\ loc \in Location /\ loc.seg = cur /\ LiesAt(b, nextSeq, loc)
      /\ DOMAIN index' = DOMAIN index \cup {nextSeq} /\ index'[nextSeq] = loc
      /\ \A q \in DOMAIN index : q # nextSeq => index'[q] = index[q]
      /\ index' = [q \in DOMAIN index' |-> index'[q]]
  <2>1. Len(disk[cur].data) + Len(pending) = Len(Body) /\ Len(Body) \in Nat
    BY <1>2, <1>4
  <2>2. loc = [seg |-> cur, off |-> Len(Body), n |-> Parts[p]]
    BY <2>1
  <2>3. loc \in Location /\ loc.seg = cur /\ LiesAt(b, nextSeq, loc)
    BY <1>2, <1>5, <1>6, <2>1, <2>2 DEF Location
  <2>4. index' = [q \in DOMAIN index \cup {nextSeq} |-> IF q = nextSeq THEN loc ELSE index[q]]
    BY DEF Buffer
  <2> HIDE DEF loc
  <2>5. QED BY <2>3, <2>4
<1> HIDE DEF g, b, h, loc
<1>8. h \in Seq(Payloads) /\ Len(h) = Len(hist) + 1
  BY <1>2 DEF h
<1>9. FilesChained' /\ FilesLinked' /\ FilesSettled' /\ Directory'
  <2>1. ASSUME NEW s \in DOMAIN disk
        PROVE  /\ Chained(disk[s].data, s - 1) /\ TornEnd(disk[s].data)
               /\ s - 1 <= Len(h) /\ Carries(disk[s].data, h) /\ ~disk[s].dropped
    <3>1. disk[s].data \in Seq(Frame) /\ s - 1 \in Nat
      BY FileType DEF IInv
    <3>2. Carries(disk[s].data, h)
      BY <1>2, <3>1, CarriesMore DEF IInv, FilesChained, h
    <3>3. s - 1 <= Len(h)
      BY <1>2, <1>8, <3>1 DEF IInv, FilesChained
    <3>4. QED BY <3>2, <3>3 DEF IInv, FilesChained
  <2>2. FilesChained'
    BY <1>1, <2>1 DEF FilesChained
  <2>3. QED BY <1>1, <2>2 DEF IInv, FilesLinked, FilesSettled, Directory
<1>10. Cleaning'
  BY <1>1, NoCallType DEF Cleaning
<1>11. Current'
  <2>1. nextSeq' = Len(h) + 1 /\ LastSeqOf(b, cur - 1) = nextSeq' - 1
    BY <1>1, <1>2, <1>3, <1>5, <1>8
  <2>2. pc' # "partial"
    BY <1>1
  <2>3. QED BY <1>1, <1>4, <1>5, <2>1, <2>2 DEF IInv, Current
<1>12. Unsynced'
  <2>1. \A i \in 1..Len(b) :
          b[i].seq <= durable => i <= disk[cur].stable /\ disk[cur].named
    <3>1. durable < nextSeq /\ \A i \in 1..Len(Body) :
            Body[i].seq <= durable => i <= disk[cur].stable /\ disk[cur].named
      BY DEF IInv, Unsynced
    <3>2. SUFFICES ASSUME NEW i \in 1..Len(b), b[i].seq <= durable
                   PROVE  i <= disk[cur].stable /\ disk[cur].named
      OBVIOUS
    <3>3. i \in 1..Len(Body) /\ b[i] = Body[i]
      <4>1. b[i].seq # nextSeq
        BY <1>2, <3>1, <3>2
      <4>2. QED BY <1>5, <4>1
    <3>4. QED BY <3>1, <3>2, <3>3
  <2>2. durable < nextSeq + 1
    BY <1>2 DEF IInv, Unsynced
  <2>3. QED BY <1>1, <1>4, <2>1, <2>2 DEF IInv, Unsynced
<1>13. Control'
  <2>1. pending' # <<>>
    BY <1>1, <1>2, <1>6
  <2>2. QED BY <1>1, <2>1 DEF Control
<1>14. cur <= nextSeq
  <2>1. cur - 1 <= Len(hist)
    BY <1>2, <1>3, LastSeqType
  <2>2. QED BY <1>2, <1>3, <2>1
<1>15. DOMAIN index \subseteq Nat \ {0} /\ \A q \in DOMAIN index : index[q] \in Location
  BY DEF IInv, TypeOK
<1> DEFINE L(t) == IF t = cur THEN b ELSE disk[t].data
<1>16. ASSUME NEW q \in DOMAIN index'
       PROVE  /\ index'[q].seg <= q /\ q < nextSeq'
              /\ index'[q].seg \in DOMAIN disk => LiesAt(L(index'[q].seg), q, index'[q])
  <2>1. CASE q = nextSeq
    BY <1>1, <1>2, <1>7, <1>14, <2>1
  <2>2. CASE q # nextSeq
    <3>1. /\ q \in DOMAIN index /\ q \in Nat /\ index'[q] = index[q] /\ index[q] \in Location
          /\ index[q].seg <= q /\ q < nextSeq
          /\ index[q].seg \in DOMAIN disk => LiesAt(Logged(index[q].seg), q, index[q])
      BY <1>7, <1>15, <1>16, <2>2 DEF IInv, Indexed
    <3>2. CASE index[q].seg = cur
      <4>1. LiesAt(Body, q, index[q])
        BY <1>2, <3>1, <3>2 DEF Logged
      <4>2. Len(Body) <= Len(b)
        <5>1. Len(Body) \in Nat /\ Parts[p] \in Nat /\ Len(b) = Len(Body) + Parts[p]
          BY <1>2, <1>5, PartsAssumption
        <5> HIDE DEF b
        <5>2. QED BY <5>1
      <4>3. LiesAt(b, q, index[q])
        BY <1>2, <1>5, <3>1, <4>1, <4>2, LiesAtExtends
      <4>4. QED BY <1>1, <1>2, <3>1, <3>2, <4>3
    <3>3. CASE index[q].seg # cur
      BY <1>1, <1>2, <3>1, <3>3 DEF Logged
    <3>4. QED BY <3>2, <3>3
  <2>3. QED BY <2>1, <2>2
<1>17. Indexed'
  BY <1>1, <1>4, <1>16 DEF Indexed, Logged
<1>18. TypeOK'
  <2>1. DOMAIN index' \subseteq Nat \ {0} /\ index' \in [DOMAIN index' -> Location]
    <3>1. \A q \in DOMAIN index' : index'[q] \in Location
      BY <1>7, <1>15
    <3>2. QED BY <1>2, <1>7, <1>15, <3>1
  <2>2. pending' \in Seq(Frame) /\ nextSeq' \in Nat \ {0} /\ pc' \in Steps
    BY <1>1, <1>2, <1>6 DEF Steps
  <2>3. QED BY <1>1, <1>8, <2>1, <2>2, NoCallType DEF IInv, TypeOK
<1>19. QED BY <1>9, <1>10, <1>11, <1>12, <1>13, <1>17, <1>18 DEF IInv

\* The new segment continues the log in an empty file.
LEMMA CreateSegmentKeeps ==
  ASSUME IInv, CreateSegment
  PROVE  IInv'
<1>1. /\ open /\ open' = open /\ pc = "create" /\ pc' = "put" /\ resume' = resume
      /\ call' = call /\ pending = <<>> /\ unsynced = 0 /\ nextSeq \notin DOMAIN disk
      /\ disk' = [s \in DOMAIN disk \cup {nextSeq} |-> IF s = nextSeq THEN NewFile ELSE disk[s]]
      /\ segs' = segs \cup {nextSeq} /\ cur' = nextSeq
      /\ UNCHANGED <<shut, pending, before, index, nextSeq, durable, unsynced, hist, promised>>
  BY DEF IInv, TypeOK, CreateSegment, Control, history
<1>2. /\ cur \in DOMAIN disk /\ cur \in Nat \ {0} /\ cur - 1 \in Nat
      /\ Base \in Seq(Frame) /\ Body \in Seq(Frame)
      /\ Len(Body) = Len(Base) + Len(pending)
      /\ nextSeq \in Nat \ {0} /\ hist \in Seq(Payloads)
      /\ durable \in Nat /\ Newest(segs, cur) /\ segs \subseteq Nat \ {0}
      /\ DOMAIN disk \subseteq segs
  BY <1>1, CurrentFile DEF IInv, TypeOK, Directory
<1>3. Base = disk[cur].data /\ Body = disk[cur].data
  BY <1>1, <1>2 DEF Base, Body
<1>4. /\ Chained(disk[cur].data, cur - 1) /\ AllOk(disk[cur].data)
      /\ Complete(disk[cur].data, Len(disk[cur].data))
      /\ LastSeqOf(disk[cur].data, cur - 1) = nextSeq - 1 /\ nextSeq = Len(hist) + 1
  BY <1>1, <1>3 DEF IInv, Current
<1>5. cur < nextSeq
  <2>1. cur - 1 <= nextSeq - 1
    BY <1>2, <1>3, <1>4, LastSeqType
  <2>2. cur # nextSeq
    BY <1>1, <1>2
  <2>3. QED BY <1>2, <2>1, <2>2
<1>6. Stored(disk[cur])
  <2>1. disk[cur].data # <<>>
    BY <1>2, <1>4, <1>5 DEF LastSeqOf
  <2>2. QED BY <1>1, <1>3, <1>4, <2>1 DEF IInv, Unsynced, Stored
<1>7. \A s \in segs : s \in Nat /\ s < nextSeq /\ s <= cur
  BY <1>2, <1>5 DEF Newest
<1>8. NewFile \in File /\ NewFile.data = <<>> /\ NewFile.stable = 0 /\ ~NewFile.dropped
  BY DEF NewFile, File
<1>9. /\ DOMAIN disk' = DOMAIN disk \cup {nextSeq} /\ disk'[nextSeq] = NewFile
      /\ \A s \in DOMAIN disk : s # nextSeq /\ disk'[s] = disk[s]
      /\ \A s \in DOMAIN disk' : disk'[s] \in File /\ disk'[s].stable <= Len(disk'[s].data)
  <2>1. \A s \in DOMAIN disk : disk[s] \in File /\ disk[s].stable <= Len(disk[s].data)
    BY DEF IInv, TypeOK
  <2>2. QED BY <1>1, <1>8, <2>1
<1>10. Base' = <<>> /\ Body' = <<>>
  <2>1. Base' = disk'[nextSeq].data
    BY <1>1 DEF Base
  <2>2. QED BY <1>1, <1>8, <1>9, <2>1 DEF Body
<1>11. /\ Chained(<<>>, nextSeq - 1) /\ AllOk(<<>>) /\ TornEnd(<<>>) /\ Carries(<<>>, hist)
       /\ Complete(<<>>, 0) /\ LastSeqOf(<<>>, nextSeq - 1) = nextSeq - 1
  BY DEF Chained, Starts, Linear, Grouped, Ordered, Closed, AllOk, TornEnd, Carries,
         Complete, LastSeqOf
<1>12. FilesChained'
  <2>1. nextSeq - 1 <= Len(hist)
    BY <1>2, <1>4
  <2>2. QED BY <1>1, <1>8, <1>9, <1>11, <2>1 DEF IInv, FilesChained
<1>13. FilesLinked'
  <2>1. SUFFICES ASSUME NEW s \in DOMAIN disk', NEW t \in DOMAIN disk', s < t
                 PROVE  /\ Stored(disk'[s]) /\ LastSeqOf(disk'[s].data, s - 1) < t
                        /\ Adjacent(DOMAIN disk', s, t) => LastSeqOf(disk'[s].data, s - 1) + 1 = t
    BY DEF FilesLinked, Adjacent
  <2>2. s \in DOMAIN disk /\ disk'[s] = disk[s] /\ s \in segs /\ s \in Nat
    <3>1. \A r \in DOMAIN disk' : r = nextSeq \/ r \in segs
      BY <1>2, <1>9
    <3>2. ~(nextSeq < t)
      <4>1. t = nextSeq \/ t \in segs
        BY <2>1, <3>1
      <4>2. nextSeq \in Nat /\ (t \in segs => t \in Nat /\ t < nextSeq)
        BY <1>2, <1>7
      <4>3. QED BY <4>1, <4>2
    <3>3. QED BY <1>2, <1>7, <1>9, <2>1, <3>2
  <2>3. CASE t = nextSeq
    <3>1. CASE s = cur
      BY <1>2, <1>4, <1>6, <2>2, <2>3, <3>1
    <3>2. CASE s # cur
      <4>1. s < cur
        BY <1>2, <1>7, <2>2, <3>2
      <4>2. Stored(disk[s]) /\ LastSeqOf(disk[s].data, s - 1) < cur
        BY <1>2, <2>2, <4>1 DEF IInv, FilesLinked
      <4>3. LastSeqOf(disk[s].data, s - 1) \in Nat
        BY <2>2, FileType, LastSeqType DEF IInv, FilesChained
      <4>4. ~Adjacent(DOMAIN disk', s, t)
        BY <1>2, <1>5, <1>9, <2>3, <4>1 DEF Adjacent
      <4>5. QED BY <1>2, <1>5, <2>2, <2>3, <4>2, <4>3, <4>4
    <3>3. QED BY <3>1, <3>2
  <2>4. CASE t # nextSeq
    <3>1. t \in DOMAIN disk
      BY <1>9, <2>4
    <3>2. Adjacent(DOMAIN disk', s, t) => Adjacent(DOMAIN disk, s, t)
      BY <1>9, <2>2, <3>1 DEF Adjacent
    <3>3. QED BY <2>1, <2>2, <3>1, <3>2 DEF IInv, FilesLinked
  <2>5. QED BY <2>3, <2>4
<1>14. FilesSettled'
  BY <1>1 DEF FilesSettled
<1>15. Directory'
  <2>1. ASSUME NEW S \in SUBSET segs, Successors(S), cur \in S
        PROVE  Successors(S \cup {nextSeq})
    <3> \A s \in S : s \in Nat /\ s < nextSeq /\ s <= cur
      BY <1>7, <2>1
    <3> nextSeq \in Nat /\ cur \in Nat /\ cur < nextSeq
      BY <1>2, <1>5
    <3>1. Newest(S \cup {nextSeq}, nextSeq)
      BY DEF Newest
    <3>2. Adjacent(S \cup {nextSeq}, cur, nextSeq)
      <4>1. \A r \in S \cup {nextSeq} : ~(cur < r /\ r < nextSeq)
        OBVIOUS
      <4>2. QED BY <2>1, <4>1 DEF Adjacent
    <3>3. ASSUME NEW s \in S, s # cur
          PROVE  \E t \in S \cup {nextSeq} : Adjacent(S \cup {nextSeq}, s, t)
      <4>1. ~Newest(S, s)
        BY <2>1, <3>3 DEF Newest
      <4>2. PICK t \in S : Adjacent(S, s, t)
        BY <2>1, <4>1 DEF Successors
      <4>3. Adjacent(S \cup {nextSeq}, s, t)
        <5>1. \A r \in S : ~(s < r /\ r < t)
          BY <4>2 DEF Adjacent
        <5>2. ~(nextSeq < t)
          OBVIOUS
        <5>3. QED BY <4>2, <5>1, <5>2 DEF Adjacent
      <4>4. QED BY <4>3
    <3>4. QED BY <3>1, <3>2, <3>3 DEF Successors
  <2>2. Successors(DOMAIN disk') /\ Successors(segs')
    BY <1>1, <1>2, <1>9, <2>1 DEF IInv, Directory
  <2>3. Newest(segs', nextSeq)
    BY <1>1, <1>2, <1>7 DEF Newest
  <2>4. QED BY <1>1, <1>2, <1>9, <2>2, <2>3 DEF Directory
<1>16. Cleaning'
  <2>1. call.todo \subseteq segs /\ resume = "idle"
    BY <1>1 DEF IInv, TypeOK
  <2>2. \A s \in call.todo : ~(nextSeq < s)
    <3>1. SUFFICES ASSUME NEW s \in call.todo PROVE ~(nextSeq < s)
      OBVIOUS
    <3>2. s \in Nat /\ s < nextSeq /\ nextSeq \in Nat
      BY <1>2, <1>7, <2>1, <3>1
    <3>3. QED BY <3>2
  <2>3. QED BY <1>1, <1>9, <2>1, <2>2 DEF IInv, Cleaning
<1>17. Current'
  BY <1>1, <1>4, <1>10, <1>11 DEF Current
<1>18. Unsynced'
  BY <1>1, <1>2, <1>8, <1>9, <1>10 DEF IInv, Unsynced
<1>19. Control'
  BY <1>1 DEF IInv, Control
<1>20. Indexed'
  <2>1. SUFFICES ASSUME NEW q \in DOMAIN index
                 PROVE  /\ index[q].seg <= q /\ q < nextSeq
                        /\ index[q].seg \in DOMAIN disk'
                             => LiesAt(IF index[q].seg = nextSeq THEN <<>>
                                       ELSE disk'[index[q].seg].data, q, index[q])
    BY <1>1, <1>10 DEF Indexed, Logged
  <2>2. /\ index[q].seg <= q /\ q < nextSeq /\ index[q].seg \in Nat /\ q \in Nat
        /\ index[q].seg \in DOMAIN disk => LiesAt(Logged(index[q].seg), q, index[q])
    BY <1>1 DEF IInv, TypeOK, Indexed, Location
  <2>3. index[q].seg # nextSeq
    BY <1>2, <2>2
  <2>4. \A s \in DOMAIN disk : Logged(s) = disk'[s].data
    BY <1>1, <1>3, <1>9 DEF Logged
  <2>5. QED BY <1>9, <2>2, <2>3, <2>4
<1>21. TypeOK'
  <2>1. DOMAIN disk' \subseteq Nat \ {0} /\ disk' \in [DOMAIN disk' -> File]
    BY <1>1, <1>2, <1>9
  <2>2. segs' \subseteq Nat \ {0} /\ shut' \subseteq segs' /\ segs' \ shut' \subseteq DOMAIN disk'
    BY <1>1, <1>2, <1>9 DEF IInv, TypeOK
  <2>3. nextSeq \notin segs
    BY <1>2, <1>7
  <2>4. cur' \in segs' \ shut' /\ call'.todo \subseteq segs' \ {cur'} /\ pc' \in Steps
    BY <1>1, <2>3 DEF IInv, TypeOK, Steps
  <2>5. QED BY <1>1, <1>9, <2>1, <2>2, <2>4 DEF IInv, TypeOK
<1>22. QED BY <1>12, <1>13, <1>14, <1>15, <1>16, <1>17, <1>18, <1>19, <1>20, <1>21 DEF IInv

\* An append, in place or behind a rotation, keeps the invariant.
LEMMA AppendKeeps ==
  ASSUME IInv,
         \/ \E p \in Payloads, force \in BOOLEAN : AppendInPlace(p, force)
         \/ AppendToNewSegment
  PROVE  IInv'
<1>1. CASE \E p \in Payloads, force \in BOOLEAN : AppendInPlace(p, force)
  BY <1>1, BufferKeeps DEF AppendInPlace, Idle
<1>2. CASE AppendToNewSegment
  <2>1. open /\ pc = "put" /\ call.payload \in Payloads /\ call.force \in BOOLEAN
        /\ Buffer(call.payload, call.force)
    BY <1>2 DEF AppendToNewSegment, IInv, TypeOK, Call
  <2>2. QED BY <2>1, BufferKeeps
<1>3. QED BY <1>1, <1>2

-------------------------------------------------------------------------------
(* Recovery.                                                                *)

\* What the scan keeps of the newest segment, and what the directory holds then.
LEMMA TrimmedFile ==
  ASSUME SoundEnvironment, TypeOK, FilesChained, NEW top \in DOMAIN disk,
         NEW k \in 0..Len(disk[top].data),
         ScanKeeps(disk[top].data, top - 1, k),
         disk[top].stable = Len(disk[top].data),
         disk[top].data # <<>> => disk[top].named
  PROVE  LET d == SubSeq(disk[top].data, 1, k)
             f == Trimmed(top, k)[top]
         IN  /\ d \in Seq(Frame) /\ Chained(d, top - 1) /\ AllOk(d) /\ Complete(d, Len(d))
             /\ Carries(d, hist)
             /\ DOMAIN Trimmed(top, k) = DOMAIN disk
             /\ \A s \in DOMAIN disk : s # top => Trimmed(top, k)[s] = disk[s]
             /\ f \in File /\ f.data = d /\ f.stable = Len(d) /\ ~f.dropped
             /\ d # <<>> \/ disk[top].named => f.named
<1> DEFINE a == disk[top].data
           d == SubSeq(a, 1, k)
           f == Trimmed(top, k)[top]
<1>1. /\ a \in Seq(Frame) /\ top - 1 \in Nat /\ Chained(a, top - 1) /\ Carries(a, hist)
      /\ disk[top] \in File /\ ~disk[top].dropped /\ disk \in [DOMAIN disk -> File]
  BY FileType DEF FilesChained, TypeOK
<1>2. /\ d \in Seq(Frame) /\ Len(d) = k /\ Chained(d, top - 1)
      /\ \A i \in 1..k : d[i] = a[i]
  BY <1>1, ChainedPrefix
<1>3. AllOk(d) /\ Complete(d, Len(d))
  BY <1>2 DEF ScanKeeps, Accepts, AllOk, Complete
<1>4. Carries(d, hist)
  BY <1>1, <1>2 DEF Carries
<1>5. CASE k = Len(a)
  <2>1. d = a
    BY <1>1, <1>2, <1>5, SeqEqual
  <2>2. Trimmed(top, k) = disk
    BY <1>5 DEF Trimmed
  <2>3. QED BY <1>1, <1>2, <1>3, <1>4, <2>1, <2>2
<1>6. CASE k # Len(a)
  <2> DEFINE m == IF disk[top].stable < k THEN disk[top].stable ELSE k
             g == Cut(disk[top], k)
  <2>1. m \in Nat
    BY <1>1 DEF File
  <2>2. Trimmed(top, k) = [disk EXCEPT ![top] = Synced(g)]
    BY <1>6 DEF Trimmed
  <2>3. g = [disk[top] EXCEPT !.data = d, !.stable = m]
    BY Zenon DEF Cut
  <2> HIDE DEF d, m
  <2>4. g \in File /\ ~g.dropped /\ g.data = d
    BY <1>1, <1>2, <2>1, <2>3 DEF File
  <2> HIDE DEF g
  <2>5. /\ Synced(g) \in File /\ Synced(g).data = g.data /\ Synced(g).stable = Len(g.data)
        /\ Synced(g).named /\ ~Synced(g).dropped
    BY <2>4, SyncedFile
  <2>6. DOMAIN Trimmed(top, k) = DOMAIN disk /\ f = Synced(g)
        /\ \A s \in DOMAIN disk : s # top => Trimmed(top, k)[s] = disk[s]
    BY <1>1, <2>2
  <2> HIDE DEF f
  <2>7. QED BY <1>2, <1>3, <1>4, <2>4, <2>5, <2>6 DEF f, d
<1>7. QED BY <1>5, <1>6

\* A recovery that succeeds establishes the invariant from the files alone.
LEMMA RecoverLockedKeeps ==
  ASSUME SoundEnvironment, IInv, NEW top \in DOMAIN disk,
         NEW k \in 0..Len(disk[top].data),
         RecoverLocked(DOMAIN disk, top, k),
         disk[top].stable = Len(disk[top].data),
         disk[top].data # <<>> => disk[top].named,
         open', segs' = DOMAIN disk, shut' = {}, pending' = <<>>, before' \in Nat,
         unsynced' = 0, pc' = "idle", resume' = "idle", call' \in Call, call'.todo = {}
  PROVE  IInv'
<1> DEFINE d == SubSeq(disk[top].data, 1, k)
           files == [Contents(DOMAIN disk) EXCEPT ![top] = SubSeq(@, 1, k)]
           last == LastSeqOf(d, top - 1)
<1>1. /\ Contents(DOMAIN disk) \in [DOMAIN disk -> {disk[s].data : s \in DOMAIN disk}]
      /\ \A s \in DOMAIN disk : Contents(DOMAIN disk)[s] = disk[s].data
  BY DEF Contents
<1>2. /\ DOMAIN files = DOMAIN disk /\ files[top] = d
      /\ \A s \in DOMAIN disk : s # top => files[s] = disk[s].data
  BY <1>1
<1>3. /\ Newest(DOMAIN disk, top) /\ ScanKeeps(disk[top].data, top - 1, k)
      /\ disk' = Trimmed(top, k) /\ index' = IndexOf(files) /\ nextSeq' = last + 1
      /\ durable' = last /\ cur' = top /\ hist' = SubSeq(hist, 1, last)
      /\ promised' = IF last > promised THEN last ELSE promised
  BY <1>1, <1>2 DEF RecoverLocked, Recovers
<1> HIDE DEF files
<1>4. /\ d \in Seq(Frame) /\ Chained(d, top - 1) /\ AllOk(d) /\ Complete(d, Len(d))
      /\ Carries(d, hist) /\ DOMAIN disk' = DOMAIN disk
      /\ \A s \in DOMAIN disk : s # top => disk'[s] = disk[s]
      /\ disk'[top] \in File /\ disk'[top].data = d /\ disk'[top].stable = Len(d)
      /\ ~disk'[top].dropped /\ (d # <<>> => disk'[top].named)
  BY <1>3, TrimmedFile DEF IInv
<1> HIDE DEF d
<1>5. \A s \in DOMAIN disk : /\ s \in Nat \ {0} /\ s - 1 \in Nat /\ s <= top
                             /\ disk[s] \in File /\ disk[s].data \in Seq(Frame)
  BY <1>3, FileType DEF IInv, Newest
<1>6. last \in Nat /\ top - 1 <= last /\ last <= Len(hist) /\ hist \in Seq(Payloads)
  <2>1. last \in Nat /\ top - 1 <= last
    BY <1>4, <1>5, LastSeqType
  <2>2. hist \in Seq(Payloads) /\ top - 1 <= Len(hist)
    BY DEF IInv, TypeOK, FilesChained
  <2>3. CASE d = <<>>
    BY <2>1, <2>2, <2>3 DEF LastSeqOf
  <2>4. CASE d # <<>>
    <3>1. Len(d) \in 1..Len(d)
      BY <1>4, <2>4
    <3>2. QED BY <1>4, <2>1, <2>2, <2>4, <3>1 DEF LastSeqOf, Carries
  <2>5. QED BY <2>3, <2>4
<1> HIDE DEF last
<1>7. hist' \in Seq(Payloads) /\ Len(hist') = last /\ \A q \in 1..last : hist'[q] = hist[q]
  BY <1>3, <1>6
<1>8. ASSUME NEW s \in DOMAIN disk
      PROVE  /\ files[s] \in Seq(Frame) /\ Chained(files[s], s - 1) /\ AllOk(files[s])
             /\ Complete(files[s], Len(files[s])) /\ Carries(files[s], hist)
             /\ \A i \in 1..Len(files[s]) : files[s][i].seq <= last
             /\ disk'[s].data = files[s] /\ disk'[s].stable = Len(files[s])
             /\ disk'[s] \in File /\ ~disk'[s].dropped
  <2>1. CASE s = top
    <3>1. \A i \in 1..Len(d) : d[i].seq <= last
      BY <1>4, <1>5, LastFrame DEF last
    <3>2. files[s] = d
      BY <1>2, <2>1
    <3>3. QED BY <1>4, <2>1, <3>1, <3>2
  <2>2. CASE s # top
    <3>1. s < top
      BY <1>5, <2>2
    <3>2. Stored(disk[s]) /\ LastSeqOf(disk[s].data, s - 1) < top
      BY <3>1 DEF IInv, FilesLinked
    <3>3. Chained(disk[s].data, s - 1) /\ Carries(disk[s].data, hist) /\ ~disk[s].dropped
      BY DEF IInv, FilesChained
    <3>4. ASSUME NEW i \in 1..Len(disk[s].data) PROVE disk[s].data[i].seq <= last
      <4>1. disk[s].data[i].seq <= LastSeqOf(disk[s].data, s - 1)
            /\ LastSeqOf(disk[s].data, s - 1) \in Nat /\ disk[s].data[i].seq \in Nat
        <5>1. disk[s].data \in Seq(Frame) /\ s - 1 \in Nat
          BY <1>5
        <5>2. disk[s].data[i].seq <= LastSeqOf(disk[s].data, s - 1)
          BY <3>3, <3>4, <5>1, LastFrame
        <5>3. LastSeqOf(disk[s].data, s - 1) \in Nat
          BY <3>3, <5>1, LastSeqType
        <5>4. disk[s].data[i].seq \in Nat
          BY <3>4, <5>1, FrameTypes
        <5>5. QED BY <5>2, <5>3, <5>4
      <4>2. LastSeqOf(disk[s].data, s - 1) < top /\ top \in Nat /\ top - 1 <= last /\ last \in Nat
        BY <1>5, <1>6, <3>2
      <4>3. QED BY <4>1, <4>2
    <3>5. files[s] = disk[s].data /\ disk'[s] = disk[s]
      BY <1>2, <1>4, <2>2
    <3>6. AllOk(disk[s].data) /\ Complete(disk[s].data, Len(disk[s].data))
          /\ disk[s].stable = Len(disk[s].data)
      BY <3>2 DEF Stored
    <3>7. disk[s] \in File /\ disk[s].data \in Seq(Frame)
      BY <1>5
    <3>8. QED BY <3>3, <3>4, <3>5, <3>6, <3>7
  <2>3. QED BY <2>1, <2>2
<1>9. ASSUME NEW s \in DOMAIN disk PROVE Carries(files[s], hist')
  <2>1. ASSUME NEW i \in 1..Len(files[s]) PROVE files[s][i].seq \in 1..last
    <3>1. files[s] \in Seq(Frame) /\ files[s][i].seq <= last
      BY <1>8, <1>9, <2>1
    <3>2. files[s][i].seq \in Nat \ {0}
      BY <2>1, <3>1, FrameTypes
    <3>3. QED BY <1>6, <3>1, <3>2
  <2>2. Carries(files[s], hist)
    BY <1>8
  <2>3. ASSUME NEW i \in 1..Len(files[s])
        PROVE  files[s][i].seq <= Len(hist') /\ files[s][i].payload = hist'[files[s][i].seq]
    <3>1. files[s][i].payload = hist[files[s][i].seq]
      BY <2>2, <2>3 DEF Carries
    <3>2. files[s][i].seq \in 1..last
      BY <2>1, <2>3
    <3>3. QED BY <1>7, <3>1, <3>2
  <2>4. QED BY <2>3 DEF Carries
<1>10. FilesChained'
  <2>1. ASSUME NEW s \in DOMAIN disk
        PROVE  /\ Chained(files[s], s - 1) /\ TornEnd(files[s]) /\ s - 1 <= last
               /\ Carries(files[s], hist') /\ ~disk'[s].dropped
    BY <1>5, <1>6, <1>8, <1>9 DEF AllOk, TornEnd
  <2>2. QED BY <1>4, <1>7, <1>8, <2>1 DEF FilesChained
<1>11. FilesLinked'
  <2>1. SUFFICES ASSUME NEW s \in DOMAIN disk, NEW t \in DOMAIN disk, s < t
                 PROVE  /\ Stored(disk'[s]) /\ LastSeqOf(disk'[s].data, s - 1) < t
                        /\ Adjacent(DOMAIN disk, s, t) => LastSeqOf(disk'[s].data, s - 1) + 1 = t
    BY <1>4 DEF FilesLinked, Adjacent
  <2>2. s # top
    BY <1>5, <2>1
  <2>3. QED BY <1>4, <2>1, <2>2 DEF IInv, FilesLinked
<1>12. FilesSettled'
  BY DEF FilesSettled
<1>13. Directory' /\ Cleaning'
  BY <1>3, <1>4 DEF IInv, Directory, Cleaning
<1>14. Base' = d /\ Body' = d
  <2>1. Base' = disk'[top].data
    BY <1>3 DEF Base
  <2>2. QED BY <1>4, <2>1 DEF Body
<1>15. Current'
  <2>1. Carries(d, hist')
    BY <1>2, <1>9
  <2>2. LastSeqOf(d, top - 1) = nextSeq' - 1 /\ nextSeq' = Len(hist') + 1
    BY <1>3, <1>6, <1>7 DEF last
  <2>3. QED BY <1>3, <1>4, <1>14, <2>1, <2>2 DEF Current
<1>16. Unsynced'
  <2>1. Len(d) \in Nat
    BY <1>4
  <2>2. \A i \in 1..Len(d) : i <= Len(d) /\ d # <<>>
    BY <1>4
  <2>3. last < last + 1
    BY <1>6
  <2>4. QED BY <1>3, <1>4, <1>14, <2>1, <2>2, <2>3 DEF Unsynced
<1>17. Control'
  BY DEF Control
<1>18. ASSUME NEW q \in DOMAIN index'
       PROVE  /\ index'[q] \in Location /\ index'[q].seg \in DOMAIN disk /\ index'[q].seg <= q
              /\ LiesAt(files[index'[q].seg], q, index'[q])
              /\ q \in Nat \ {0} /\ q <= last
  <2>1. /\ index'[q] \in Location /\ index'[q].seg \in DOMAIN files /\ index'[q].seg <= q
        /\ LiesAt(files[index'[q].seg], q, index'[q])
        /\ \E s \in DOMAIN files : \E i \in 1..Len(files[s]) : q = files[s][i].seq
    <3>1. \A s \in DOMAIN files : /\ s \in Nat \ {0} /\ files[s] \in Seq(Frame)
                                   /\ Chained(files[s], s - 1)
                                   /\ Complete(files[s], Len(files[s]))
      BY <1>2, <1>5, <1>8
    <3>2. index' = IndexOf(files) /\ q \in DOMAIN IndexOf(files)
      BY <1>3, <1>18
    <3>3. QED BY <3>1, <3>2, IndexOfFiles
  <2>2. q \in Nat \ {0} /\ q <= last
    <3>1. PICK s \in DOMAIN disk : \E i \in 1..Len(files[s]) : q = files[s][i].seq
      BY <1>2, <2>1
    <3>2. PICK i \in 1..Len(files[s]) : q = files[s][i].seq
      BY <3>1
    <3>3. files[s] \in Seq(Frame) /\ files[s][i].seq <= last
      BY <1>8, <3>1, <3>2
    <3>4. QED BY <3>2, <3>3, FrameTypes
  <2>3. QED BY <1>2, <2>1, <2>2
<1>19. Indexed'
  <2>1. \A q \in DOMAIN index' : q < nextSeq'
    BY <1>3, <1>6, <1>18
  <2>2. \A s \in DOMAIN disk : files[s] = IF s = top THEN d ELSE disk'[s].data
    BY <1>2, <1>8
  <2>3. QED BY <1>3, <1>4, <1>14, <1>18, <2>1, <2>2 DEF Indexed, Logged
<1>20. TypeOK'
  <2>1. /\ DOMAIN disk' \subseteq Nat \ {0} /\ disk' \in [DOMAIN disk' -> File]
        /\ \A s \in DOMAIN disk' : disk'[s].stable <= Len(disk'[s].data)
    <3>1. disk' = [s \in DOMAIN disk |-> disk'[s]]
      <4>1. disk = [s \in DOMAIN disk |-> disk[s]]
        BY DEF IInv, TypeOK
      <4>2. disk' = Trimmed(top, k)
        BY <1>3
      <4>3. disk' = [s \in DOMAIN disk' |-> disk'[s]]
        BY <4>1, <4>2 DEF Trimmed
      <4>4. QED BY <1>4, <4>3
    <3>2. \A s \in DOMAIN disk : Len(files[s]) \in Nat
      BY <1>8
    <3>3. DOMAIN disk' \subseteq Nat \ {0} /\ disk' \in [DOMAIN disk' -> File]
      BY <1>4, <1>5, <1>8, <3>1
    <3>4. ASSUME NEW s \in DOMAIN disk PROVE disk'[s].stable <= Len(disk'[s].data)
      <4>1. disk'[s].stable = Len(files[s]) /\ disk'[s].data = files[s] /\ Len(files[s]) \in Nat
        BY <1>8, <3>2
      <4>2. QED BY <4>1
    <3>5. QED BY <1>4, <3>3, <3>4
  <2>2. DOMAIN index' \subseteq Nat \ {0} /\ index' \in [DOMAIN index' -> Location]
    <3>1. index' = [q \in DOMAIN index' |-> index'[q]]
      BY <1>3 DEF IndexOf
    <3>2. QED BY <1>18, <3>1
  <2>3. nextSeq' \in Nat \ {0} /\ durable' \in Nat /\ promised' \in Nat
    <3>1. promised \in Nat
      BY DEF IInv, TypeOK
    <3>2. QED BY <1>3, <1>6, <3>1
  <2>4. /\ segs' \subseteq Nat \ {0} /\ shut' \subseteq segs' /\ segs' \ shut' \subseteq DOMAIN disk'
        /\ cur' \in segs' \ shut' /\ segs' \ shut' = DOMAIN disk
    BY <1>3, <1>4, <1>5
  <2>5. pc' \in Steps /\ pending' \in Seq(Frame) /\ open' = TRUE
    BY DEF Steps
  <2>6. QED BY <1>7, <2>1, <2>2, <2>3, <2>4, <2>5 DEF TypeOK
<1>21. QED BY <1>10, <1>11, <1>12, <1>13, <1>15, <1>16, <1>17, <1>19, <1>20 DEF IInv

\* What a process that is not running has in memory.
LEMMA DownState ==
  ASSUME IInv, ~open
  PROVE  /\ segs = {} /\ shut = {} /\ cur = 0 /\ pc = "idle" /\ resume = "idle"
         /\ pending = <<>> /\ unsynced = 0 /\ call \in Call /\ call.todo = {}
<1>1. segs = {} /\ shut = {} /\ cur = 0 /\ pc = "idle" /\ call \in Call /\ call.todo = {}
  BY DEF IInv, TypeOK
<1>2. resume = "idle"
  BY <1>1 DEF IInv, TypeOK
<1>3. pending = <<>> /\ unsynced = 0
  BY DEF IInv, Control
<1>4. QED BY <1>1, <1>2, <1>3

\* A scan keeps every record in front of the first damage.
LEMMA ScanReaches ==
  ASSUME NEW base \in Nat, NEW d \in Seq(Frame), NEW k \in 0..Len(d),
         \A i \in 1..k : d[i].kind = "ok", Complete(d, k),
         NEW n \in 0..Len(d), ScanKeeps(d, base, n)
  PROVE  k <= n
<1>1. SUFFICES ASSUME n < k PROVE FALSE
  OBVIOUS
<1>2. PICK e \in n..Len(d) : /\ \A i \in n+1..e : Accepts(d, base, i) /\ ~FlagLast(d[i])
                             /\ e < Len(d) => d[e+1].kind = "torn"
  BY DEF ScanKeeps
<1>3. CASE k <= e
  <2>1. k \in n+1..e
    BY <1>1, <1>3
  <2>2. QED BY <1>1, <1>2, <2>1 DEF Complete
<1>4. CASE e < k
  <2>1. e + 1 \in 1..k /\ e < Len(d)
    BY <1>4
  <2>2. QED BY <1>2, <2>1
<1>5. QED BY <1>3, <1>4

\* Recover has nothing to trim: its flush has left no torn tail, so the trim that fails
\* is no step of a log whose rollbacks succeed.
LEMMA NothingToTrim ==
  ASSUME IInv, NEW top \in segs \cap DOMAIN disk,
         NEW k \in 0..Len(disk[top].data), TrimFails(top, k)
  PROVE  FALSE
<1>1. pc = "recover" /\ shut = {} /\ Recovers(Contents(segs), top, k) /\ k < Len(disk[top].data)
  BY DEF TrimFails
<1>2. open /\ segs = DOMAIN disk
  BY <1>1 DEF IInv, TypeOK, Directory
<1>3. cur \in DOMAIN disk /\ Newest(segs, cur) /\ \A s \in DOMAIN disk : s \in Nat
  BY <1>2, CurrentFile, FileType DEF IInv, Directory
<1>4. DOMAIN Contents(segs) = segs /\ Contents(segs)[top] = disk[top].data
  BY DEF Contents
<1>5. Newest(segs, top) /\ ScanKeeps(disk[top].data, top - 1, k)
  BY <1>1, <1>4 DEF Recovers
<1>6. top = cur
  BY <1>2, <1>3, <1>5 DEF Newest
<1>7. Base = disk[cur].data
  BY <1>1 DEF IInv, Control, Base
<1> DEFINE d == disk[cur].data
<1>8. d \in Seq(Frame) /\ cur - 1 \in Nat /\ Chained(d, cur - 1)
  BY <1>2, <1>3, FileType DEF IInv, FilesChained
<1>9. AllOk(d) /\ Complete(d, Len(d))
  BY <1>2, <1>7 DEF IInv, Current
<1>10. Len(d) \in 0..Len(d) /\ k \in 0..Len(d) /\ k < Len(d) /\ ScanKeeps(d, cur - 1, k)
  BY <1>1, <1>5, <1>6, <1>8
<1> HIDE DEF d
<1>11. Len(d) <= k
  BY <1>8, <1>9, <1>10, ScanReaches DEF AllOk
<1>12. QED BY <1>8, <1>10, <1>11

\* The steps of Recover and Open that such a log takes.
LEMMA RecoveriesSplit ==
  ASSUME IInv, Recoveries
  PROVE  \/ Recover \/ RecoverFails
         \/ \E top \in segs \cap DOMAIN disk :
              \E k \in 0..Len(disk[top].data) : RecoverScan(top, k)
         \/ \E top \in DOMAIN disk :
              \E k \in 0..Len(disk[top].data) : OpenDirectory(top, k) \/ OpenInterrupted(top, k)
         \/ OpenEmptyDirectory
BY NothingToTrim DEF Recoveries

\* Recover scans the files of a log whose buffer is empty and synced.
LEMMA RecoverScanKeeps ==
  ASSUME SoundEnvironment, IInv, NEW top \in segs \cap DOMAIN disk,
         NEW k \in 0..Len(disk[top].data), RecoverScan(top, k)
  PROVE  IInv'
<1>1. /\ pc = "recover" /\ shut = {} /\ RecoverLocked(segs, top, k) /\ Return
      /\ UNCHANGED <<open, segs, shut, pending, before, unsynced>>
  BY DEF RecoverScan
<1>2. open /\ segs = DOMAIN disk
  BY <1>1 DEF IInv, TypeOK, Directory
<1>3. cur \in DOMAIN disk /\ Newest(segs, cur) /\ \A s \in DOMAIN disk : s \in Nat
  BY <1>2, CurrentFile, FileType DEF IInv, Directory
<1>4. DOMAIN Contents(segs) = segs
  BY DEF Contents
<1>5. Newest(segs, top)
  BY <1>1, <1>4 DEF RecoverLocked, Recovers
<1>6. top = cur
  BY <1>2, <1>3, <1>5 DEF Newest
<1>7. Base = disk[cur].data /\ unsynced = 0 /\ pending = <<>>
  BY <1>1 DEF IInv, Control, Base
<1>8. /\ disk[top].stable = Len(disk[top].data)
      /\ disk[top].data # <<>> => disk[top].named
  BY <1>2, <1>6, <1>7 DEF IInv, Unsynced
<1>9. call' \in Call /\ call'.todo = {} /\ pc' = "idle" /\ resume' = "idle"
  BY <1>1, NoCallType DEF Return
<1>10. before' \in Nat /\ open'
  BY <1>1, <1>2 DEF IInv, TypeOK
<1>11. RecoverLocked(DOMAIN disk, top, k)
  BY <1>1, <1>2
<1>12. QED BY <1>1, <1>2, <1>7, <1>8, <1>9, <1>10, <1>11, RecoverLockedKeeps

\* Open scans the files that a dead process left.
LEMMA OpenDirectoryKeeps ==
  ASSUME SoundEnvironment, IInv, NEW top \in DOMAIN disk,
         NEW k \in 0..Len(disk[top].data), OpenDirectory(top, k)
  PROVE  IInv'
<1>1. /\ ~open /\ RecoverLocked(DOMAIN disk, top, k) /\ open' /\ segs' = DOMAIN disk
      /\ UNCHANGED <<shut, pending, before, unsynced, pc, resume, call>>
  BY DEF OpenDirectory, control
<1>2. before' \in Nat
  BY <1>1 DEF IInv, TypeOK
<1>3. disk[top].stable = Len(disk[top].data) /\ disk[top].named
  BY <1>1 DEF IInv, FilesSettled
<1>4. QED BY <1>1, <1>2, <1>3, DownState, RecoverLockedKeeps

\* Open creates the first segment of an empty directory.
LEMMA OpenEmptyDirectoryKeeps ==
  ASSUME IInv, OpenEmptyDirectory
  PROVE  IInv'
<1>1. /\ ~open /\ DOMAIN disk = {} /\ disk' = [s \in {1} |-> NewFile]
      /\ open' = TRUE /\ segs' = {1} /\ cur' = 1
      /\ index' = <<>> /\ nextSeq' = 1 /\ durable' = 0 /\ hist' = <<>>
      /\ UNCHANGED <<shut, pending, before, unsynced, pc, resume, call, promised>>
  BY DEF OpenEmptyDirectory, control
<1>2. /\ shut' = {} /\ pc' = "idle" /\ resume' = "idle" /\ pending' = <<>> /\ unsynced' = 0
      /\ call' \in Call /\ call'.todo = {} /\ before' \in Nat /\ promised' \in Nat
  BY <1>1, DownState DEF IInv, TypeOK
<1>3. /\ DOMAIN disk' = {1} /\ disk'[1] = NewFile /\ NewFile \in File
      /\ NewFile.data = <<>> /\ NewFile.stable = 0 /\ ~NewFile.dropped
  BY <1>1 DEF NewFile, File
<1>4. Len(<<>>) = 0 /\ Base' = <<>> /\ Body' = <<>> /\ DOMAIN index' = {}
  BY <1>1, <1>2, <1>3 DEF Base, Body
<1>5. Chained(<<>>, 0) /\ AllOk(<<>>) /\ TornEnd(<<>>) /\ Complete(<<>>, 0)
      /\ Carries(<<>>, hist') /\ LastSeqOf(<<>>, 0) = 0
  BY <1>4 DEF Chained, Starts, Linear, Grouped, Ordered, Closed, AllOk, TornEnd, Complete,
              Carries, LastSeqOf
<1>6. FilesChained'
  BY <1>1, <1>3, <1>5 DEF FilesChained
<1>7. FilesLinked' /\ FilesSettled'
  BY <1>1, <1>3 DEF FilesLinked, FilesSettled, Adjacent
<1>8. Directory' /\ Cleaning'
  BY <1>1, <1>2, <1>3 DEF Directory, Cleaning, Successors, Newest
<1>9. Current'
  BY <1>1, <1>2, <1>4, <1>5 DEF Current
<1>10. Unsynced'
  BY <1>1, <1>2, <1>3, <1>4 DEF Unsynced
<1>11. Control' /\ Indexed'
  BY <1>2, <1>4 DEF Control, Indexed
<1>12. TypeOK'
  <2>1. index' \in [DOMAIN index' -> Location] /\ hist' \in Seq(Payloads)
    BY <1>1, <1>4
  <2>2. QED BY <1>1, <1>2, <1>3, <1>4, <2>1 DEF TypeOK, Steps
<1>13. QED BY <1>6, <1>7, <1>8, <1>9, <1>10, <1>11, <1>12 DEF IInv

\* Only the newest file of a directory that no process uses is cut.
LEMMA OpenInterruptedKeeps ==
  ASSUME SoundEnvironment, IInv, NEW top \in DOMAIN disk,
         NEW k \in 0..Len(disk[top].data), OpenInterrupted(top, k)
  PROVE  IInv'
<1> DEFINE d == SubSeq(disk[top].data, 1, k)
<1>1. /\ ~open /\ Recovers(Contents(DOMAIN disk), top, k) /\ disk' = Trimmed(top, k)
      /\ UNCHANGED <<open, segs, shut, cur, pending, before, index, nextSeq, durable, unsynced>>
      /\ UNCHANGED <<pc, resume, call, hist, promised>>
  BY DEF OpenInterrupted, memory, control, history
<1>2. /\ DOMAIN Contents(DOMAIN disk) = DOMAIN disk
      /\ Contents(DOMAIN disk)[top] = disk[top].data
  BY DEF Contents
<1>3. Newest(DOMAIN disk, top) /\ ScanKeeps(disk[top].data, top - 1, k)
  BY <1>1, <1>2 DEF Recovers
<1>4. disk[top].stable = Len(disk[top].data) /\ disk[top].named
  BY <1>1 DEF IInv, FilesSettled
<1>5. /\ d \in Seq(Frame) /\ Chained(d, top - 1) /\ AllOk(d) /\ Carries(d, hist)
      /\ DOMAIN disk' = DOMAIN disk
      /\ \A s \in DOMAIN disk : s # top => disk'[s] = disk[s]
      /\ disk'[top] \in File /\ disk'[top].data = d /\ disk'[top].stable = Len(d)
      /\ ~disk'[top].dropped /\ disk'[top].named
  BY <1>1, <1>3, <1>4, TrimmedFile DEF IInv
<1> HIDE DEF d
<1>6. \A s \in DOMAIN disk : s \in Nat \ {0} /\ s <= top /\ disk[s] \in File
  BY <1>3, FileType DEF IInv, Newest
<1>7. FilesChained'
  <2>1. TornEnd(d)
    BY <1>5 DEF AllOk, TornEnd
  <2>2. QED BY <1>1, <1>5, <2>1 DEF IInv, FilesChained
<1>8. FilesLinked'
  <2>1. \A s, t \in DOMAIN disk : s < t => s # top
    BY <1>6
  <2>2. QED BY <1>1, <1>5, <2>1 DEF IInv, FilesLinked, Adjacent
<1>9. FilesSettled'
  BY <1>1, <1>5 DEF IInv, FilesSettled
<1>10. Directory' /\ Cleaning' /\ Control'
  <2>1. "clean" \notin {pc', resume'} /\ call'.todo = {}
    BY <1>1, DownState
  <2>2. QED BY <1>1, <1>5, <2>1 DEF IInv, Directory, Cleaning, Control
<1>11. Current' /\ Unsynced' /\ Indexed'
  BY <1>1 DEF Current, Unsynced, Indexed
<1>12. TypeOK'
  <2>1. disk' = [s \in DOMAIN disk |-> disk'[s]]
    BY <1>1, <1>5 DEF IInv, TypeOK, Trimmed
  <2>2. disk' \in [DOMAIN disk' -> File] /\ DOMAIN disk' \subseteq Nat \ {0}
    BY <1>5, <1>6, <2>1
  <2>3. Len(d) \in Nat
    BY <1>5
  <2>4. \A s \in DOMAIN disk : disk[s].stable <= Len(disk[s].data)
    BY FileType DEF IInv
  <2>5. \A s \in DOMAIN disk' : disk'[s].stable <= Len(disk'[s].data)
    BY <1>5, <2>3, <2>4
  <2>6. DOMAIN disk' = DOMAIN disk
    BY <1>5
  <2>7. QED BY <1>1, <2>2, <2>5, <2>6 DEF IInv, TypeOK
<1>13. QED BY <1>7, <1>8, <1>9, <1>10, <1>11, <1>12 DEF IInv

-------------------------------------------------------------------------------
(* Cleaning.                                                                *)

\* What is left of a directory without its oldest files keeps its neighbours.
LEMMA UpperPart ==
  ASSUME NEW S, NEW K, K \subseteq S, \A a \in K : \A b \in S : a < b => b \in K
  PROVE  /\ \A a, b \in K : Adjacent(K, a, b) => Adjacent(S, a, b)
         /\ Successors(S) => Successors(K)
<1>1. \A a, b \in K : Adjacent(K, a, b) => Adjacent(S, a, b)
  BY DEF Adjacent
<1>2. ASSUME Successors(S), NEW a \in K
      PROVE  Newest(K, a) \/ \E b \in K : Adjacent(K, a, b)
  <2>1. CASE Newest(S, a)
    BY <1>2, <2>1 DEF Newest
  <2>2. CASE ~Newest(S, a)
    <3>1. PICK b \in S : Adjacent(S, a, b)
      BY <1>2, <2>2 DEF Successors
    <3>2. b \in K
      BY <1>2, <3>1 DEF Adjacent
    <3>3. Adjacent(K, a, b)
      BY <1>2, <3>1, <3>2 DEF Adjacent
    <3>4. QED BY <3>2, <3>3
  <2>3. QED BY <2>1, <2>2
<1>3. QED BY <1>1, <1>2 DEF Successors

\* Every segment but the current one ends in front of its neighbour.
LEMMA EndSeqNext ==
  ASSUME IInv, open, NEW s \in segs \ {cur}
  PROVE  s < cur /\ \E t \in segs : Adjacent(segs, s, t) /\ EndSeq(s) = t - 1
<1>1. segs \subseteq Nat \ {0} /\ Newest(segs, cur) /\ Successors(segs)
  BY DEF IInv, TypeOK, Directory
<1>2. s < cur /\ cur \in segs
  BY <1>1 DEF Newest
<1>3. ~Newest(segs, s)
  BY <1>1, <1>2 DEF Newest
<1>4. PICK t \in segs : Adjacent(segs, s, t)
  BY <1>1, <1>3 DEF Successors
<1>5. \A u \in segs : Adjacent(segs, s, u) => u = t
  BY <1>1, <1>4 DEF Adjacent
<1>6. (CHOOSE u \in segs : Adjacent(segs, s, u)) = t
  BY <1>4, <1>5
<1>7. \E u \in segs : u > s
  BY <1>1, <1>2
<1>8. EndSeq(s) = t - 1
  BY <1>6, <1>7 DEF EndSeq
<1>9. QED BY <1>2, <1>4, <1>8

\* The segments in front of an old one are old.
LEMMA OldestAreOld ==
  ASSUME IInv, open, NEW mark \in Nat
  PROVE  \A s \in Old(mark) : \A t \in segs : t < s => t \in Old(mark)
<1>1. SUFFICES ASSUME NEW s \in Old(mark), NEW t \in segs, t < s
               PROVE  t \in Old(mark)
  OBVIOUS
<1>2. segs \subseteq Nat \ {0} /\ s \in segs \ {cur} /\ EndSeq(s) < mark /\ cur \in segs
  BY CurrentFile DEF IInv, TypeOK, Old
<1>3. PICK u \in segs : s < cur /\ Adjacent(segs, s, u) /\ EndSeq(s) = u - 1
  BY <1>2, EndSeqNext
<1>4. s \in Nat /\ t \in Nat /\ cur \in Nat /\ u \in Nat
  BY <1>2
<1>5. t \in segs \ {cur}
  BY <1>1, <1>3, <1>4
<1>6. PICK v \in segs : Adjacent(segs, t, v) /\ EndSeq(t) = v - 1
  BY <1>5, EndSeqNext
<1>7. v \in Nat
  BY <1>2
<1>8. v <= s
  BY <1>1, <1>2, <1>4, <1>6, <1>7 DEF Adjacent
<1>9. s < u
  BY <1>3 DEF Adjacent
<1>10. EndSeq(t) < mark
  BY <1>2, <1>3, <1>4, <1>6, <1>7, <1>8, <1>9
<1>11. QED BY <1>5, <1>10 DEF Old

\* CleanOldSegments chooses the segments in front of the mark and flushes.
LEMMA CleanOldSegmentsKeeps ==
  ASSUME IInv, NEW mark \in 1..MaxSeq + 1, CleanOldSegments(mark)
  PROVE  IInv'
<1>1. /\ open /\ Idle /\ StartFlush("clean") /\ UNCHANGED <<disk, memory, history>>
      /\ call' = [NoCall EXCEPT !.mark = mark, !.todo = Old(mark)]
  BY DEF CleanOldSegments, Idle
<1>2. mark \in Nat
  BY OptionsAssumption
<1>3. Old(mark) \subseteq segs \ {cur} /\ segs \subseteq Nat \ {0}
  BY DEF Old, IInv, TypeOK
<1>4. call' \in Call /\ call'.todo = Old(mark) /\ call'.mark = mark
  BY <1>1, <1>2, <1>3, NoCallType DEF NoCall, Call
<1>5. /\ disk' = disk /\ segs' = segs /\ cur' = cur /\ nextSeq' = nextSeq
      /\ DOMAIN disk \subseteq segs
  BY <1>1 DEF memory, IInv, Directory
<1>6. Cleaning'
  <2>1. \A s \in Old(mark) : \A t \in DOMAIN disk : t < s => t \in Old(mark)
    BY <1>1, <1>2, <1>5, OldestAreOld
  <2>2. Old(call.mark)' = Old(mark)
    BY <1>4, <1>5 DEF Old, EndSeq
  <2>3. QED BY <1>4, <1>5, <2>1, <2>2 DEF Cleaning
<1>7. QED BY <1>1, <1>3, <1>4, <1>6, FlushStarts DEF Resumes

\* The oldest segment in line loses its handle, and maybe its file.
LEMMA OldestGoes ==
  ASSUME IInv, pc = "clean", NEW s \in call.todo, Oldest(call.todo, s),
         DOMAIN disk' = DOMAIN disk \/ DOMAIN disk' = DOMAIN disk \ {s},
         disk' = [t \in DOMAIN disk' |-> disk'[t]],
         \A t \in DOMAIN disk' :
           /\ disk'[t] \in File /\ disk'[t].data = disk[t].data
           /\ disk'[t].stable = disk[t].stable /\ disk'[t].dropped = disk[t].dropped
           /\ disk[t].named => disk'[t].named,
         shut' = shut \cup {s}, pc' \in {"clean", "idle"}, resume' = "idle",
         call' \in Call, call'.todo \subseteq call.todo, Cleaning',
         UNCHANGED <<open, segs, cur, pending, before, index, nextSeq, durable, unsynced>>,
         UNCHANGED history
  PROVE  IInv'
<1>1. /\ open /\ s \in segs /\ s # cur /\ DOMAIN disk \subseteq Nat \ {0} /\ s \in Nat
      /\ cur \in DOMAIN disk' /\ DOMAIN disk' \subseteq DOMAIN disk
  BY CurrentFile DEF IInv, TypeOK
<1>2. hist' = hist /\ promised' = promised
  BY DEF history
<1>3. \A a \in DOMAIN disk' : \A b \in DOMAIN disk : a < b => b \in DOMAIN disk'
  <2>1. SUFFICES ASSUME NEW a \in DOMAIN disk', a < s, s \in DOMAIN disk, s \notin DOMAIN disk'
                 PROVE  FALSE
    OBVIOUS
  <2>2. a \in call.todo /\ a \in Nat
    BY <1>1, <2>1 DEF IInv, Cleaning
  <2>3. QED BY <1>1, <2>1, <2>2 DEF Oldest
<1>4. /\ \A a, b \in DOMAIN disk' : Adjacent(DOMAIN disk', a, b) => Adjacent(DOMAIN disk, a, b)
      /\ Successors(DOMAIN disk) => Successors(DOMAIN disk')
  BY <1>1, <1>3, UpperPart
<1>5. FilesChained'
  <2>1. \A t \in DOMAIN disk' :
          /\ Chained(disk'[t].data, t - 1) /\ TornEnd(disk'[t].data)
          /\ t - 1 <= Len(hist) /\ Carries(disk'[t].data, hist) /\ ~disk'[t].dropped
    BY <1>1 DEF IInv, FilesChained
  <2>2. QED BY <1>2, <2>1 DEF FilesChained
<1>6. FilesLinked'
  <2>1. ASSUME NEW a \in DOMAIN disk', NEW b \in DOMAIN disk', a < b
        PROVE  /\ Stored(disk'[a]) /\ LastSeqOf(disk'[a].data, a - 1) < b
               /\ Adjacent(DOMAIN disk', a, b) => LastSeqOf(disk'[a].data, a - 1) + 1 = b
    <3>1. /\ Stored(disk[a]) /\ LastSeqOf(disk[a].data, a - 1) < b
          /\ Adjacent(DOMAIN disk, a, b) => LastSeqOf(disk[a].data, a - 1) + 1 = b
      BY <1>1, <2>1 DEF IInv, FilesLinked
    <3>2. QED BY <1>4, <3>1 DEF Stored
  <2>2. QED BY <2>1 DEF FilesLinked, Adjacent
<1>7. FilesSettled'
  BY <1>1 DEF FilesSettled
<1>8. Directory'
  BY <1>1, <1>4 DEF IInv, Directory
<1>9. Base' = Base /\ Body' = Body
  <2>1. Base' = Base
    BY <1>1 DEF Base
  <2>2. QED BY <2>1 DEF Body
<1>10. Current'
  BY <1>2, <1>9 DEF IInv, Current, Carries
<1>11. Unsynced'
  <2>1. disk'[cur].stable = disk[cur].stable /\ (disk[cur].named => disk'[cur].named)
    BY <1>1
  <2>2. QED BY <1>1, <1>9, <2>1 DEF IInv, Unsynced
<1>12. Control'
  BY <1>1 DEF IInv, Control
<1>13. Indexed'
  <2>1. \A t \in DOMAIN disk' : t \in DOMAIN disk /\ Logged(t)' = Logged(t)
    BY <1>1, <1>9 DEF Logged
  <2>2. QED BY <1>1, <2>1 DEF IInv, Indexed
<1>14. TypeOK'
  <2>1. DOMAIN disk' \subseteq Nat \ {0} /\ disk' \in [DOMAIN disk' -> File]
    BY <1>1
  <2>2. \A t \in DOMAIN disk' : disk'[t].stable <= Len(disk'[t].data)
    BY <1>1 DEF IInv, TypeOK
  <2>3. shut' \subseteq segs' /\ segs' \ shut' \subseteq DOMAIN disk' /\ cur' \in segs' \ shut'
    BY <1>1 DEF IInv, TypeOK
  <2>4. pc' \in Steps /\ call'.todo \subseteq segs' \ {cur'}
    BY DEF IInv, TypeOK, Steps
  <2>5. QED BY <1>1, <1>2, <2>1, <2>2, <2>3, <2>4 DEF IInv, TypeOK
<1>15. QED BY <1>5, <1>6, <1>7, <1>8, <1>10, <1>11, <1>12, <1>13, <1>14 DEF IInv

\* Each removal takes the oldest segment in line, and may fail.
LEMMA CleanSegmentKeeps ==
  ASSUME IInv, NEW s \in segs, CleanSegment(s) \/ CleanFails(s)
  PROVE  IInv'
<1>1. /\ pc = "clean" /\ Oldest(call.todo, s) /\ s \in call.todo /\ shut' = shut \cup {s}
      /\ UNCHANGED <<open, segs, cur, pending, before, index, nextSeq, durable, unsynced>>
      /\ UNCHANGED history
  BY DEF CleanSegment, CleanFails, Oldest
<1>2. disk \in [DOMAIN disk -> File] /\ call \in Call /\ resume = "idle"
  BY <1>1 DEF IInv, TypeOK
<1>3. CASE CleanSegment(s)
  <2>1. /\ disk' = [t \in DOMAIN disk \ {s} |-> [disk[t] EXCEPT !.named = TRUE]]
        /\ call' = [call EXCEPT !.todo = @ \ {s}] /\ pc' = "clean" /\ resume' = "idle"
    BY <1>1, <1>2, <1>3 DEF CleanSegment
  <2>2. /\ DOMAIN disk' = DOMAIN disk \ {s}
        /\ \A t \in DOMAIN disk' : disk'[t] = [disk[t] EXCEPT !.named = TRUE]
    BY <2>1
  <2>3. \A t \in DOMAIN disk' :
          /\ disk'[t] \in File /\ disk'[t].data = disk[t].data /\ disk'[t].named
          /\ disk'[t].stable = disk[t].stable /\ disk'[t].dropped = disk[t].dropped
    <3>1. SUFFICES ASSUME NEW t \in DOMAIN disk'
                   PROVE  /\ disk'[t] \in File /\ disk'[t].data = disk[t].data /\ disk'[t].named
                          /\ disk'[t].stable = disk[t].stable
                          /\ disk'[t].dropped = disk[t].dropped
      OBVIOUS
    <3>2. t \in DOMAIN disk /\ disk[t] \in File
      BY <1>2, <2>2, <3>1
    <3>3. disk'[t] = [disk[t] EXCEPT !.named = TRUE]
      BY <2>2, <3>1
    <3>4. QED BY <3>2, <3>3 DEF File
  <2>4. call' \in Call /\ call'.todo = call.todo \ {s} /\ call'.mark = call.mark
    BY <1>2, <2>1 DEF Call
  <2>5. Cleaning'
    <3>1. Old(call.mark)' = Old(call.mark)
      BY <1>1, <2>4 DEF Old, EndSeq
    <3>2. Old(call.mark) \cap DOMAIN disk \subseteq call.todo
      BY <1>1 DEF IInv, Cleaning
    <3>3. \A a \in call.todo : \A t \in DOMAIN disk : t < a => t \in call.todo
      BY DEF IInv, Cleaning
    <3>4. QED BY <2>2, <2>4, <3>1, <3>2, <3>3 DEF Cleaning
  <2>6. disk' = [t \in DOMAIN disk' |-> disk'[t]]
    BY <2>1
  <2>7. QED BY <1>1, <2>1, <2>2, <2>3, <2>4, <2>5, <2>6, OldestGoes
<1>4. CASE CleanFails(s)
  <2>1. /\ disk' = disk \/ disk' = [t \in DOMAIN disk \ {s} |-> disk[t]]
        /\ call' = NoCall /\ pc' = "idle" /\ resume' = "idle"
    BY <1>4 DEF CleanFails, Return
  <2>2. /\ DOMAIN disk' = DOMAIN disk \/ DOMAIN disk' = DOMAIN disk \ {s}
        /\ disk' = [t \in DOMAIN disk' |-> disk'[t]]
        /\ \A t \in DOMAIN disk' : disk'[t] = disk[t] /\ t \in DOMAIN disk
    BY <1>2, <2>1
  <2>3. Cleaning'
    BY <2>1, NoCallType DEF Cleaning
  <2>4. QED BY <1>1, <1>2, <2>1, <2>2, <2>3, NoCallType, OldestGoes
<1>5. QED BY <1>3, <1>4

\* The list and the index forget the removed segments.
LEMMA CleanReturnsKeeps ==
  ASSUME IInv, CleanReturns
  PROVE  IInv'
<1> DEFINE gone == Old(call.mark)
<1>1. /\ pc = "clean" /\ call.todo = {} /\ segs' = segs \ gone /\ shut' = shut \ gone
      /\ index' = [seq \in {q \in DOMAIN index : q >= call.mark} |-> index[seq]]
      /\ pc' = "idle" /\ resume' = "idle" /\ call' = NoCall
      /\ UNCHANGED <<disk, open, cur, pending, before, nextSeq, durable, unsynced>>
      /\ hist' = hist /\ promised' = promised
  BY DEF CleanReturns, Return, history
<1>2. open /\ cur \in segs /\ cur \notin gone /\ call.mark \in Nat
  BY <1>1, CurrentFile DEF IInv, TypeOK, Old, Call
<1>3. gone \cap DOMAIN disk = {}
  BY <1>1 DEF IInv, Cleaning
<1>4. \A a \in segs \ gone : \A b \in segs : a < b => b \in segs \ gone
  BY <1>2, OldestAreOld
<1>5. Successors(segs \ gone)
  BY <1>4, UpperPart DEF IInv, Directory
<1> HIDE DEF gone
<1>6. Directory'
  BY <1>1, <1>2, <1>3, <1>5 DEF IInv, Directory, Newest
<1>7. FilesChained' /\ FilesLinked' /\ FilesSettled' /\ Control'
  BY <1>1 DEF IInv, FilesChained, Carries, FilesLinked, FilesSettled, Control
<1>8. Cleaning'
  BY <1>1, NoCallType DEF Cleaning
<1>9. Base' = Base /\ Body' = Body
  BY <1>1 DEF Base, Body
<1>10. Current' /\ Unsynced'
  BY <1>1, <1>9 DEF IInv, Current, Carries, Unsynced
<1>11. \A q \in DOMAIN index' : q \in DOMAIN index /\ index'[q] = index[q]
  BY <1>1
<1>12. Indexed'
  BY <1>1, <1>9, <1>11 DEF IInv, Indexed, Logged
<1>13. TypeOK'
  <2>1. DOMAIN index' \subseteq Nat \ {0} /\ index' \in [DOMAIN index' -> Location]
    BY <1>1, <1>11 DEF IInv, TypeOK
  <2>2. shut' \subseteq segs' /\ segs' \ shut' \subseteq DOMAIN disk /\ cur \in segs' \ shut'
    BY <1>1, <1>2 DEF IInv, TypeOK
  <2>3. QED BY <1>1, <1>2, <2>1, <2>2, NoCallType DEF IInv, TypeOK, Steps
<1>14. QED BY <1>6, <1>7, <1>8, <1>10, <1>12, <1>13 DEF IInv

-------------------------------------------------------------------------------
(* The end of the process.                                                  *)

\* Only the newest file may be lost or cut, and the next process finds every
\* file settled.
LEMMA DownKeeps ==
  ASSUME IInv, Down, DOMAIN disk' \subseteq DOMAIN disk,
         disk' \in [DOMAIN disk' -> File],
         \A s \in DOMAIN disk \ DOMAIN disk' : Newest(DOMAIN disk, s),
         \A s \in DOMAIN disk' :
           /\ ~disk'[s].dropped
           /\ disk'[s].stable = Len(disk'[s].data) /\ disk'[s].named
           /\ RestOf(disk'[s].data, disk[s].data)
           /\ disk'[s].data = disk[s].data \/ Newest(DOMAIN disk, s)
  PROVE  IInv'
<1>1. /\ open' = FALSE /\ segs' = {} /\ shut' = {} /\ cur' = 0 /\ pending' = <<>>
      /\ before' = 0 /\ index' = <<>> /\ nextSeq' = 1 /\ durable' = 0 /\ unsynced' = 0
      /\ pc' = "idle" /\ resume' = "idle" /\ call' = NoCall
      /\ hist' = hist /\ promised' = promised
  BY DEF Down, Return, history
<1>2. \A s \in DOMAIN disk : /\ s \in Nat \ {0} /\ s - 1 \in Nat
                             /\ disk[s].data \in Seq(Frame)
  BY FileType DEF IInv
<1>3. FilesChained'
  <2>1. SUFFICES ASSUME NEW s \in DOMAIN disk'
                 PROVE  /\ Chained(disk'[s].data, s - 1) /\ TornEnd(disk'[s].data)
                        /\ s - 1 <= Len(hist) /\ Carries(disk'[s].data, hist)
                        /\ ~disk'[s].dropped
    BY <1>1 DEF FilesChained
  <2>2. /\ Chained(disk[s].data, s - 1) /\ s - 1 <= Len(hist) /\ Carries(disk[s].data, hist)
        /\ disk[s].data \in Seq(Frame) /\ s - 1 \in Nat
    BY <1>2 DEF IInv, FilesChained
  <2>3. RestOf(disk'[s].data, disk[s].data) /\ ~disk'[s].dropped
    OBVIOUS
  <2>4. Chained(disk'[s].data, s - 1)
    BY <2>2, <2>3, RestChained
  <2>5. Carries(disk'[s].data, hist)
    BY <2>2, <2>3 DEF RestOf, Carries
  <2>6. QED BY <2>2, <2>3, <2>4, <2>5 DEF RestOf
<1>4. \A a, b \in DOMAIN disk' : Adjacent(DOMAIN disk', a, b) => Adjacent(DOMAIN disk, a, b)
  <2>1. SUFFICES ASSUME NEW a \in DOMAIN disk', NEW b \in DOMAIN disk', NEW r \in DOMAIN disk,
                        r \notin DOMAIN disk', r < b
                 PROVE  FALSE
    BY DEF Adjacent
  <2>2. b <= r /\ b \in Nat /\ r \in Nat
    BY <1>2, <2>1 DEF Newest
  <2>3. QED BY <2>1, <2>2
<1>5. FilesLinked'
  <2>1. ASSUME NEW a \in DOMAIN disk', NEW b \in DOMAIN disk', a < b
        PROVE  /\ Stored(disk'[a]) /\ LastSeqOf(disk'[a].data, a - 1) < b
               /\ Adjacent(DOMAIN disk', a, b) => LastSeqOf(disk'[a].data, a - 1) + 1 = b
    <3>1. ~Newest(DOMAIN disk, a)
      BY <1>2, <2>1 DEF Newest
    <3>2. disk'[a].data = disk[a].data /\ disk'[a].stable = Len(disk'[a].data) /\ disk'[a].named
      BY <3>1
    <3>3. /\ Stored(disk[a]) /\ LastSeqOf(disk[a].data, a - 1) < b
          /\ Adjacent(DOMAIN disk, a, b) => LastSeqOf(disk[a].data, a - 1) + 1 = b
      BY <2>1 DEF IInv, FilesLinked
    <3>4. QED BY <1>4, <3>2, <3>3 DEF Stored
  <2>2. QED BY <2>1 DEF FilesLinked, Adjacent
<1>6. FilesSettled'
  BY DEF FilesSettled
<1>7. Successors(DOMAIN disk')
  <2>1. SUFFICES ASSUME NEW a \in DOMAIN disk', ~Newest(DOMAIN disk', a)
                 PROVE  \E b \in DOMAIN disk' : Adjacent(DOMAIN disk', a, b)
    BY DEF Successors
  <2>2. PICK t \in DOMAIN disk' : a < t
    <3>1. PICK t \in DOMAIN disk' : ~(t <= a)
      BY <2>1 DEF Newest
    <3>2. t \in Nat /\ a \in Nat
      BY <1>2
    <3>3. QED BY <3>1, <3>2
  <2>3. ~Newest(DOMAIN disk, a)
    BY <1>2, <2>2 DEF Newest
  <2>4. PICK b \in DOMAIN disk : Adjacent(DOMAIN disk, a, b)
    BY <2>3 DEF IInv, Directory, Successors
  <2>5. b \in DOMAIN disk'
    <3>1. SUFFICES ASSUME b \notin DOMAIN disk' PROVE FALSE
      OBVIOUS
    <3>2. t <= b /\ t # b /\ t \in Nat /\ b \in Nat
      BY <1>2, <3>1 DEF Newest
    <3>3. t < b
      BY <3>2
    <3>4. QED BY <2>2, <2>4, <3>3 DEF Adjacent
  <2>6. Adjacent(DOMAIN disk', a, b)
    BY <2>4, <2>5 DEF Adjacent
  <2>7. QED BY <2>5, <2>6
<1>8. Directory'
  BY <1>1, <1>7 DEF Directory, Successors
<1>9. Cleaning'
  BY <1>1, NoCallType DEF Cleaning
<1>10. Current' /\ Unsynced' /\ Indexed' /\ Control'
  BY <1>1 DEF Current, Unsynced, Indexed, Control
<1>11. TypeOK'
  <2>1. DOMAIN disk' \subseteq Nat \ {0} /\ disk' \in [DOMAIN disk' -> File]
    BY <1>2
  <2>2. \A s \in DOMAIN disk' : disk'[s].stable <= Len(disk'[s].data)
    <3>1. SUFFICES ASSUME NEW s \in DOMAIN disk' PROVE disk'[s].stable <= Len(disk'[s].data)
      OBVIOUS
    <3>2. disk'[s].data \in Seq(Frame) /\ disk'[s].stable = Len(disk'[s].data)
      BY DEF RestOf
    <3>3. QED BY <3>2
  <2>3. DOMAIN index' = {} /\ index' \in [DOMAIN index' -> Location] /\ pending' \in Seq(Frame)
    BY <1>1
  <2>4. hist' \in Seq(Payloads) /\ promised' \in Nat
    BY <1>1 DEF IInv, TypeOK
  <2>5. segs' \subseteq Nat \ {0} /\ shut' \subseteq segs' /\ segs' \ shut' \subseteq DOMAIN disk'
        /\ call'.todo \subseteq segs' \ {cur'}
    BY <1>1, NoCallType
  <2>6. open' \in BOOLEAN
    BY <1>1, Zenon
  <2>7. ~open'
    BY <1>1, Zenon
  <2>8. /\ open' \in BOOLEAN /\ ~open' /\ segs' = {} /\ cur' = 0
        /\ before' \in Nat /\ nextSeq' \in Nat \ {0} /\ durable' \in Nat /\ unsynced' \in Nat
    BY <1>1, <2>6, <2>7
  <2>9. pc' \in Steps /\ pc' = "idle" /\ resume' = "idle" /\ call' \in Call
    BY <1>1, NoCallType DEF Steps
  <2>10. DOMAIN index' \subseteq Nat \ {0}
    BY <2>3
  <2>11. QED BY <2>1, <2>2, <2>3, <2>4, <2>5, <2>8, <2>9, <2>10 DEF TypeOK
<1>12. QED BY <1>3, <1>5, <1>6, <1>8, <1>9, <1>10, <1>11 DEF IInv

\* All of a segment is a rest of it.
LEMMA WholeRest ==
  ASSUME NEW d \in Seq(Frame), TornEnd(d)
  PROVE  RestOf(d, d)
BY DEF RestOf

\* What a dead process wrote reaches the disk.
LEMMA CrashKeeps ==
  ASSUME SoundEnvironment, IInv, CloseReturns \/ ProcessCrash
  PROVE  IInv'
<1>1. Down /\ disk' = LeftBehind
  BY DEF CloseReturns, ProcessCrash
<1>2. disk' = [s \in DOMAIN disk |->
                 [disk[s] EXCEPT !.named = TRUE,
                                 !.stable = IF disk[s].dropped THEN @ ELSE Len(disk[s].data)]]
  BY <1>1 DEF LeftBehind, SoundEnvironment
<1>3. ASSUME NEW s \in DOMAIN disk
      PROVE  /\ disk'[s] \in File /\ ~disk'[s].dropped
             /\ disk'[s].stable = Len(disk'[s].data) /\ disk'[s].named
             /\ RestOf(disk'[s].data, disk[s].data) /\ disk'[s].data = disk[s].data
  <2>1. disk[s] \in File /\ disk[s].data \in Seq(Frame) /\ ~disk[s].dropped /\ TornEnd(disk[s].data)
    BY FileType DEF IInv, FilesChained
  <2>2. disk'[s] = [disk[s] EXCEPT !.named = TRUE, !.stable = Len(disk[s].data)]
    BY <1>2, <2>1
  <2>3. Len(disk[s].data) \in Nat
    BY <2>1
  <2>4. /\ disk'[s] \in File /\ disk'[s].dropped = disk[s].dropped
        /\ disk'[s].stable = Len(disk[s].data) /\ disk'[s].named
        /\ disk'[s].data = disk[s].data
    BY <2>1, <2>2, <2>3 DEF File
  <2>5. QED BY <2>1, <2>4, WholeRest
<1>4. DOMAIN disk' = DOMAIN disk /\ disk' \in [DOMAIN disk' -> File]
  BY <1>2, <1>3
<1>5. QED BY <1>1, <1>3, <1>4, DownKeeps

\* What a loss of power leaves of a file is a rest of its frames.
LEMMA RemainsRest ==
  ASSUME NEW f \in File, TornEnd(f.data), f.stable <= Len(f.data), NEW e \in Remains(f)
  PROVE  RestOf(e, f.data)
<1>1. f.data \in Seq(Frame) /\ f.stable \in Nat /\ Len(f.data) \in Nat
  BY DEF File
<1>2. CASE \E k \in f.stable..Len(f.data) : e = SubSeq(f.data, 1, k)
  <2>1. PICK k \in f.stable..Len(f.data) : e = CutTo(f.data, k)
    BY <1>2 DEF CutTo
  <2>2. k \in 0..Len(f.data)
    BY <1>1
  <2>3. QED BY <1>1, <2>1, <2>2, CutToRest
<1>3. CASE \E k \in f.stable..Len(f.data) - 1 :
             e = Append(SubSeq(f.data, 1, k), [f.data[k+1] EXCEPT !.kind = "torn"])
  <2>1. PICK k \in f.stable..Len(f.data) - 1 : e = TornAt(f.data, k)
    BY <1>3 DEF TornAt
  <2>2. k \in 0..Len(f.data) - 1
    BY <1>1
  <2>3. QED BY <1>1, <2>1, <2>2, TornAtRest
<1>4. QED BY <1>2, <1>3 DEF Remains

\* A loss of power cuts or drops the newest file only.
LEMMA PowerLossKeeps ==
  ASSUME IInv, PowerLoss
  PROVE  IInv'
<1>1. PICK gone \in SUBSET {s \in DOMAIN disk : ~disk[s].named} :
        \E left \in [Dirty \ gone -> UNION {Remains(disk[s]) : s \in Dirty}] :
          /\ \A s \in Dirty \ gone : left[s] \in Remains(disk[s])
          /\ disk' = [s \in DOMAIN disk \ gone |->
                        Settled(IF s \in Dirty THEN left[s] ELSE disk[s].data)]
          /\ Down
  BY DEF PowerLoss
<1>2. PICK left \in [Dirty \ gone -> UNION {Remains(disk[s]) : s \in Dirty}] :
        /\ \A s \in Dirty \ gone : left[s] \in Remains(disk[s])
        /\ disk' = [s \in DOMAIN disk \ gone |->
                      Settled(IF s \in Dirty THEN left[s] ELSE disk[s].data)]
        /\ Down
  BY <1>1
<1>3. \A s \in DOMAIN disk :
        /\ s \in Nat /\ disk[s] \in File /\ disk[s].data \in Seq(Frame)
        /\ disk[s].stable <= Len(disk[s].data) /\ TornEnd(disk[s].data)
  BY FileType DEF IInv, FilesChained
<1>4. ASSUME NEW s \in DOMAIN disk, ~Newest(DOMAIN disk, s)
      PROVE  s \notin Dirty /\ disk[s].named
  <2>1. PICK t \in DOMAIN disk : ~(t <= s)
    BY <1>4 DEF Newest
  <2>2. s < t
    BY <1>3, <2>1
  <2>3. disk[s].stable = Len(disk[s].data) /\ disk[s].named
    BY <2>2 DEF IInv, FilesLinked, Stored
  <2>4. Len(disk[s].data) \in Nat
    BY <1>3
  <2>5. QED BY <2>3, <2>4 DEF Dirty
<1>5. DOMAIN disk' = DOMAIN disk \ gone
  BY <1>2
<1>6. ASSUME NEW s \in DOMAIN disk'
      PROVE  /\ disk'[s] \in File /\ ~disk'[s].dropped
             /\ disk'[s].stable = Len(disk'[s].data) /\ disk'[s].named
             /\ RestOf(disk'[s].data, disk[s].data)
             /\ disk'[s].data = disk[s].data \/ Newest(DOMAIN disk, s)
  <2> DEFINE e == IF s \in Dirty THEN left[s] ELSE disk[s].data
  <2>1. s \in DOMAIN disk /\ s \notin gone
    BY <1>5
  <2>2. RestOf(e, disk[s].data)
    <3>1. CASE s \in Dirty
      BY <1>2, <1>3, <2>1, <3>1, RemainsRest
    <3>2. CASE s \notin Dirty
      BY <1>3, <2>1, <3>2, WholeRest
    <3>3. QED BY <3>1, <3>2
  <2>3. e = disk[s].data \/ Newest(DOMAIN disk, s)
    BY <1>4, <2>1
  <2>4. disk'[s] = Settled(e)
    BY <1>2, <2>1
  <2> HIDE DEF e
  <2>5. e \in Seq(Frame) /\ Len(e) \in Nat
    BY <2>2 DEF RestOf
  <2>6. /\ Settled(e) \in File /\ ~Settled(e).dropped /\ Settled(e).data = e
        /\ Settled(e).stable = Len(e) /\ Settled(e).named
    BY <2>5 DEF Settled, File
  <2>7. QED BY <2>2, <2>3, <2>4, <2>6
<1>7. disk' \in [DOMAIN disk' -> File]
  BY <1>2, <1>6
<1>8. \A s \in DOMAIN disk \ DOMAIN disk' : Newest(DOMAIN disk, s)
  BY <1>4, <1>5
<1>9. QED BY <1>2, <1>5, <1>6, <1>7, <1>8, DownKeeps

-------------------------------------------------------------------------------
(* The invariant is inductive.                                              *)
LEMMA InitEstablishes ==
  ASSUME Init
  PROVE  IInv
<1>1. /\ disk = <<>> /\ open = FALSE /\ segs = {} /\ shut = {} /\ cur = 0
      /\ pending = <<>> /\ before = 0 /\ index = <<>>
      /\ nextSeq = 1 /\ durable = 0 /\ unsynced = 0
      /\ pc = "idle" /\ resume = "idle" /\ call = NoCall
      /\ hist = <<>> /\ promised = 0
  BY DEF Init
<1>2. DOMAIN disk = {} /\ DOMAIN index = {} /\ ~open
  <2>1. DOMAIN disk = {} /\ DOMAIN index = {}
    BY <1>1
  <2>2. ~open
    BY <1>1, Zenon
  <2>3. QED BY <2>1, <2>2
<1>3. TypeOK
  <2>1. disk \in [DOMAIN disk -> File] /\ index \in [DOMAIN index -> Location]
    BY <1>1, <1>2
  <2>2. pc \in Steps
    BY <1>1 DEF Steps
  <2>3. open \in BOOLEAN
    BY <1>1, Zenon
  <2>4. /\ segs \subseteq Nat \ {0} /\ shut \subseteq segs /\ segs \ shut \subseteq DOMAIN disk
        /\ segs = {} /\ cur = 0 /\ pc = "idle" /\ resume = "idle"
        /\ call \in Call /\ call.todo \subseteq segs \ {cur}
    BY <1>1, NoCallType
  <2>5. /\ pending \in Seq(Frame) /\ hist \in Seq(Payloads)
        /\ before \in Nat /\ nextSeq \in Nat \ {0} /\ durable \in Nat /\ unsynced \in Nat
        /\ promised \in Nat
    BY <1>1
  <2>6. QED BY <1>2, <2>1, <2>2, <2>3, <2>4, <2>5 DEF TypeOK
<1>4. FilesChained /\ FilesLinked /\ FilesSettled /\ Directory
  BY <1>1, <1>2 DEF FilesChained, FilesLinked, FilesSettled, Directory, Successors
<1>5. Cleaning /\ Current /\ Unsynced /\ Control /\ Indexed
  BY <1>1, <1>2, NoCallType DEF Cleaning, Current, Unsynced, Control, Indexed
<1>6. QED BY <1>3, <1>4, <1>5 DEF IInv

\* Every step of an append keeps the invariant.
LEMMA AppendsKeep ==
  ASSUME SoundEnvironment, IInv, Appends
  PROVE  IInv'
<1>1. CASE \E p \in Payloads, force \in BOOLEAN : AppendInPlace(p, force)
  BY <1>1, AppendKeeps
<1>2. CASE \E p \in Payloads, force \in BOOLEAN : AppendRotating(p, force)
  BY <1>2, AppendRotatingKeeps
<1>3. CASE CreateSegment
  BY <1>3, CreateSegmentKeeps
<1>4. CASE CreateFails
  BY <1>4, FailuresKeep
<1>5. CASE AppendToNewSegment
  BY <1>5, AppendKeeps
<1>6. QED BY <1>1, <1>2, <1>3, <1>4, <1>5 DEF Appends

\* Every step of a flush keeps it; a rollback never fails here.
LEMMA FlushesKeep ==
  ASSUME SoundEnvironment, IInv, Flushes
  PROVE  IInv'
<1>1. CASE Sync \/ PeriodicFlush
  BY <1>1, SyncKeeps
<1>2. CASE WriteAll \/ WriteRest
  BY <1>2, WriteAllKeeps
<1>3. CASE SyncFile
  BY <1>3, SyncFileKeeps
<1>4. CASE \E k \in 0..Len(pending), torn \in BOOLEAN : WritePart(k, torn)
  BY <1>4, WritePartKeeps
<1>5. CASE Rollback
  BY <1>5, RollbackKeeps
<1>6. CASE WriteFails \/ SyncFails
  BY <1>6, FailuresKeep
<1>7. CASE RollbackFails
  BY <1>7 DEF RollbackFails, SoundEnvironment
<1>8. QED BY <1>1, <1>2, <1>3, <1>4, <1>5, <1>6, <1>7 DEF Flushes

\* Every step of Recover and Open keeps it.
LEMMA RecoveriesKeep ==
  ASSUME SoundEnvironment, IInv, Recoveries
  PROVE  IInv'
<1>1. CASE Recover
  BY <1>1, SyncKeeps
<1>2. CASE RecoverFails
  BY <1>2, FailuresKeep
<1>3. CASE \E top \in segs \cap DOMAIN disk :
             \E k \in 0..Len(disk[top].data) : RecoverScan(top, k)
  BY <1>3, RecoverScanKeeps
<1>4. CASE \E top \in DOMAIN disk :
             \E k \in 0..Len(disk[top].data) : OpenDirectory(top, k) \/ OpenInterrupted(top, k)
  BY <1>4, OpenDirectoryKeeps, OpenInterruptedKeeps
<1>5. CASE OpenEmptyDirectory
  BY <1>5, OpenEmptyDirectoryKeeps
<1>6. QED BY <1>1, <1>2, <1>3, <1>4, <1>5, RecoveriesSplit

\* Every step of a cleaning keeps it; nobody corrupts a record here.
LEMMA CleaningsKeep ==
  ASSUME SoundEnvironment, IInv, Cleanings
  PROVE  IInv'
<1>1. CASE \E mark \in 1..MaxSeq + 1 : CleanOldSegments(mark)
  BY <1>1, CleanOldSegmentsKeeps
<1>2. CASE \E s \in segs : CleanSegment(s) \/ CleanFails(s)
  BY <1>2, CleanSegmentKeeps
<1>3. CASE CleanReturns
  BY <1>3, CleanReturnsKeeps
<1>4. CASE \E seq \in 1..MaxSeq : Corrupt(seq)
  BY <1>4 DEF Corrupt, SoundEnvironment
<1>5. CASE CorruptFlips
  BY <1>5 DEF CorruptFlips, IInv, Control
<1>6. QED BY <1>1, <1>2, <1>3, <1>4, <1>5 DEF Cleanings

\* Every way a process ends keeps it.
LEMMA EndingsKeep ==
  ASSUME SoundEnvironment, IInv, Endings
  PROVE  IInv'
<1>1. CASE Close
  BY <1>1, SyncKeeps
<1>2. CASE CloseReturns \/ ProcessCrash
  BY <1>2, CrashKeeps
<1>3. CASE PowerLoss
  BY <1>3, PowerLossKeeps
<1>4. QED BY <1>1, <1>2, <1>3 DEF Endings

\* A step that changes nothing keeps it.
LEMMA StutterKeeps ==
  ASSUME IInv, UNCHANGED vars
  PROVE  IInv'
<1>1. /\ disk' = disk /\ open' = open /\ segs' = segs /\ shut' = shut /\ cur' = cur
      /\ pending' = pending /\ before' = before /\ index' = index /\ nextSeq' = nextSeq
      /\ durable' = durable /\ unsynced' = unsynced /\ pc' = pc /\ resume' = resume
      /\ call' = call /\ hist' = hist /\ promised' = promised
  BY DEF vars, memory, control, history
<1>2. Base' = Base /\ Body' = Body /\ Old(call.mark)' = Old(call.mark)
  BY <1>1 DEF Base, Body, Old, EndSeq
<1>3. TypeOK'
  BY <1>1 DEF IInv, TypeOK
<1>4. FilesChained' /\ FilesLinked' /\ FilesSettled' /\ Directory'
  BY <1>1 DEF IInv, FilesChained, Carries, FilesLinked, FilesSettled, Directory
<1>5. Cleaning' /\ Control'
  BY <1>1, <1>2 DEF IInv, Cleaning, Control
<1>6. Current' /\ Unsynced' /\ Indexed'
  BY <1>1, <1>2 DEF IInv, Current, Carries, Unsynced, Indexed, Logged
<1>7. QED BY <1>3, <1>4, <1>5, <1>6 DEF IInv

\* Every step of the WAL keeps the invariant.
THEOREM Inductive ==
  ASSUME SoundEnvironment
  PROVE  Spec => []IInv
<1>1. Init => IInv
  BY InitEstablishes
<1>2. IInv /\ [Next]_vars => IInv'
  <2>1. SUFFICES ASSUME IInv, [Next]_vars PROVE IInv'
    OBVIOUS
  <2>2. CASE Appends
    BY <2>1, <2>2, AppendsKeep
  <2>3. CASE Flushes
    BY <2>1, <2>3, FlushesKeep
  <2>4. CASE Recoveries
    BY <2>1, <2>4, RecoveriesKeep
  <2>5. CASE Cleanings
    BY <2>1, <2>5, CleaningsKeep
  <2>6. CASE Endings
    BY <2>1, <2>6, EndingsKeep
  <2>7. CASE UNCHANGED vars
    BY <2>1, <2>7, StutterKeeps
  <2>8. QED BY <2>1, <2>2, <2>3, <2>4, <2>5, <2>6, <2>7 DEF Next
<1>3. QED BY <1>1, <1>2, PTL DEF Spec

-------------------------------------------------------------------------------
(* What the invariant implies.                                              *)

\* Open accepts whatever a crash or a loss of power leaves of the directory: a torn
\* tail is never taken for corruption (Scan, scanSegment and trimTail).
THEOREM AlwaysRecoverable ==
  ASSUME SoundEnvironment
  PROVE  Spec => []Recoverable
<1>1. IInv => Recoverable
  <2>1. SUFFICES ASSUME IInv PROVE ~Refuses(Contents(DOMAIN disk))
    BY DEF Recoverable
  <2> DEFINE files == Contents(DOMAIN disk)
  <2>2. DOMAIN files = DOMAIN disk /\ \A s \in DOMAIN disk : files[s] = disk[s].data
    BY DEF Contents
  <2>3. \A s \in DOMAIN disk : /\ disk[s].data \in Seq(Frame) /\ s - 1 \in Nat
                               /\ Chained(disk[s].data, s - 1) /\ TornEnd(disk[s].data)
    BY <2>1, FileType DEF IInv, FilesChained
  <2>4. Linked(files)
    <3>1. SUFFICES ASSUME NEW s \in DOMAIN disk, NEW t \in DOMAIN disk,
                          Adjacent(DOMAIN disk, s, t)
                   PROVE  /\ Intact(disk[s].data, s - 1)
                          /\ LastSeqOf(disk[s].data, s - 1) + 1 = t
      BY <2>2 DEF Linked
    <3>2. Stored(disk[s]) /\ LastSeqOf(disk[s].data, s - 1) + 1 = t
      BY <2>1, <3>1 DEF IInv, FilesLinked, Adjacent
    <3>3. QED BY <2>3, <3>2, StoredIsIntact DEF Stored
  <2>5. \A top \in DOMAIN disk : ~ScanRefuses(disk[top].data, top - 1)
    BY <2>3, TornIsNotRefused
  <2>6. QED BY <2>2, <2>4, <2>5 DEF Refuses
<1>2. QED BY <1>1, Inductive, PTL

\* A record up to DurableSeq lies, whole, in the part of a file that a loss of
\* power keeps: flushLocked raises the watermark only behind a successful fsync, a
\* rotation never leaves unsynced records behind, and a recovery or the truncation
\* of a torn tail never counts an unsynced record as durable.
THEOREM AlwaysDurableConfirmed ==
  ASSUME SoundEnvironment
  PROVE  Spec => []DurableConfirmed
<1>1. IInv => DurableConfirmed
  <2>1. SUFFICES ASSUME IInv, Idle, NEW seq \in DOMAIN index, seq <= durable,
                        index[seq].seg \in segs \ shut
                 PROVE  /\ disk[index[seq].seg].named
                        /\ index[seq].off + index[seq].n <= disk[index[seq].seg].stable
    BY DEF DurableConfirmed
  <2> DEFINE loc == index[seq]
             s   == index[seq].seg
  <2>2. /\ open /\ TypeOK /\ Current /\ pc = "idle" /\ s \in segs /\ s \in DOMAIN disk
        /\ loc \in Location
    BY <2>1 DEF IInv, TypeOK, Idle
  <2>3. loc.off \in Nat /\ loc.n \in Nat \ {0}
    BY <2>2 DEF Location
  <2>4. LiesAt(Logged(s), seq, loc)
    BY <2>1, <2>2 DEF IInv, Indexed
  <2>5. CASE s = cur
    <3>1. Logged(s) = Body /\ Body \in Seq(Frame)
      BY <2>2, <2>5, CurrentFile DEF Logged
    <3>2. loc.off + loc.n \in 1..Len(Body) /\ Body[loc.off + loc.n].seq = seq
      BY <2>3, <2>4, <3>1 DEF LiesAt
    <3>3. loc.off + loc.n <= disk[cur].stable /\ disk[cur].named
      BY <2>1, <2>2, <3>2 DEF IInv, Unsynced
    <3>4. QED BY <2>5, <3>3
  <2>6. CASE s # cur
    <3>1. cur \in DOMAIN disk /\ s \in Nat /\ cur \in Nat /\ s <= cur
      BY <2>1, <2>2, CurrentFile, FileType DEF IInv, Directory, Newest
    <3>2. s < cur
      BY <2>6, <3>1
    <3>3. Stored(disk[s])
      BY <2>1, <2>2, <3>1, <3>2 DEF IInv, FilesLinked
    <3>4. Logged(s) = disk[s].data
      BY <2>6 DEF Logged
    <3>5. QED BY <2>4, <3>3, <3>4 DEF Stored, LiesAt
  <2>7. QED BY <2>5, <2>6
<1>2. QED BY <1>1, Inductive, PTL

-------------------------------------------------------------------------------
(* Every environment, whatever fails, is lost or is damaged: what frames    *)
(* say of records stays true.                                               *)

\* The frames of d, whole or damaged, are those of the records of the log, and where
\* two of one record meet, the second is the next one.
Genuine(d, log) ==
  /\ Carries(d, log)
  /\ \A i \in 1..Len(d) - 1 : d[i+1].seq = d[i].seq => d[i+1].part = d[i].part + 1

\* The frames of e are the first of d, but for the damage.
Front(e, d) ==
  /\ e \in Seq(Frame) /\ Len(e) <= Len(d)
  /\ \A i \in 1..Len(e) : /\ e[i].seq = d[i].seq /\ e[i].part = d[i].part
                          /\ e[i].payload = d[i].payload

LEMMA FrontGenuine ==
  ASSUME NEW d \in Seq(Frame), NEW log, Genuine(d, log), NEW e, Front(e, d)
  PROVE  Genuine(e, log)
<1>1. /\ Len(e) \in Nat /\ Len(d) \in Nat /\ Len(e) <= Len(d)
      /\ \A i \in 1..Len(e) : /\ e[i].seq = d[i].seq /\ e[i].part = d[i].part
                              /\ e[i].payload = d[i].payload
  BY DEF Front
<1>2. Carries(e, log)
  BY <1>1 DEF Genuine, Carries
<1>3. ASSUME NEW i \in 1..Len(e) - 1, e[i+1].seq = e[i].seq
      PROVE  e[i+1].part = e[i].part + 1
  <2>1. i \in 1..Len(e) /\ i + 1 \in 1..Len(e) /\ i \in 1..Len(d) - 1
    BY <1>1
  <2>2. d[i+1].seq = d[i].seq
    BY <1>1, <1>3, <2>1
  <2>3. d[i+1].part = d[i].part + 1
    BY <2>1, <2>2 DEF Genuine
  <2>4. QED BY <1>1, <2>1, <2>3
<1>4. QED BY <1>2, <1>3 DEF Genuine

LEMMA CutIsFront ==
  ASSUME NEW d \in Seq(Frame), NEW k \in 0..Len(d)
  PROVE  Front(SubSeq(d, 1, k), d) /\ Len(SubSeq(d, 1, k)) = k
<1>1. SubSeq(d, 1, k) \in Seq(Frame) /\ Len(SubSeq(d, 1, k)) = k
      /\ \A i \in 1..k : SubSeq(d, 1, k)[i] = d[i]
  OBVIOUS
<1> DEFINE e == SubSeq(d, 1, k)
<1> HIDE DEF e
<1>2. QED BY <1>1 DEF e, Front

LEMMA TornIsFront ==
  ASSUME NEW d \in Seq(Frame), NEW k \in 0..Len(d) - 1
  PROVE  /\ Front(Append(SubSeq(d, 1, k), [d[k+1] EXCEPT !.kind = "torn"]), d)
         /\ Len(Append(SubSeq(d, 1, k), [d[k+1] EXCEPT !.kind = "torn"])) = k + 1
<1> DEFINE c == SubSeq(d, 1, k)
           f == [d[k+1] EXCEPT !.kind = "torn"]
           e == Append(c, f)
<1>1. c \in Seq(Frame) /\ Len(c) = k /\ \A i \in 1..k : c[i] = d[i]
  OBVIOUS
<1> HIDE DEF c
<1>2. d[k+1] \in Frame
  OBVIOUS
<1>3. /\ f \in Frame /\ f.seq = d[k+1].seq /\ f.part = d[k+1].part
      /\ f.payload = d[k+1].payload
  BY <1>2 DEF Frame
<1> HIDE DEF f
<1>4. e \in Seq(Frame) /\ Len(e) = k + 1 /\ e[k+1] = f /\ \A i \in 1..k : e[i] = d[i]
  BY <1>1, <1>3
<1> HIDE DEF e
<1>5. \A i \in 1..k+1 : i \in 1..k \/ i = k + 1
  OBVIOUS
<1>6. Front(e, d)
  BY <1>3, <1>4, <1>5 DEF Front
<1>7. QED BY <1>4, <1>6 DEF e, f, c

\* One byte of a frame is inverted.
LEMMA FlippedIsFront ==
  ASSUME NEW d \in Seq(Frame), NEW i
  PROVE  Front([d EXCEPT ![i] = Flipped(d[i])], d)
         /\ Len([d EXCEPT ![i] = Flipped(d[i])]) = Len(d)
<1>1. CASE i \in 1..Len(d)
  <2> DEFINE f == d[i]
             k == CASE f.kind = "ok" -> "bad" [] f.kind = "bad" -> "ok" [] OTHER -> f.kind
             w == Flipped(f)
             e == [d EXCEPT ![i] = w]
  <2>1. f \in Frame
    BY <1>1
  <2>2. k \in {"ok", "torn", "bad"}
    BY <2>1 DEF Frame
  <2>3. w = [f EXCEPT !.kind = k]
    BY DEF Flipped
  <2> HIDE DEF k, f
  <2>4. w \in Frame /\ w.seq = f.seq /\ w.part = f.part /\ w.payload = f.payload
    BY <2>1, <2>2, <2>3 DEF Frame
  <2> HIDE DEF w
  <2>5. e \in Seq(Frame) /\ Len(e) = Len(d)
        /\ \A j \in 1..Len(d) : e[j] = IF j = i THEN w ELSE d[j]
    BY <1>1, <2>4, ExceptSeq
  <2> HIDE DEF e
  <2>6. Front(e, d)
    BY <2>4, <2>5 DEF Front, f
  <2>7. QED BY <2>5, <2>6 DEF e, w, f
<1>2. CASE i \notin 1..Len(d)
  <2>1. d \in [1..Len(d) -> Frame]
    OBVIOUS
  <2>2. [d EXCEPT ![i] = Flipped(d[i])] = d
    BY <1>2, <2>1
  <2>3. Front(d, d)
    BY DEF Front
  <2>4. QED BY <2>2, <2>3
<1>3. QED BY <1>1, <1>2

\* A log that is cut behind every record of a segment.
LEMMA GenuineBelow ==
  ASSUME NEW d \in Seq(Frame), NEW log \in Seq(Payloads), Genuine(d, log),
         NEW n \in 0..Len(log), \A i \in 1..Len(d) : d[i].seq <= n
  PROVE  Genuine(d, SubSeq(log, 1, n))
<1> DEFINE h == SubSeq(log, 1, n)
<1>1. Len(h) = n /\ \A q \in 1..n : h[q] = log[q]
  OBVIOUS
<1> HIDE DEF h
<1>2. \A i \in 1..Len(d) : d[i].seq \in 1..n
  BY FrameTypes
<1>3. Carries(d, h)
  BY <1>1, <1>2 DEF Genuine, Carries
<1>4. QED BY <1>3 DEF Genuine, h

\* The next record of the log joins a segment.
LEMMA GenuineAppend ==
  ASSUME NEW d \in Seq(Frame), NEW log \in Seq(Payloads), Genuine(d, log), NEW p \in Payloads
  PROVE  Genuine(d \o Fragments(Len(log) + 1, p), Append(log, p))
<1> DEFINE seq == Len(log) + 1
           g == Fragments(seq, p)
           e == d \o g
           h == Append(log, p)
<1>1. seq \in Nat \ {0} /\ Len(h) = seq /\ h[seq] = p /\ h \in Seq(Payloads)
  OBVIOUS
<1>2. Carries(d, h) /\ \A i \in 1..Len(d) : d[i].seq < seq
  <2>1. \A i \in 1..Len(d) : d[i].seq \in Nat /\ d[i].seq <= Len(log)
    BY FrameTypes DEF Genuine, Carries
  <2>2. QED BY <2>1, CarriesMore DEF Genuine
<1> HIDE DEF h, seq
<1>3. /\ g \in Seq(Frame) /\ Len(g) = Parts[p] /\ Parts[p] \in Nat \ {0}
      /\ \A k \in 1..Parts[p] :
           g[k] = [seq |-> seq, part |-> k, payload |-> p, kind |-> "ok"]
  BY <1>1, FragmentsShape
<1>4. ASSUME NEW k \in 1..Parts[p]
      PROVE  g[k].seq = seq /\ g[k].part = k /\ g[k].payload = p
  <2>1. g[k] = [seq |-> seq, part |-> k, payload |-> p, kind |-> "ok"]
    BY <1>3
  <2> HIDE DEF g
  <2>2. QED BY <2>1
<1> HIDE DEF g
<1>5. /\ e \in Seq(Frame) /\ Len(e) = Len(d) + Parts[p] /\ Len(d) \in Nat
      /\ \A i \in 1..Len(d) : e[i] = d[i]
      /\ \A i \in Len(d)+1..Len(e) : e[i] = g[i - Len(d)] /\ i - Len(d) \in 1..Parts[p]
  <2>1. /\ e \in Seq(Frame) /\ Len(e) = Len(d) + Len(g) /\ Len(d) \in Nat /\ Len(g) \in Nat
        /\ \A i \in 1..Len(d) + Len(g) : e[i] = IF i <= Len(d) THEN d[i] ELSE g[i - Len(d)]
    BY <1>3, ConcatProperties
  <2> HIDE DEF e
  <2>2. QED BY <1>3, <2>1
<1> HIDE DEF e
<1>6. Carries(e, h)
  <2>1. ASSUME NEW i \in 1..Len(e) PROVE e[i].seq <= Len(h) /\ e[i].payload = h[e[i].seq]
    <3>1. CASE i \in 1..Len(d)
      BY <1>2, <1>5, <3>1 DEF Carries
    <3>2. CASE i \in Len(d)+1..Len(e)
      <4>1. e[i] = g[i - Len(d)] /\ i - Len(d) \in 1..Parts[p]
        BY <1>5, <3>2
      <4>2. e[i].seq = seq /\ e[i].payload = p
        BY <1>4, <4>1
      <4>3. QED BY <1>1, <4>2
    <3>3. QED BY <1>5, <3>1, <3>2
  <2>2. QED BY <2>1 DEF Carries
<1>7. ASSUME NEW i \in 1..Len(e) - 1, e[i+1].seq = e[i].seq
      PROVE  e[i+1].part = e[i].part + 1
  <2>1. CASE i + 1 <= Len(d)
    <3>1. i \in 1..Len(d) - 1 /\ i \in 1..Len(d) /\ i + 1 \in 1..Len(d)
      BY <1>5, <2>1
    <3>2. e[i] = d[i] /\ e[i+1] = d[i+1]
      BY <1>5, <3>1
    <3>3. QED BY <1>7, <3>1, <3>2 DEF Genuine
  <2>2. CASE i = Len(d)
    <3>1. i \in 1..Len(d) /\ i + 1 \in Len(d)+1..Len(e)
      BY <1>3, <1>5, <2>2
    <3>2. e[i+1].seq = seq /\ e[i] = d[i] /\ d[i].seq < seq
      BY <1>2, <1>4, <1>5, <3>1
    <3>3. d[i].seq \in Nat
      BY <3>1, FrameTypes
    <3>4. d[i].seq = seq
      BY <1>7, <3>2
    <3>5. QED BY <3>2, <3>3, <3>4
  <2>3. CASE i > Len(d)
    <3>1. i \in Len(d)+1..Len(e) /\ i + 1 \in Len(d)+1..Len(e)
      BY <1>3, <1>5, <2>3
    <3>2. e[i].part = i - Len(d) /\ e[i+1].part = i + 1 - Len(d)
      <4>1. /\ e[i] = g[i - Len(d)] /\ i - Len(d) \in 1..Parts[p]
            /\ e[i+1] = g[i + 1 - Len(d)] /\ i + 1 - Len(d) \in 1..Parts[p]
        <5> DEFINE Inside(x) == e[x] = g[x - Len(d)] /\ x - Len(d) \in 1..Parts[p]
        <5>1. \A x \in Len(d)+1..Len(e) : Inside(x)
          BY <1>5
        <5> HIDE DEF Inside
        <5>2. Inside(i) /\ Inside(i + 1)
          BY <3>1, <5>1
        <5>3. QED BY <5>2 DEF Inside
      <4>2. g[i - Len(d)].part = i - Len(d) /\ g[i + 1 - Len(d)].part = i + 1 - Len(d)
        BY <1>4, <4>1
      <4>3. QED BY <4>1, <4>2
    <3>3. QED BY <1>5, <3>2
  <2>4. QED BY <1>5, <2>1, <2>2, <2>3
<1>8. QED BY <1>6, <1>7 DEF Genuine, e, h, g, seq

-------------------------------------------------------------------------------
(* The invariant of every environment.                                      *)
FileOK(f, s, log) ==
  /\ f \in File /\ f.stable <= Len(f.data)
  /\ s <= Len(log) + 1 /\ Genuine(f.data, log)

\* Every file is numbered like a record of the log or the next one.
FilesOK(d, log) ==
  /\ DOMAIN d \subseteq Nat \ {0} /\ d \in [DOMAIN d -> File]
  /\ \A s \in DOMAIN d : FileOK(d[s], s, log)

\* The list of segments runs ahead of the directory, and the current one is its last.
Handles ==
  /\ segs \subseteq Nat \ {0} /\ shut \subseteq segs /\ segs \ shut \subseteq DOMAIN disk
  /\ IF open THEN cur \in segs \ shut /\ DOMAIN disk \subseteq segs /\ \A s \in segs : s <= cur
             ELSE segs = {} /\ cur = 0 /\ pc = "idle" /\ pending = <<>>

Memory ==
  /\ open \in BOOLEAN /\ pending \in Seq(Frame) /\ before \in Nat
  /\ DOMAIN index \subseteq Nat \ {0} /\ index \in [DOMAIN index -> Location]
  /\ nextSeq \in Nat \ {0} /\ durable \in Nat /\ unsynced \in Nat
  /\ hist \in Seq(Payloads) /\ promised \in Nat

\* What a call still has to do.
Calls ==
  /\ pc \in Steps /\ resume \in Resumes
  /\ resume # "idle" => pc \in {"write", "partial", "sync"}
  /\ call \in Call /\ call.todo \subseteq segs \ {cur}
  /\ call.todo # {} => "clean" \in {pc, resume}
  /\ "clean" \in {pc, resume} => Old(call.mark) \cap DOMAIN disk \subseteq call.todo
  /\ pc \notin {"idle", "write", "partial", "close"} => pending = <<>>

\* The buffer behind the current file, and a write that may be taken back.
Writing ==
  open => /\ nextSeq = Len(hist) + 1 /\ Genuine(Body, hist)
          /\ pc = "partial" => before <= Len(disk[cur].data) /\ disk[cur].stable <= before

AnyInv == FilesOK(disk, hist) /\ Handles /\ Memory /\ Calls /\ Writing

LEMMA AnyType == AnyInv => TypeOK
BY DEF AnyInv, FilesOK, FileOK, Handles, Memory, Calls, Resumes, TypeOK

LEMMA FileFacts ==
  ASSUME NEW d, NEW log, FilesOK(d, log), NEW s \in DOMAIN d
  PROVE  /\ s \in Nat \ {0} /\ d[s] \in File /\ FileOK(d[s], s, log)
         /\ d[s].data \in Seq(Frame) /\ d[s].stable \in Nat /\ d[s].stable <= Len(d[s].data)
         /\ d[s].named \in BOOLEAN /\ d[s].dropped \in BOOLEAN
         /\ Genuine(d[s].data, log) /\ s <= Len(log) + 1 /\ Len(d[s].data) \in Nat
BY DEF FilesOK, FileOK, File

LEMMA BodyFacts ==
  ASSUME AnyInv, open
  PROVE  /\ cur \in DOMAIN disk /\ cur \in segs /\ Body = Base \o pending
         /\ Base \in Seq(Frame) /\ pending \in Seq(Frame) /\ Body \in Seq(Frame)
         /\ pc = "partial" => /\ before \in 0..Len(disk[cur].data) /\ Len(Base) = before
                              /\ Base = SubSeq(disk[cur].data, 1, before)
         /\ pc # "partial" => Base = disk[cur].data
<1>1. cur \in DOMAIN disk /\ cur \in segs /\ pending \in Seq(Frame) /\ before \in Nat
  BY DEF AnyInv, Handles, Memory
<1>2. disk[cur].data \in Seq(Frame)
  BY <1>1, FileFacts DEF AnyInv
<1>3. pc = "partial" => before \in 0..Len(disk[cur].data)
  BY <1>1, <1>2 DEF AnyInv, Writing
<1>4. Base \in Seq(Frame) /\ (pc = "partial" => Len(Base) = before)
  BY <1>2, <1>3 DEF Base
<1>5. Body \in Seq(Frame)
  BY <1>1, <1>4 DEF Body
<1>6. QED BY <1>1, <1>3, <1>4, <1>5 DEF Base, Body

\* A directory of which some files are gone.
LEMMA FilesShrink ==
  ASSUME NEW d, NEW log, FilesOK(d, log), NEW e, DOMAIN e \subseteq DOMAIN d,
         e \in [DOMAIN e -> File], \A s \in DOMAIN e : FileOK(e[s], s, log)
  PROVE  FilesOK(e, log)
BY DEF FilesOK

\* One file changes.
LEMMA FileChanges ==
  ASSUME NEW d, NEW log, FilesOK(d, log), NEW s \in DOMAIN d, NEW f, FileOK(f, s, log)
  PROVE  /\ FilesOK([d EXCEPT ![s] = f], log)
         /\ DOMAIN [d EXCEPT ![s] = f] = DOMAIN d
         /\ [d EXCEPT ![s] = f][s] = f
<1> DEFINE e == [d EXCEPT ![s] = f]
<1>1. DOMAIN e = DOMAIN d /\ e[s] = f /\ \A t \in DOMAIN d : t # s => e[t] = d[t]
  OBVIOUS
<1>2. f \in File
  BY DEF FileOK
<1>3. e \in [DOMAIN d -> File]
  BY <1>2 DEF FilesOK
<1> HIDE DEF e
<1>4. \A t \in DOMAIN d : FileOK(e[t], t, log)
  BY <1>1 DEF FilesOK
<1>5. QED BY <1>1, <1>3, <1>4 DEF FilesOK, e

\* A file of the directory with other frames.
LEMMA FileHolds ==
  ASSUME NEW f \in File, NEW a \in Seq(Frame)
  PROVE  /\ [f EXCEPT !.data = a] \in File /\ [f EXCEPT !.data = a].data = a
         /\ [f EXCEPT !.data = a].stable = f.stable
BY DEF File

\* fsync.
LEMMA SyncedHolds ==
  ASSUME NEW f \in File, f.stable <= Len(f.data)
  PROVE  Synced(f) \in File /\ Synced(f).data = f.data /\ Synced(f).stable <= Len(f.data)
<1>1. f.data \in Seq(Frame) /\ f.stable \in Nat /\ f.named \in BOOLEAN /\ f.dropped \in BOOLEAN
  BY DEF File
<1> DEFINE n == IF f.dropped THEN f.stable ELSE Len(f.data)
           b == f.named \/ SyncNamesFile
<1>2. n \in Nat /\ n <= Len(f.data)
  BY <1>1
<1>3. b \in BOOLEAN
  BY <1>1, EnvironmentAssumption
<1>4. Synced(f) = [f EXCEPT !.stable = n, !.named = b]
  BY DEF Synced
<1> HIDE DEF n, b
<1>5. /\ [f EXCEPT !.stable = n, !.named = b] \in File
      /\ [f EXCEPT !.stable = n, !.named = b].data = f.data
      /\ [f EXCEPT !.stable = n, !.named = b].stable = n
  BY <1>2, <1>3 DEF File
<1>6. QED BY <1>2, <1>4, <1>5

\* Steps that change nothing but the control of the call in progress.
LEMMA CallStep ==
  ASSUME AnyInv, UNCHANGED <<disk, memory, history>>, pc # "partial", pc' # "partial",
         ~open => pc' = "idle", Calls'
  PROVE  AnyInv'
<1>1. /\ disk' = disk /\ open' = open /\ segs' = segs /\ shut' = shut /\ cur' = cur
      /\ pending' = pending /\ before' = before /\ index' = index /\ nextSeq' = nextSeq
      /\ durable' = durable /\ unsynced' = unsynced /\ hist' = hist /\ promised' = promised
  BY DEF memory, history
<1>2. FilesOK(disk', hist')
  BY <1>1 DEF AnyInv
<1>3. Handles' /\ Memory'
  BY <1>1 DEF AnyInv, Handles, Memory
<1>4. Body' = Body
  BY <1>1 DEF Base, Body
<1>5. Writing'
  BY <1>1, <1>4 DEF AnyInv, Writing
<1>6. QED BY <1>2, <1>3, <1>5 DEF AnyInv

\* A flush begins.
LEMMA FlushBegins ==
  ASSUME AnyInv, Idle, NEW next \in Resumes, StartFlush(next),
         UNCHANGED <<disk, memory, history>>,
         call' \in Call, call'.todo \subseteq segs \ {cur},
         call'.todo # {} => next = "clean",
         next = "clean" => Old(call'.mark) \subseteq call'.todo
  PROVE  AnyInv'
<1>1. /\ disk' = disk /\ pending' = pending /\ unsynced' = unsynced /\ segs' = segs
      /\ cur' = cur /\ nextSeq' = nextSeq /\ open /\ pc = "idle"
  BY DEF memory, Idle
<1>2. /\ pc' \in Steps /\ resume' \in Resumes /\ pc' # "partial"
      /\ resume' # "idle" => pc' \in {"write", "partial", "sync"}
      /\ "clean" \in {pc', resume'} <=> next = "clean"
      /\ pc' \notin {"idle", "write", "partial", "close"} => pending = <<>>
  BY DEF StartFlush, Steps, Resumes
<1>3. (Old(call.mark))' = Old(call'.mark)
  BY <1>1 DEF Old, EndSeq
<1>4. Calls'
  BY <1>1, <1>2, <1>3 DEF Calls
<1>5. QED BY <1>1, <1>2, <1>4, CallStep

\* What a call that returns leaves to do: nothing.
LEMMA CallEnds ==
  ASSUME call' = NoCall, pc' \in {"idle", "close", "write"}, resume' = "idle"
  PROVE  Calls'
<1>1. call' \in Call /\ call'.todo = {}
  BY NoCallType
<1>2. QED BY <1>1 DEF Calls, Steps, Resumes

\* A flush, or the step behind it, returns early.
LEMMA ReturnsEarly ==
  ASSUME AnyInv, pc \notin {"idle", "partial"}, UNCHANGED <<disk, memory, history>>,
         Return \/ FlushFails
  PROVE  AnyInv'
<1>1. open
  BY DEF AnyInv, Handles
<1>2. pc' \in {"idle", "close"} /\ resume' = "idle" /\ call' = NoCall
  BY DEF Return, FlushFails
<1>3. QED BY <1>1, <1>2, CallEnds, CallStep

\* The call goes on, with the same segments to remove.
LEMMA CallGoesOn ==
  ASSUME Calls, UNCHANGED <<call, segs, cur, nextSeq>>, DOMAIN disk' = DOMAIN disk,
         pc' \in Steps, resume' \in Resumes,
         resume' # "idle" => pc' \in {"write", "partial", "sync"},
         "clean" \in {pc', resume'} <=> "clean" \in {pc, resume},
         pc' \notin {"idle", "write", "partial", "close"} => pending' = <<>>
  PROVE  Calls'
<1>1. (Old(call.mark))' = Old(call.mark)
  BY DEF Old, EndSeq
<1>2. QED BY <1>1 DEF Calls

\* A trim cuts the file, and its Sync fails.
LEMMA CutDropped ==
  ASSUME NEW d \in File, NEW k \in 0..Len(d.data)
  PROVE  LET f == [Cut(d, k) EXCEPT !.dropped = d.dropped \/ SyncFailDrops]
         IN  f \in File /\ f.data = SubSeq(d.data, 1, k) /\ f.stable <= k
<1> DEFINE a == SubSeq(d.data, 1, k)
           n == IF d.stable < k THEN d.stable ELSE k
           b == d.dropped \/ SyncFailDrops
<1>1. d.data \in Seq(Frame) /\ d.stable \in Nat /\ k \in Nat
  BY DEF File
<1>2. a \in Seq(Frame) /\ n \in Nat /\ n <= k
  BY <1>1
<1>3. b \in BOOLEAN
  OBVIOUS
<1>4. Cut(d, k) = [d EXCEPT !.data = a, !.stable = n]
  BY DEF Cut
<1> HIDE DEF a, n, b
<1>5. /\ [[d EXCEPT !.data = a, !.stable = n] EXCEPT !.dropped = b] \in File
      /\ [[d EXCEPT !.data = a, !.stable = n] EXCEPT !.dropped = b].data = a
      /\ [[d EXCEPT !.data = a, !.stable = n] EXCEPT !.dropped = b].stable = n
  BY <1>2, <1>3 DEF File
<1>6. QED BY <1>2, <1>4, <1>5 DEF a, b

\* A step that changes the current file.
LEMMA CurrentStep ==
  ASSUME AnyInv, open, NEW f, FileOK(f, cur, hist), disk' = [disk EXCEPT ![cur] = f],
         UNCHANGED <<open, segs, shut, cur, index, nextSeq, hist>>,
         pending' \in Seq(Frame), before' \in Nat, durable' \in Nat, unsynced' \in Nat,
         promised' \in Nat, Calls', Genuine(Body', hist),
         pc' = "partial" => before' <= Len(f.data) /\ f.stable <= before'
  PROVE  AnyInv'
<1>1. cur \in DOMAIN disk
  BY BodyFacts
<1>2. FilesOK(disk', hist') /\ DOMAIN disk' = DOMAIN disk /\ disk'[cur] = f
  BY <1>1, FileChanges DEF AnyInv
<1>3. Handles'
  BY <1>2 DEF AnyInv, Handles
<1>4. Memory'
  BY DEF AnyInv, Memory
<1>5. Writing'
  BY <1>2 DEF AnyInv, Writing
<1>6. QED BY <1>2, <1>3, <1>4, <1>5 DEF AnyInv

-------------------------------------------------------------------------------
(* The flush, in every environment.                                         *)
LEMMA WrittenFile ==
  ASSUME AnyInv, open, NEW a \in Seq(Frame), Genuine(a, hist), disk[cur].stable <= Len(a),
         Writes(a)
  PROVE  \E f : /\ FileOK(f, cur, hist) /\ disk' = [disk EXCEPT ![cur] = f]
                /\ f.data = a /\ f.stable = disk[cur].stable /\ disk'[cur].data = a
<1> DEFINE f == [disk[cur] EXCEPT !.data = a]
<1>1. cur \in DOMAIN disk
  BY BodyFacts
<1>2. disk[cur] \in File /\ cur <= Len(hist) + 1
  BY <1>1, FileFacts DEF AnyInv
<1>3. f \in File /\ f.data = a /\ f.stable = disk[cur].stable
  BY <1>2, FileHolds
<1>4. disk' = [disk EXCEPT ![cur] = f]
  BY DEF Writes
<1> HIDE DEF f
<1>5. FileOK(f, cur, hist)
  BY <1>2, <1>3 DEF FileOK
<1>6. disk'[cur] = f
  BY <1>1, <1>4
<1>7. QED BY <1>3, <1>4, <1>5, <1>6

\* The buffer is in the file.
LEMMA WriteEnds ==
  ASSUME AnyInv, WriteAll \/ WriteRest
  PROVE  AnyInv'
<1>1. /\ open /\ Writes(Body) /\ pending' = <<>> /\ pc' = "sync"
      /\ pc \in {"write", "partial"} /\ unsynced' = nextSeq - 1 /\ before' \in Nat
      /\ UNCHANGED <<open, segs, shut, cur, index, nextSeq, durable, resume, call, hist, promised>>
  <2>1. open /\ before \in Nat
    BY DEF AnyInv, Handles, Memory, WriteAll, WriteRest
  <2>2. CASE WriteAll
    <3>1. pc = "write" /\ Writes(disk[cur].data \o pending)
      BY <2>2 DEF WriteAll
    <3>2. Body = disk[cur].data \o pending
      BY <3>1 DEF Body, Base
    <3>3. QED BY <2>1, <2>2, <3>1, <3>2 DEF WriteAll, history
  <2>3. CASE WriteRest
    <3>1. pc = "partial" /\ Writes(SubSeq(disk[cur].data, 1, before) \o pending)
      BY <2>3 DEF WriteRest
    <3>2. Body = SubSeq(disk[cur].data, 1, before) \o pending
      BY <3>1 DEF Body, Base
    <3>3. QED BY <2>1, <2>3, <3>1, <3>2 DEF WriteRest, history
  <2>4. QED BY <2>2, <2>3
<1>2. Body \in Seq(Frame) /\ Genuine(Body, hist) /\ unsynced' \in Nat
  BY <1>1, BodyFacts DEF AnyInv, Writing, Memory
<1>3. disk[cur].stable <= Len(Body)
  <2>1. /\ cur \in DOMAIN disk /\ Body = Base \o pending /\ Base \in Seq(Frame)
        /\ pending \in Seq(Frame)
        /\ pc = "partial" => Len(Base) = before
        /\ pc # "partial" => Base = disk[cur].data
    BY <1>1, BodyFacts
  <2>2. disk[cur].stable \in Nat /\ disk[cur].stable <= Len(disk[cur].data)
    BY <2>1, FileFacts DEF AnyInv
  <2>3. disk[cur].stable <= Len(Base)
    BY <1>1, <2>1, <2>2 DEF AnyInv, Writing
  <2>4. Len(Body) = Len(Base) + Len(pending) /\ Len(Base) \in Nat /\ Len(pending) \in Nat
    BY <2>1
  <2>5. QED BY <2>2, <2>3, <2>4
<1>4. PICK f : /\ FileOK(f, cur, hist) /\ disk' = [disk EXCEPT ![cur] = f]
               /\ f.data = Body /\ disk'[cur].data = Body
  BY <1>1, <1>2, <1>3, WrittenFile
<1>5. Calls'
  <2>1. DOMAIN disk' = DOMAIN disk
    BY <1>4
  <2>2. resume' \in Resumes
    BY <1>1 DEF AnyInv, Calls
  <2>3. pc' \in Steps /\ ("clean" \in {pc', resume'} <=> "clean" \in {pc, resume})
    BY <1>1 DEF Steps
  <2>4. QED BY <1>1, <2>1, <2>2, <2>3, CallGoesOn DEF AnyInv
<1>6. Genuine(Body', hist)
  <2>1. Base' = Body
    BY <1>1, <1>4 DEF Base
  <2>2. Body' = Body \o <<>>
    BY <1>1, <2>1 DEF Body
  <2>3. Body' = Body
    BY <1>2, <2>2
  <2>4. QED BY <1>2, <2>3
<1>7. durable' \in Nat /\ promised' \in Nat /\ pending' \in Seq(Frame)
  BY <1>1 DEF AnyInv, Memory
<1>8. QED BY <1>1, <1>2, <1>4, <1>5, <1>6, <1>7, CurrentStep

\* Part of the buffer is in the file.
LEMMA WriteStops ==
  ASSUME AnyInv, NEW k \in 0..Len(pending), NEW torn \in BOOLEAN, WritePart(k, torn)
  PROVE  AnyInv'
<1> DEFINE d == disk[cur].data
           n == Len(d)
           w == d \o SubSeq(pending, 1, k)
                  \o IF torn THEN <<[pending[k+1] EXCEPT !.kind = "torn"]>> ELSE <<>>
<1>1. /\ open /\ pc = "write" /\ pc' = "partial" /\ before' = n /\ k < Len(pending)
      /\ Writes(w)
      /\ UNCHANGED <<open, segs, shut, cur, pending, index, nextSeq, durable, unsynced,
                     resume, call, hist, promised>>
  BY DEF AnyInv, Handles, WritePart, history
<1>2. /\ cur \in DOMAIN disk /\ Base = d /\ Body = d \o pending /\ Body \in Seq(Frame)
      /\ pending \in Seq(Frame) /\ d \in Seq(Frame) /\ n \in Nat
  BY <1>1, BodyFacts, FileFacts DEF AnyInv
<1> DEFINE m == n + k
<1>3. m \in 0..Len(Body) - 1 /\ m \in 0..Len(Body) /\ Len(Body) = n + Len(pending)
  BY <1>1, <1>2
<1>4. w = IF torn THEN TornAt(Body, m) ELSE CutTo(Body, m)
  <2>1. /\ d \o SubSeq(pending, 1, k) \o <<>> = CutTo(d \o pending, Len(d) + k)
        /\ d \o SubSeq(pending, 1, k) \o <<[pending[k+1] EXCEPT !.kind = "torn"]>>
             = TornAt(d \o pending, Len(d) + k)
    <3>1. d \in Seq(Frame) /\ pending \in Seq(Frame) /\ k \in 0..Len(pending) /\ k < Len(pending)
      BY <1>1, <1>2
    <3> HIDE DEF d
    <3>2. QED BY <3>1, PartialWrite
  <2>2. QED BY <1>2, <2>1, Zenon
<1> HIDE DEF w, m
<1>5. Front(w, Body) /\ Len(w) \in m..m+1
  <2>1. CASE torn
    <3>1. Front(TornAt(Body, m), Body) /\ Len(TornAt(Body, m)) = m + 1
      BY <1>2, <1>3, TornIsFront DEF TornAt
    <3>2. QED BY <1>3, <1>4, <2>1, <3>1
  <2>2. CASE ~torn
    <3>1. Front(CutTo(Body, m), Body) /\ Len(CutTo(Body, m)) = m
      BY <1>2, <1>3, CutIsFront DEF CutTo
    <3>2. QED BY <1>3, <1>4, <2>2, <3>1
  <2>3. QED BY <2>1, <2>2
<1>6. w \in Seq(Frame) /\ Genuine(w, hist) /\ n <= Len(w)
  <2>1. Genuine(Body, hist)
    BY <1>1 DEF AnyInv, Writing
  <2>2. n <= Len(w)
    BY <1>2, <1>3, <1>5 DEF m
  <2>3. QED BY <1>2, <1>5, <2>1, <2>2, FrontGenuine DEF Front
<1>7. disk[cur].stable \in Nat /\ disk[cur].stable <= n
  BY <1>2, FileFacts DEF AnyInv
<1>8. PICK f : /\ FileOK(f, cur, hist) /\ disk' = [disk EXCEPT ![cur] = f]
               /\ f.data = w /\ f.stable = disk[cur].stable /\ disk'[cur].data = w
  <2>1. disk[cur].stable <= Len(w)
    BY <1>2, <1>6, <1>7 DEF Front
  <2>2. QED BY <1>1, <1>6, <2>1, WrittenFile
<1>9. Calls'
  <2>1. DOMAIN disk' = DOMAIN disk
    BY <1>8
  <2>2. resume' \in Resumes
    BY <1>1 DEF AnyInv, Calls
  <2>3. pc' \in Steps /\ ("clean" \in {pc', resume'} <=> "clean" \in {pc, resume})
    BY <1>1 DEF Steps
  <2>4. QED BY <1>1, <2>1, <2>2, <2>3, CallGoesOn DEF AnyInv
<1>10. Genuine(Body', hist)
  <2>1. SubSeq(w, 1, n) = d
    <3> DEFINE c == SubSeq(w, 1, n)
    <3>1. c \in Seq(Frame) /\ Len(c) = n /\ \A i \in 1..n : c[i] = w[i]
      BY <1>2, <1>6
    <3>2. \A i \in 1..n : w[i] = d[i]
      <4>1. \A i \in 1..n : Body[i] = d[i]
        BY <1>2
      <4>2. \A i \in 1..m : w[i] = Body[i]
        <5>1. /\ \A i \in 1..m : TornAt(Body, m)[i] = Body[i]
              /\ \A i \in 1..m : CutTo(Body, m)[i] = Body[i]
          <6>1. /\ SubSeq(Body, 1, m) \in Seq(Frame) /\ Len(SubSeq(Body, 1, m)) = m
                /\ \A i \in 1..m : SubSeq(Body, 1, m)[i] = Body[i]
            BY <1>2, <1>3
          <6> DEFINE b == SubSeq(Body, 1, m)
                     g == [Body[m+1] EXCEPT !.kind = "torn"]
          <6> HIDE DEF b, g
          <6>2. \A i \in 1..m : Append(b, g)[i] = b[i]
            BY <6>1 DEF b
          <6>3. QED BY <6>1, <6>2 DEF TornAt, CutTo, b, g
        <5>2. QED BY <1>4, <5>1
      <4>3. \A i \in 1..n : i \in 1..m
        BY <1>2 DEF m
      <4>4. QED BY <4>1, <4>2, <4>3
    <3>3. d \in Seq(Frame) /\ Len(c) = Len(d) /\ \A i \in 1..Len(d) : c[i] = d[i]
      BY <1>2, <3>1, <3>2
    <3> HIDE DEF c, d
    <3>4. c = d
      BY <3>1, <3>3, SeqEqual
    <3>5. QED BY <3>4 DEF c
  <2>2. Base' = d
    BY <1>1, <1>8, <2>1 DEF Base
  <2>3. Body' = Body
    BY <1>1, <1>2, <2>2 DEF Body
  <2>4. QED BY <1>1, <2>3 DEF AnyInv, Writing
<1>11. before' <= Len(f.data) /\ f.stable <= before' /\ before' \in Nat
  BY <1>1, <1>2, <1>6, <1>7, <1>8
<1>12. /\ durable' \in Nat /\ promised' \in Nat /\ unsynced' \in Nat /\ pending' \in Seq(Frame)
  BY <1>1, <1>2 DEF AnyInv, Memory
<1>13. QED BY <1>1, <1>8, <1>9, <1>10, <1>11, <1>12, CurrentStep

\* A write that stopped half-way is taken back, or cannot be.
LEMMA RollbackStep ==
  ASSUME AnyInv, Rollback
  PROVE  AnyInv'
<1> DEFINE a == SubSeq(disk[cur].data, 1, before)
<1>1. /\ open /\ pc = "partial" /\ Writes(a) /\ before' = 0
      /\ pc' \in {"idle", "close"} /\ resume' = "idle" /\ call' = NoCall
      /\ UNCHANGED <<open, segs, shut, cur, pending, index, nextSeq, durable, unsynced, hist, promised>>
  BY DEF AnyInv, Handles, Rollback, FlushFails, history
<1>2. /\ cur \in DOMAIN disk /\ Base = a /\ Body = a \o pending /\ Base \in Seq(Frame)
      /\ pending \in Seq(Frame) /\ Body \in Seq(Frame) /\ Len(Base) = before
  BY <1>1, BodyFacts
<1> HIDE DEF a
<1>3. a \in Seq(Frame) /\ Genuine(a, hist) /\ Genuine(Body, hist)
  <2>1. Genuine(Body, hist)
    BY <1>1 DEF AnyInv, Writing
  <2>2. Front(a, Body)
    BY <1>2 DEF Front
  <2>3. QED BY <1>2, <2>1, <2>2, FrontGenuine
<1>4. disk[cur].stable <= Len(a)
  BY <1>1, <1>2 DEF AnyInv, Writing
<1>5. PICK f : /\ FileOK(f, cur, hist) /\ disk' = [disk EXCEPT ![cur] = f]
               /\ disk'[cur].data = a
  BY <1>1, <1>3, <1>4, WrittenFile
<1>6. Calls'
  BY <1>1, CallEnds
<1>7. Genuine(Body', hist)
  <2>1. Base' = a
    BY <1>1, <1>5 DEF Base
  <2>2. Body' = Body
    BY <1>1, <1>2, <2>1 DEF Body
  <2>3. QED BY <1>3, <2>2
<1>8. /\ pending' \in Seq(Frame) /\ before' \in Nat /\ durable' \in Nat /\ unsynced' \in Nat
      /\ promised' \in Nat
  BY <1>1, <1>2 DEF AnyInv, Memory
<1>9. pc' # "partial"
  BY <1>1
<1>10. QED BY <1>1, <1>5, <1>6, <1>7, <1>8, <1>9, CurrentStep

LEMMA RollbackFailsStep ==
  ASSUME AnyInv, RollbackFails
  PROVE  AnyInv'
<1>1. /\ open /\ before' = 0 /\ pending' = <<>>
      /\ pc' \in {"idle", "close"} /\ resume' = "idle" /\ call' = NoCall
      /\ UNCHANGED <<disk, open, segs, shut, cur, index, nextSeq, durable, unsynced, hist, promised>>
  BY DEF AnyInv, Handles, RollbackFails, FlushFails, history
<1>2. cur \in DOMAIN disk
  BY <1>1, BodyFacts
<1> DEFINE f == disk[cur]
<1>3. FileOK(f, cur, hist) /\ f.data \in Seq(Frame) /\ Genuine(f.data, hist)
  BY <1>2, FileFacts DEF AnyInv
<1>4. disk' = [disk EXCEPT ![cur] = f]
  BY <1>1 DEF AnyInv, FilesOK
<1>5. Genuine(Body', hist)
  <2>1. Base' = f.data
    BY <1>1 DEF Base
  <2>2. Body' = f.data \o <<>>
    BY <1>1, <2>1 DEF Body
  <2>3. Body' = f.data
    BY <1>3, <2>2
  <2>4. QED BY <1>3, <2>3
<1>6. Calls'
  BY <1>1, CallEnds
<1>7. /\ pending' \in Seq(Frame) /\ before' \in Nat /\ durable' \in Nat /\ unsynced' \in Nat
      /\ promised' \in Nat
  BY <1>1 DEF AnyInv, Memory
<1> HIDE DEF f
<1>8. QED BY <1>1, <1>3, <1>4, <1>5, <1>6, <1>7, CurrentStep

\* fsync, that succeeds or fails, changes no frame.
LEMMA SyncStep ==
  ASSUME AnyInv, SyncFile \/ SyncFails
  PROVE  AnyInv'
<1>1. /\ open /\ pc = "sync" /\ pc' # "partial"
      /\ UNCHANGED <<open, segs, shut, cur, pending, before, index, nextSeq, hist>>
  BY DEF AnyInv, Handles, Calls, Resumes, SyncFile, SyncFails, FlushFails, memory, history
<1>2. /\ cur \in DOMAIN disk /\ Base = disk[cur].data /\ Body = Base \o pending
  BY <1>1, BodyFacts
<1> DEFINE g == disk[cur]
<1>3. /\ g \in File /\ g.data \in Seq(Frame) /\ g.stable <= Len(g.data) /\ cur <= Len(hist) + 1
      /\ g.dropped \in BOOLEAN /\ Genuine(g.data, hist)
  BY <1>2, FileFacts DEF AnyInv
<1>4. \E f : FileOK(f, cur, hist) /\ disk' = [disk EXCEPT ![cur] = f] /\ f.data = g.data
  <2>1. CASE SyncFile
    <3>1. disk' = [disk EXCEPT ![cur] = Synced(g)]
      BY <2>1 DEF SyncFile
    <3>2. Synced(g) \in File /\ Synced(g).data = g.data /\ Synced(g).stable <= Len(g.data)
      BY <1>3, SyncedHolds
    <3>3. FileOK(Synced(g), cur, hist)
      BY <1>3, <3>2 DEF FileOK
    <3>4. QED BY <3>1, <3>2, <3>3
  <2>2. CASE SyncFails
    <3> DEFINE f == [g EXCEPT !.dropped = @ \/ SyncFailDrops]
    <3>1. disk' = [disk EXCEPT ![cur] = f]
      BY <2>2 DEF SyncFails
    <3>2. f \in File /\ f.data = g.data /\ f.stable = g.stable
      BY <1>3, EnvironmentAssumption DEF File
    <3> HIDE DEF f
    <3>3. FileOK(f, cur, hist)
      BY <1>3, <3>2 DEF FileOK
    <3>4. QED BY <3>1, <3>2, <3>3
  <2>3. QED BY <2>1, <2>2
<1>5. PICK f : FileOK(f, cur, hist) /\ disk' = [disk EXCEPT ![cur] = f] /\ f.data = g.data
  BY <1>4
<1>6. Body' = Body
  <2>1. disk'[cur] = f
    BY <1>2, <1>5
  <2>2. Base' = Base
    BY <1>1, <1>2, <1>5, <2>1 DEF Base
  <2>3. QED BY <1>1, <2>2 DEF Body
<1>7. Calls'
  <2>1. CASE SyncFile
    <3>1. /\ DOMAIN disk' = DOMAIN disk /\ call' = call /\ pc' = resume /\ resume' = "idle"
          /\ pending = <<>>
      BY <1>1, <1>5, <2>1 DEF SyncFile, AnyInv, Calls
    <3>2. resume \in Resumes /\ pc' \in Steps /\ resume' \in Resumes
      BY <3>1 DEF AnyInv, Calls, Resumes, Steps
    <3>3. "clean" \in {pc', resume'} <=> "clean" \in {pc, resume}
      BY <1>1, <3>1
    <3>4. QED BY <1>1, <3>1, <3>2, <3>3, CallGoesOn DEF AnyInv
  <2>2. CASE SyncFails
    BY <2>2, CallEnds DEF SyncFails, FlushFails
  <2>3. QED BY <2>1, <2>2
<1>8. /\ pending' \in Seq(Frame) /\ before' \in Nat /\ durable' \in Nat /\ unsynced' \in Nat
      /\ promised' \in Nat
  BY <1>1 DEF AnyInv, Memory, SyncFile, SyncFails, memory, history
<1>9. Genuine(Body', hist)
  BY <1>1, <1>6 DEF AnyInv, Writing
<1>10. QED BY <1>1, <1>5, <1>7, <1>8, <1>9, CurrentStep

LEMMA FlushSteps ==
  ASSUME AnyInv, Flushes
  PROVE  AnyInv'
<1>1. CASE Sync \/ PeriodicFlush
  <2>1. Idle /\ StartFlush("idle") /\ UNCHANGED <<disk, memory, call, history>>
    BY <1>1 DEF Sync, PeriodicFlush
  <2>2. call \in Call /\ call.todo = {}
    BY <2>1 DEF AnyInv, Calls, Idle
  <2>3. "idle" \in Resumes
    BY DEF Resumes
  <2>4. QED BY <2>1, <2>2, <2>3, FlushBegins
<1>2. CASE WriteFails
  <2>1. pc = "write" /\ FlushFails /\ UNCHANGED <<disk, memory, history>>
    BY <1>2 DEF WriteFails
  <2>2. QED BY <2>1, ReturnsEarly
<1>3. QED BY <1>1, <1>2, WriteEnds, WriteStops, RollbackStep, RollbackFailsStep, SyncStep
          DEF Flushes

-------------------------------------------------------------------------------
(* append, in every environment.                                            *)
LEMMA FilesMore ==
  ASSUME NEW d, NEW log \in Seq(Payloads), FilesOK(d, log), NEW p \in Payloads
  PROVE  FilesOK(d, Append(log, p))
<1>1. Len(Append(log, p)) = Len(log) + 1 /\ Len(log) \in Nat
  OBVIOUS
<1>2. ASSUME NEW s \in DOMAIN d PROVE FileOK(d[s], s, Append(log, p))
  <2>1. /\ d[s] \in File /\ d[s].stable <= Len(d[s].data) /\ s \in Nat /\ s <= Len(log) + 1
        /\ d[s].data \in Seq(Frame) /\ Genuine(d[s].data, log)
    BY FileFacts DEF FileOK
  <2>2. Genuine(d[s].data, Append(log, p))
    BY <2>1, CarriesMore DEF Genuine
  <2>3. s <= Len(Append(log, p)) + 1
    BY <1>1, <2>1
  <2>4. QED BY <2>1, <2>2, <2>3 DEF FileOK
<1>3. QED BY <1>2 DEF FilesOK

\* The record joins the buffer and the index.
LEMMA BufferStep ==
  ASSUME AnyInv, open, pc \in {"idle", "put"}, NEW p \in Payloads, NEW force, Buffer(p, force)
  PROVE  AnyInv'
<1> DEFINE g == Fragments(nextSeq, p)
           d == disk[cur].data
           loc == [seg |-> cur, off |-> Len(d) + Len(pending), n |-> Parts[p]]
           ix == [seq \in DOMAIN index \cup {nextSeq} |->
                    IF seq = nextSeq THEN loc ELSE index[seq]]
<1>1. /\ pending' = pending \o g /\ index' = ix /\ nextSeq' = nextSeq + 1
      /\ hist' = Append(hist, p) /\ pc' \in {"write", "idle"} /\ resume' = "idle"
      /\ call' = NoCall
      /\ UNCHANGED <<disk, open, segs, shut, cur, before, durable, unsynced, promised>>
  BY DEF Buffer
<1>2. /\ cur \in DOMAIN disk /\ Body = d \o pending /\ d \in Seq(Frame) /\ pending \in Seq(Frame)
      /\ Body \in Seq(Frame) /\ Base = d
  BY BodyFacts
<1>3. /\ nextSeq = Len(hist) + 1 /\ Genuine(Body, hist) /\ hist \in Seq(Payloads)
      /\ nextSeq \in Nat \ {0}
  BY DEF AnyInv, Writing, Memory
<1>4. g \in Seq(Frame) /\ Parts[p] \in Nat \ {0}
  BY <1>3, FragmentsShape
<1>5. FilesOK(disk', hist')
  BY <1>1, <1>3, FilesMore DEF AnyInv
<1>6. Handles'
  BY <1>1 DEF AnyInv, Handles
<1>7. Memory'
  <2>1. cur \in Nat \ {0} /\ Len(d) + Len(pending) \in Nat
    BY <1>2, FileFacts DEF AnyInv
  <2>2. loc \in Location
    BY <1>4, <2>1 DEF Location
  <2>3. DOMAIN ix = DOMAIN index \cup {nextSeq}
    OBVIOUS
  <2>4. ix \in [DOMAIN ix -> Location]
    BY <2>2 DEF AnyInv, Memory
  <2>5. DOMAIN ix \subseteq Nat \ {0}
    BY <1>3, <2>3 DEF AnyInv, Memory
  <2> HIDE DEF ix
  <2>6. pending' \in Seq(Frame)
    BY <1>1, <1>2, <1>4
  <2>7. hist' \in Seq(Payloads) /\ nextSeq' \in Nat \ {0}
    BY <1>1, <1>3
  <2>8. QED BY <1>1, <2>4, <2>5, <2>6, <2>7 DEF AnyInv, Memory
<1>8. Calls'
  BY <1>1, CallEnds
<1>9. Writing'
  <2>1. Base' = d
    BY <1>1 DEF Base
  <2>2. Body' = d \o (pending \o g)
    BY <1>1, <2>1 DEF Body
  <2> HIDE DEF d, g
  <2>3. d \o (pending \o g) = (d \o pending) \o g
    BY <1>2, <1>4, FramesConcat
  <2>4. Body' = Body \o g
    BY <1>2, <2>2, <2>3
  <2>5. Genuine(Body \o g, Append(hist, p))
    BY <1>2, <1>3, GenuineAppend DEF g
  <2>6. nextSeq' = Len(hist') + 1
    BY <1>1, <1>3
  <2>7. pc' # "partial"
    BY <1>1
  <2>8. Genuine(Body', hist')
    BY <1>1, <2>4, <2>5
  <2>9. QED BY <2>6, <2>7, <2>8 DEF Writing
<1>10. QED BY <1>5, <1>6, <1>7, <1>8, <1>9 DEF AnyInv

\* A segment joins the directory: its name is new and comes behind all the others.
LEMMA CreateStep ==
  ASSUME AnyInv, CreateSegment
  PROVE  AnyInv'
<1>1. /\ open /\ pc = "create" /\ nextSeq \notin DOMAIN disk /\ pc' = "put"
      /\ disk' = [s \in DOMAIN disk \cup {nextSeq} |-> IF s = nextSeq THEN NewFile ELSE disk[s]]
      /\ segs' = segs \cup {nextSeq} /\ cur' = nextSeq
      /\ UNCHANGED <<open, shut, pending, before, index, nextSeq, durable, unsynced,
                     resume, call, hist, promised>>
  BY DEF AnyInv, Handles, CreateSegment, history
<1>2. /\ nextSeq = Len(hist) + 1 /\ nextSeq \in Nat \ {0} /\ hist \in Seq(Payloads)
      /\ pending = <<>> /\ call.todo = {} /\ resume = "idle"
  <2>1. pending = <<>> /\ resume = "idle"
    BY <1>1 DEF AnyInv, Calls
  <2>2. call.todo = {}
    BY <1>1, <2>1 DEF AnyInv, Calls
  <2>3. QED BY <1>1, <2>1, <2>2 DEF AnyInv, Writing, Memory
<1>3. NewFile \in File /\ NewFile.data = <<>> /\ NewFile.stable = 0
  BY DEF NewFile, File
<1>4. Genuine(<<>>, hist)
  BY DEF Genuine, Carries
<1>5. FileOK(NewFile, nextSeq, hist)
  BY <1>2, <1>3, <1>4 DEF FileOK
<1>6. DOMAIN disk' = DOMAIN disk \cup {nextSeq} /\ disk'[nextSeq] = NewFile
      /\ \A s \in DOMAIN disk : disk'[s] = disk[s]
  BY <1>1
<1>7. FilesOK(disk', hist')
  <2>1. disk' \in [DOMAIN disk' -> File]
    BY <1>1, <1>3 DEF AnyInv, FilesOK
  <2>2. \A s \in DOMAIN disk' : FileOK(disk'[s], s, hist)
    BY <1>5, <1>6 DEF AnyInv, FilesOK
  <2>3. QED BY <1>1, <1>2, <1>6, <2>1, <2>2 DEF AnyInv, FilesOK
<1>8. Handles'
  <2>1. /\ cur \in DOMAIN disk /\ cur \in segs /\ DOMAIN disk \subseteq segs
        /\ segs \subseteq Nat \ {0} /\ shut \subseteq segs /\ segs \ shut \subseteq DOMAIN disk
        /\ \A s \in segs : s <= cur
    BY <1>1 DEF AnyInv, Handles
  <2>2. cur \in Nat /\ cur < nextSeq
    BY <1>1, <1>2, <2>1, FileFacts DEF AnyInv
  <2>3. nextSeq \notin segs /\ \A s \in segs' : s <= nextSeq
    BY <1>1, <1>2, <2>1, <2>2
  <2>4. segs' \subseteq Nat \ {0} /\ shut' \subseteq segs'
    BY <1>1, <1>2, <2>1
  <2>5. segs' \ shut' \subseteq DOMAIN disk' /\ DOMAIN disk' \subseteq segs'
        /\ cur' \in segs' \ shut'
    BY <1>1, <1>6, <2>1, <2>3
  <2>6. QED BY <1>1, <2>3, <2>4, <2>5 DEF Handles
<1>9. Memory'
  BY <1>1 DEF AnyInv, Memory
<1>10. Calls'
  BY <1>1, <1>2 DEF AnyInv, Calls, Steps
<1>11. Writing'
  <2>1. Base' = <<>>
    BY <1>1, <1>3, <1>6 DEF Base
  <2>2. Body' = <<>>
    BY <1>1, <1>2, <2>1 DEF Body
  <2>3. QED BY <1>1, <1>2, <1>4, <2>2 DEF Writing
<1>12. QED BY <1>7, <1>8, <1>9, <1>10, <1>11 DEF AnyInv

LEMMA AppendSteps ==
  ASSUME AnyInv, Appends
  PROVE  AnyInv'
<1>1. ASSUME NEW p \in Payloads, NEW force \in BOOLEAN, AppendInPlace(p, force) PROVE AnyInv'
  BY <1>1, BufferStep DEF AppendInPlace, Idle
<1>2. ASSUME NEW p \in Payloads, NEW force \in BOOLEAN, AppendRotating(p, force) PROVE AnyInv'
  <2>1. Idle /\ StartFlush("create") /\ UNCHANGED <<disk, memory, history>>
        /\ call' = [NoCall EXCEPT !.payload = p, !.force = force]
    BY <1>2 DEF AppendRotating
  <2>2. call' \in Call /\ call'.todo = {}
    BY <2>1, NoCallType DEF Call
  <2>3. "create" \in Resumes
    BY DEF Resumes
  <2>4. QED BY <2>1, <2>2, <2>3, FlushBegins
<1>3. CASE CreateFails
  <2>1. pc = "create" /\ Return /\ UNCHANGED <<disk, memory, history>>
    BY <1>3 DEF CreateFails
  <2>2. QED BY <2>1, ReturnsEarly
<1>4. CASE AppendToNewSegment
  <2>1. pc = "put" /\ Buffer(call.payload, call.force) /\ open
    BY <1>4 DEF AppendToNewSegment, AnyInv, Handles
  <2>2. call.payload \in Payloads
    BY DEF AnyInv, Calls, Call
  <2>3. QED BY <2>1, <2>2, BufferStep
<1>5. QED BY <1>1, <1>2, <1>3, <1>4, CreateStep DEF Appends

-------------------------------------------------------------------------------
(* Recovery, in every environment.                                          *)

\* What trimTail leaves of the directory.
LEMMA TrimmedFiles ==
  ASSUME NEW log, FilesOK(disk, log), NEW top \in DOMAIN disk,
         NEW k \in 0..Len(disk[top].data)
  PROVE  LET e == Trimmed(top, k)
         IN  /\ DOMAIN e = DOMAIN disk /\ e \in [DOMAIN disk -> File]
             /\ \A s \in DOMAIN disk : e[s].stable <= Len(e[s].data)
             /\ e[top].data = SubSeq(disk[top].data, 1, k)
             /\ \A s \in DOMAIN disk : s # top => e[s] = disk[s]
<1> DEFINE f == disk[top]
           a == SubSeq(f.data, 1, k)
           n == IF f.stable < k THEN f.stable ELSE k
           g == Synced(Cut(f, k))
<1>1. /\ f \in File /\ f.data \in Seq(Frame) /\ f.stable \in Nat /\ f.stable <= Len(f.data)
      /\ Len(f.data) \in Nat
  BY FileFacts
<1>2. a \in Seq(Frame) /\ Len(a) = k
  BY <1>1
<1>3. n \in Nat /\ n <= k
  BY <1>1
<1>4. Cut(f, k) = [f EXCEPT !.data = a, !.stable = n]
  BY DEF Cut
<1>5. CASE k = Len(f.data)
  <2>1. Trimmed(top, k) = disk
    BY <1>5 DEF Trimmed
  <2>2. a = f.data
    <3>1. \A i \in 1..Len(a) : a[i] = f.data[i]
      BY <1>1
    <3> HIDE DEF a, f
    <3>2. QED BY <1>1, <1>2, <1>5, <3>1, SeqEqual
  <2>3. disk \in [DOMAIN disk -> File]
    BY DEF FilesOK
  <2> HIDE DEF a
  <2>4. QED BY <2>1, <2>2, <2>3, FileFacts DEF a
<1>6. CASE k # Len(f.data)
  <2> HIDE DEF a, n
  <2>1. [f EXCEPT !.data = a, !.stable = n] \in File
        /\ [f EXCEPT !.data = a, !.stable = n].data = a
        /\ [f EXCEPT !.data = a, !.stable = n].stable = n
    BY <1>1, <1>2, <1>3 DEF File
  <2>2. g \in File /\ g.data = a /\ g.stable <= Len(a)
    BY <1>2, <1>3, <1>4, <2>1, SyncedHolds
  <2>3. Trimmed(top, k) = [disk EXCEPT ![top] = g]
    BY <1>6 DEF Trimmed
  <2> HIDE DEF g
  <2>4. disk \in [DOMAIN disk -> File]
    BY DEF FilesOK
  <2> DEFINE e == Trimmed(top, k)
  <2>5. /\ DOMAIN e = DOMAIN disk /\ e \in [DOMAIN disk -> File] /\ e[top] = g
        /\ \A s \in DOMAIN disk : s # top => e[s] = disk[s]
    BY <2>2, <2>3, <2>4
  <2> HIDE DEF e
  <2>6. \A s \in DOMAIN disk : e[s].stable <= Len(e[s].data)
    <3>1. ASSUME NEW s \in DOMAIN disk PROVE e[s].stable <= Len(e[s].data)
      <4>1. CASE s = top
        BY <2>2, <2>5, <4>1
      <4>2. CASE s # top
        BY <2>5, <4>2, FileFacts
      <4>3. QED BY <4>1, <4>2
    <3>2. QED BY <3>1
  <2>7. QED BY <2>2, <2>5, <2>6 DEF e, a
<1>7. QED BY <1>5, <1>6

\* A recovery that succeeds cuts the log behind the last record it found.
LEMMA RecoverLockedStep ==
  ASSUME FilesOK(disk, hist), hist \in Seq(Payloads), promised \in Nat,
         NEW top \in DOMAIN disk, NEW k \in 0..Len(disk[top].data),
         RecoverLocked(DOMAIN disk, top, k)
  PROVE  /\ FilesOK(disk', hist') /\ DOMAIN disk' = DOMAIN disk /\ cur' = top
         /\ DOMAIN index' \subseteq Nat \ {0} /\ index' \in [DOMAIN index' -> Location]
         /\ nextSeq' = Len(hist') + 1 /\ nextSeq' \in Nat \ {0} /\ durable' \in Nat
         /\ hist' \in Seq(Payloads) /\ promised' \in Nat
         /\ Genuine(disk'[top].data, hist') /\ disk'[top].data \in Seq(Frame)
         /\ \A s \in DOMAIN disk : s <= top
<1> DEFINE files == Contents(DOMAIN disk)
           e == SubSeq(files[top], 1, k)
           gs == [files EXCEPT ![top] = e]
           last == LastSeqOf(e, top - 1)
<1>1. /\ DOMAIN files = DOMAIN disk /\ \A s \in DOMAIN disk : files[s] = disk[s].data
  BY DEF Contents
<1>2. gs[top] = e
  BY <1>1
<1>3. /\ Recovers(files, top, k) /\ disk' = Trimmed(top, k) /\ index' = IndexOf(gs)
      /\ nextSeq' = last + 1 /\ durable' = last /\ cur' = top
      /\ hist' = SubSeq(hist, 1, last)
      /\ promised' = IF last > promised THEN last ELSE promised
  <2> DEFINE l == LastSeqOf(gs[top], top - 1)
  <2>1. /\ Recovers(files, top, k) /\ disk' = Trimmed(top, k) /\ index' = IndexOf(gs)
        /\ nextSeq' = l + 1 /\ durable' = l /\ cur' = top
        /\ hist' = SubSeq(hist, 1, l)
        /\ promised' = IF l > promised THEN l ELSE promised
    BY DEF RecoverLocked
  <2>2. l = last
    BY <1>2
  <2> HIDE DEF l, last, gs, files
  <2>3. QED BY <2>1, <2>2
<1>4. SegmentFiles(files)
  BY <1>1, FileFacts DEF SegmentFiles
<1>5. /\ e \in Seq(Frame) /\ last \in Nat /\ top - 1 <= last
      /\ last = top - 1 \/ \E i \in 1..Len(files[top]) : last = files[top][i].seq
      /\ \A s \in DOMAIN files : s <= top
      /\ \A s \in DOMAIN files : \A i \in 1..Len(gs[s]) : gs[s][i].seq <= last
      /\ IndexOf(gs) \in [DOMAIN IndexOf(gs) -> Location]
      /\ DOMAIN IndexOf(gs) \subseteq Nat \ {0}
  <2>1. top \in DOMAIN files /\ k \in 0..Len(files[top])
    BY <1>1
  <2> HIDE DEF files
  <2>2. QED BY <1>3, <1>4, <2>1, RecoveredFiles
<1> HIDE DEF last, e
<1>6. last \in 0..Len(hist)
  <2>1. CASE last = top - 1
    <3>1. top \in Nat \ {0} /\ top <= Len(hist) + 1
      BY FileFacts
    <3>2. QED BY <1>5, <2>1, <3>1
  <2>2. CASE \E i \in 1..Len(files[top]) : last = files[top][i].seq
    <3>1. PICK i \in 1..Len(disk[top].data) : last = disk[top].data[i].seq
      BY <1>1, <2>2
    <3>2. Genuine(disk[top].data, hist)
      BY FileFacts
    <3>3. last <= Len(hist)
      BY <3>1, <3>2 DEF Genuine, Carries
    <3>4. QED BY <1>5, <3>3
  <2>3. QED BY <1>5, <2>1, <2>2
<1>7. hist' \in Seq(Payloads) /\ Len(hist') = last
  <2>1. SubSeq(hist, 1, last) \in Seq(Payloads) /\ Len(SubSeq(hist, 1, last)) = last
    BY <1>6
  <2>2. QED BY <1>3, <2>1
<1> DEFINE t == Trimmed(top, k)
<1>8. /\ DOMAIN t = DOMAIN disk /\ t \in [DOMAIN disk -> File]
      /\ \A s \in DOMAIN disk : t[s].stable <= Len(t[s].data)
      /\ t[top].data = SubSeq(disk[top].data, 1, k)
      /\ \A s \in DOMAIN disk : s # top => t[s] = disk[s]
  BY TrimmedFiles
<1> HIDE DEF t
<1>9. ASSUME NEW s \in DOMAIN disk
      PROVE  t[s].data = gs[s] /\ t[s].data \in Seq(Frame) /\ Genuine(t[s].data, hist)
  <2>1. disk[s].data \in Seq(Frame) /\ Genuine(disk[s].data, hist)
    BY FileFacts
  <2>2. CASE s = top
    <3>1. t[s].data = e /\ gs[s] = e
      BY <1>1, <1>2, <1>8, <2>2 DEF e
    <3>2. Front(SubSeq(disk[top].data, 1, k), disk[top].data)
      BY <2>1, <2>2, CutIsFront
    <3>3. Front(t[s].data, disk[s].data)
      BY <1>8, <2>2, <3>2
    <3>4. QED BY <1>5, <2>1, <3>1, <3>3, FrontGenuine
  <2>3. CASE s # top
    BY <1>1, <1>8, <2>1, <2>3
  <2>4. QED BY <2>2, <2>3
<1> HIDE DEF gs, files
<1>10. ASSUME NEW s \in DOMAIN disk PROVE FileOK(t[s], s, hist')
  <2>1. \A i \in 1..Len(t[s].data) : t[s].data[i].seq <= last
    BY <1>1, <1>5, <1>9
  <2>2. Genuine(t[s].data, SubSeq(hist, 1, last))
    BY <1>6, <1>9, <2>1, GenuineBelow
  <2>3. s <= top /\ s \in Nat /\ top \in Nat
    BY <1>1, <1>5, FileFacts
  <2>4. s <= Len(hist') + 1
    BY <1>5, <1>7, <2>3
  <2>5. QED BY <1>3, <1>8, <2>2, <2>4 DEF FileOK
<1>11. FilesOK(disk', hist')
  BY <1>3, <1>8, <1>10 DEF FilesOK, t
<1>12. Genuine(disk'[top].data, hist') /\ disk'[top].data \in Seq(Frame)
  BY <1>3, <1>9, <1>10 DEF FileOK, t
<1>13. durable' \in Nat /\ promised' \in Nat /\ nextSeq' \in Nat \ {0}
  BY <1>3, <1>5
<1>14. QED BY <1>1, <1>3, <1>5, <1>7, <1>8, <1>11, <1>12, <1>13 DEF t

\* Recover and Open.
LEMMA RecoveredStep ==
  ASSUME AnyInv, NEW top \in DOMAIN disk, NEW k \in 0..Len(disk[top].data),
         RecoverLocked(DOMAIN disk, top, k), open', segs' = DOMAIN disk, shut' = {},
         UNCHANGED <<pending, before, unsynced>>, pending = <<>>,
         call' \in Call, call'.todo = {}, pc' = "idle", resume' = "idle"
  PROVE  AnyInv'
<1>1. /\ FilesOK(disk', hist') /\ DOMAIN disk' = DOMAIN disk /\ cur' = top
      /\ DOMAIN index' \subseteq Nat \ {0} /\ index' \in [DOMAIN index' -> Location]
      /\ nextSeq' = Len(hist') + 1 /\ nextSeq' \in Nat \ {0} /\ durable' \in Nat
      /\ hist' \in Seq(Payloads) /\ promised' \in Nat
      /\ Genuine(disk'[top].data, hist') /\ disk'[top].data \in Seq(Frame)
      /\ \A s \in DOMAIN disk : s <= top
  BY RecoverLockedStep DEF AnyInv, Memory
<1>2. Handles'
  <2>1. DOMAIN disk \subseteq Nat \ {0}
    BY DEF AnyInv, FilesOK
  <2>2. QED BY <1>1, <2>1 DEF Handles
<1>3. Memory'
  BY <1>1 DEF AnyInv, Memory
<1>4. Calls'
  BY DEF Calls, Steps, Resumes
<1>5. Writing'
  <2>1. Base' = disk'[top].data
    BY <1>1 DEF Base
  <2>2. Body' = disk'[top].data \o <<>>
    BY <2>1 DEF Body
  <2>3. Body' = disk'[top].data
    BY <1>1, <2>2
  <2>4. QED BY <1>1, <2>3 DEF Writing
<1>6. QED BY <1>1, <1>2, <1>3, <1>4, <1>5 DEF AnyInv

LEMMA RecoverySteps ==
  ASSUME AnyInv, Recoveries
  PROVE  AnyInv'
<1>1. CASE Recover
  <2>1. Idle /\ StartFlush("recover") /\ UNCHANGED <<disk, memory, call, history>>
    BY <1>1 DEF Recover
  <2>2. call \in Call /\ call.todo = {}
    BY <2>1 DEF AnyInv, Calls, Idle
  <2>3. "recover" \in Resumes
    BY DEF Resumes
  <2>4. QED BY <2>1, <2>2, <2>3, FlushBegins
<1>2. CASE RecoverFails
  <2>1. pc = "recover" /\ Return /\ UNCHANGED <<disk, memory, history>>
    BY <1>2 DEF RecoverFails
  <2>2. QED BY <2>1, ReturnsEarly
<1>3. ASSUME NEW top \in segs \cap DOMAIN disk, NEW k \in 0..Len(disk[top].data),
             RecoverScan(top, k)
      PROVE  AnyInv'
  <2>1. /\ pc = "recover" /\ shut = {} /\ RecoverLocked(segs, top, k)
        /\ pc' = "idle" /\ resume' = "idle" /\ call' = NoCall
        /\ UNCHANGED <<open, segs, shut, pending, before, unsynced>>
    BY <1>3 DEF RecoverScan, Return
  <2>2. open /\ segs = DOMAIN disk /\ pending = <<>>
    BY <2>1 DEF AnyInv, Handles, Calls
  <2>3. RecoverLocked(DOMAIN disk, top, k)
    BY <2>1, <2>2
  <2>4. QED BY <2>1, <2>2, <2>3, NoCallType, RecoveredStep
<1>4. ASSUME NEW top \in DOMAIN disk, NEW k \in 0..Len(disk[top].data), OpenDirectory(top, k)
      PROVE  AnyInv'
  <2>1. /\ ~open /\ RecoverLocked(DOMAIN disk, top, k) /\ open' /\ segs' = DOMAIN disk
        /\ UNCHANGED <<shut, pending, before, unsynced, pc, resume, call>>
    BY <1>4 DEF OpenDirectory, control
  <2>2. pending = <<>> /\ shut = {} /\ pc = "idle" /\ segs = {}
    BY <2>1 DEF AnyInv, Handles
  <2>3. resume = "idle" /\ call \in Call /\ call.todo = {}
    BY <2>2 DEF AnyInv, Calls
  <2>4. QED BY <2>1, <2>2, <2>3, RecoveredStep
<1>5. ASSUME NEW top \in DOMAIN disk, NEW k \in 0..Len(disk[top].data), OpenInterrupted(top, k)
      PROVE  AnyInv'
  <2> DEFINE t == Trimmed(top, k)
  <2>1. /\ ~open /\ disk' = t
        /\ UNCHANGED <<open, segs, shut, cur, pending, before, index, nextSeq, durable, unsynced,
                       pc, resume, call, hist, promised>>
    BY <1>5 DEF OpenInterrupted, memory, control, history
  <2>2. /\ DOMAIN t = DOMAIN disk /\ t \in [DOMAIN disk -> File]
        /\ \A s \in DOMAIN disk : t[s].stable <= Len(t[s].data)
        /\ t[top].data = SubSeq(disk[top].data, 1, k)
        /\ \A s \in DOMAIN disk : s # top => t[s] = disk[s]
    BY TrimmedFiles DEF AnyInv
  <2> HIDE DEF t
  <2>3. ASSUME NEW s \in DOMAIN disk PROVE FileOK(t[s], s, hist)
    <3>1. /\ disk[s].data \in Seq(Frame) /\ Genuine(disk[s].data, hist)
          /\ FileOK(disk[s], s, hist) /\ s <= Len(hist) + 1
      BY FileFacts DEF AnyInv
    <3>2. CASE s = top
      <4>1. Front(SubSeq(disk[top].data, 1, k), disk[top].data)
        BY <3>1, <3>2, CutIsFront
      <4>2. Front(t[s].data, disk[s].data)
        BY <2>2, <3>2, <4>1
      <4>3. Genuine(t[s].data, hist)
        BY <3>1, <4>2, FrontGenuine
      <4>4. QED BY <2>2, <3>1, <4>3 DEF FileOK
    <3>3. CASE s # top
      BY <2>2, <3>1, <3>3
    <3>4. QED BY <3>2, <3>3
  <2>4. FilesOK(disk', hist')
    BY <2>1, <2>2, <2>3 DEF AnyInv, FilesOK
  <2>5. DOMAIN disk' = DOMAIN disk
    BY <2>1, <2>2
  <2>6. Handles' /\ Memory'
    BY <2>1, <2>5 DEF AnyInv, Handles, Memory
  <2>7. (Old(call.mark))' = Old(call.mark)
    BY <2>1 DEF Old, EndSeq
  <2>8. Calls'
    BY <2>1, <2>5, <2>7 DEF AnyInv, Calls
  <2>9. Writing'
    BY <2>1 DEF Writing
  <2>10. QED BY <2>4, <2>6, <2>8, <2>9 DEF AnyInv
<1>6. CASE OpenEmptyDirectory
  <2>1. /\ ~open /\ disk' = [s \in {1} |-> NewFile] /\ open' = TRUE /\ segs' = {1} /\ cur' = 1
        /\ index' = <<>> /\ nextSeq' = 1 /\ durable' = 0 /\ hist' = <<>>
        /\ UNCHANGED <<shut, pending, before, unsynced, pc, resume, call, promised>>
    BY <1>6 DEF OpenEmptyDirectory, control
  <2>2. pending = <<>> /\ shut = {} /\ pc = "idle" /\ segs = {}
    BY <2>1 DEF AnyInv, Handles
  <2>3. resume = "idle" /\ call \in Call /\ call.todo = {}
    BY <2>2 DEF AnyInv, Calls
  <2>4. NewFile \in File /\ NewFile.data = <<>> /\ NewFile.stable = 0
    BY DEF NewFile, File
  <2> HIDE DEF NewFile
  <2>5. DOMAIN disk' = {1} /\ disk' \in [DOMAIN disk' -> File] /\ disk'[1] = NewFile
    BY <2>1, <2>4
  <2>6. Genuine(<<>>, <<>>) /\ <<>> \in Seq(Payloads) /\ Len(<<>>) = 0
    BY DEF Genuine, Carries
  <2>7. FileOK(NewFile, 1, <<>>)
    BY <2>4, <2>6 DEF FileOK
  <2>8. FilesOK(disk', hist')
    BY <2>1, <2>5, <2>7 DEF FilesOK
  <2>9. Handles'
    BY <2>1, <2>2, <2>5 DEF Handles
  <2>10. Memory'
    BY <2>1, <2>6 DEF AnyInv, Memory
  <2>11. Calls'
    BY <2>1, <2>2, <2>3 DEF Calls, Steps, Resumes
  <2>12. Writing'
    <3>1. Body' = <<>>
      BY <2>1, <2>2, <2>4, <2>5 DEF Base, Body
    <3>2. QED BY <2>1, <2>2, <2>6, <3>1 DEF Writing
  <2>13. QED BY <2>8, <2>9, <2>10, <2>11, <2>12 DEF AnyInv
<1>7. ASSUME NEW top \in segs \cap DOMAIN disk, NEW k \in 0..Len(disk[top].data),
             TrimFails(top, k)
      PROVE  AnyInv'
  <2>1. /\ pc = "recover" /\ shut = {} /\ Newest(segs, top) /\ Return
        /\ UNCHANGED <<memory, history>>
    <3>1. DOMAIN Contents(segs) = segs
      BY DEF Contents
    <3>2. QED BY <1>7, <3>1 DEF TrimFails, Recovers
  <2> DEFINE f == [Cut(disk[top], k) EXCEPT !.dropped = disk[top].dropped \/ SyncFailDrops]
  <2>2. disk' = disk \/ disk' = [disk EXCEPT ![top] = f]
    BY <1>7 DEF TrimFails
  <2>3. CASE disk' = disk
    BY <2>1, <2>3, ReturnsEarly
  <2>4. CASE disk' = [disk EXCEPT ![top] = f]
    <3>1. open /\ top = cur /\ pending = <<>>
      <4>1. open /\ pending = <<>> /\ segs \subseteq Nat /\ cur \in segs /\ \A s \in segs : s <= cur
        BY <2>1 DEF AnyInv, Handles, Calls
      <4>2. top <= cur /\ cur <= top /\ top \in Nat /\ cur \in Nat
        BY <2>1, <4>1 DEF Newest
      <4>3. QED BY <4>1, <4>2
    <3>2. /\ disk[top] \in File /\ FileOK(disk[top], top, hist) /\ disk[top].data \in Seq(Frame)
          /\ disk[top].stable \in Nat /\ disk[top].stable <= Len(disk[top].data)
          /\ disk[top].dropped \in BOOLEAN /\ Genuine(disk[top].data, hist)
      BY FileFacts DEF AnyInv
    <3>3. Front(SubSeq(disk[top].data, 1, k), disk[top].data) /\ Len(SubSeq(disk[top].data, 1, k)) = k
      BY <3>2, CutIsFront
    <3>4. SubSeq(disk[top].data, 1, k) \in Seq(Frame) /\ Genuine(SubSeq(disk[top].data, 1, k), hist)
      BY <3>2, <3>3, FrontGenuine DEF Front
    <3>5. /\ f \in File /\ f.data = SubSeq(disk[top].data, 1, k) /\ f.stable <= k
      BY <3>2, <3>4, CutDropped
    <3> HIDE DEF f
    <3>6. FileOK(f, cur, hist)
      BY <3>1, <3>2, <3>3, <3>4, <3>5 DEF FileOK
    <3>7. Calls' /\ pc' = "idle"
      BY <2>1, CallEnds DEF Return
    <3>8. Genuine(Body', hist)
      <4>1. cur \in DOMAIN disk
        BY <3>1
      <4>2. Base' = f.data
        BY <2>1, <2>4, <3>1, <3>7, <4>1 DEF Base, memory
      <4>3. Body' = f.data \o <<>>
        BY <2>1, <3>1, <4>2 DEF Body, memory
      <4>4. QED BY <3>4, <3>5, <4>3
    <3>9. QED BY <2>1, <2>4, <3>1, <3>6, <3>7, <3>8, CurrentStep DEF AnyInv, Memory, memory, history
  <2>5. QED BY <2>2, <2>3, <2>4
<1>8. QED BY <1>1, <1>2, <1>3, <1>4, <1>5, <1>6, <1>7 DEF Recoveries

-------------------------------------------------------------------------------
(* CleanOldSegments and Corrupt, in every environment.                      *)
LEMMA DirectoryStep ==
  ASSUME AnyInv, open, pc # "partial", pc' # "partial", FilesOK(disk', hist), Handles', Calls',
         DOMAIN index' \subseteq Nat \ {0}, index' \in [DOMAIN index' -> Location],
         UNCHANGED <<open, cur, pending, before, nextSeq, durable, unsynced, hist, promised>>,
         Genuine(disk'[cur].data \o pending, hist)
  PROVE  AnyInv'
<1>1. Memory'
  BY DEF AnyInv, Memory
<1>2. Body' = disk'[cur].data \o pending
  BY DEF Base, Body
<1>3. Writing'
  BY <1>2 DEF AnyInv, Writing
<1>4. QED BY <1>1, <1>3 DEF AnyInv

\* Files that keep their frames, in a directory that loses one of them.
LEMMA FileGoes ==
  ASSUME AnyInv, NEW s, NEW e, DOMAIN e \subseteq DOMAIN disk, DOMAIN disk \ {s} \subseteq DOMAIN e,
         \A t \in DOMAIN e : e[t] \in File /\ e[t].data = disk[t].data /\ e[t].stable = disk[t].stable,
         e \in [DOMAIN e -> File]
  PROVE  FilesOK(e, hist)
<1>1. ASSUME NEW t \in DOMAIN e PROVE FileOK(e[t], t, hist)
  <2>1. FileOK(disk[t], t, hist)
    BY FileFacts DEF AnyInv
  <2>2. QED BY <2>1 DEF FileOK
<1>2. QED BY <1>1, FilesShrink DEF AnyInv

LEMMA CleanSegmentStep ==
  ASSUME AnyInv, NEW s \in segs, CleanSegment(s)
  PROVE  AnyInv'
<1> DEFINE F(t) == [disk[t] EXCEPT !.named = TRUE]
           e == [t \in DOMAIN disk \ {s} |-> F(t)]
<1>1. /\ open /\ pc = "clean" /\ s \in call.todo /\ disk' = e /\ shut' = shut \cup {s}
      /\ call' = [call EXCEPT !.todo = @ \ {s}]
      /\ UNCHANGED <<open, segs, cur, pending, before, index, nextSeq, durable, unsynced,
                     pc, resume, hist, promised>>
  BY DEF AnyInv, Handles, CleanSegment, Oldest, history
<1>2. /\ call \in Call /\ call.todo \subseteq segs \ {cur} /\ pending = <<>> /\ resume \in Resumes
      /\ resume = "idle" /\ Old(call.mark) \cap DOMAIN disk \subseteq call.todo
  BY <1>1 DEF AnyInv, Calls
<1>3. /\ s # cur /\ cur \in DOMAIN disk /\ Body = disk[cur].data \o pending
  BY <1>1, <1>2, BodyFacts
<1>4. ASSUME NEW t \in DOMAIN disk
      PROVE  F(t) \in File /\ F(t).data = disk[t].data /\ F(t).stable = disk[t].stable
  BY FileFacts DEF AnyInv, File
<1>5. DOMAIN e = DOMAIN disk \ {s} /\ \A t \in DOMAIN e : e[t] = F(t)
  OBVIOUS
<1> HIDE DEF F
<1>6. e \in [DOMAIN e -> File]
  BY <1>4
<1> HIDE DEF e
<1>7. FilesOK(disk', hist)
  BY <1>1, <1>4, <1>5, <1>6, FileGoes
<1>8. disk'[cur].data = disk[cur].data /\ cur \in DOMAIN disk'
  BY <1>1, <1>3, <1>4, <1>5
<1>9. Handles'
  BY <1>1, <1>3, <1>5 DEF AnyInv, Handles
<1>10. Calls'
  <2>1. (Old(call.mark))' = Old(call'.mark)
    BY <1>1 DEF Old, EndSeq
  <2>2. call' \in Call /\ call'.todo = call.todo \ {s} /\ call'.mark = call.mark
    BY <1>1, <1>2 DEF Call
  <2>3. Old(call'.mark) \cap DOMAIN disk' \subseteq call'.todo
    BY <1>1, <1>2, <1>5, <2>2
  <2>4. QED BY <1>1, <1>2, <2>1, <2>2, <2>3 DEF Calls, Steps
<1>11. Genuine(disk'[cur].data \o pending, hist)
  BY <1>1, <1>3, <1>8 DEF AnyInv, Writing
<1>12. DOMAIN index' \subseteq Nat \ {0} /\ index' \in [DOMAIN index' -> Location]
  BY <1>1 DEF AnyInv, Memory
<1>13. pc # "partial" /\ pc' # "partial"
  BY <1>1
<1>14. QED BY <1>1, <1>7, <1>9, <1>10, <1>11, <1>12, <1>13, DirectoryStep

LEMMA CleanFailsStep ==
  ASSUME AnyInv, NEW s \in segs, CleanFails(s)
  PROVE  AnyInv'
<1> DEFINE e == [t \in DOMAIN disk \ {s} |-> disk[t]]
<1>1. /\ open /\ pc = "clean" /\ s \in call.todo /\ (disk' = disk \/ disk' = e)
      /\ shut' = shut \cup {s} /\ pc' = "idle" /\ resume' = "idle" /\ call' = NoCall
      /\ UNCHANGED <<open, segs, cur, pending, before, index, nextSeq, durable, unsynced,
                     hist, promised>>
  BY DEF AnyInv, Handles, CleanFails, Oldest, Return, history
<1>2. s # cur /\ cur \in DOMAIN disk /\ Body = disk[cur].data \o pending
  <2>1. call.todo \subseteq segs \ {cur}
    BY DEF AnyInv, Calls
  <2>2. QED BY <1>1, <2>1, BodyFacts
<1>3. e \in [DOMAIN e -> File] /\ DOMAIN e = DOMAIN disk \ {s} /\ \A t \in DOMAIN e : e[t] = disk[t]
  BY DEF AnyInv, FilesOK
<1> HIDE DEF e
<1>4. FilesOK(e, hist)
  <2>1. \A t \in DOMAIN e : e[t] \in File /\ e[t].data = disk[t].data /\ e[t].stable = disk[t].stable
    BY <1>3
  <2>2. QED BY <1>3, <2>1, FileGoes
<1>5. /\ FilesOK(disk', hist) /\ DOMAIN disk' \subseteq DOMAIN disk
      /\ DOMAIN disk \ {s} \subseteq DOMAIN disk' /\ disk'[cur] = disk[cur]
  BY <1>1, <1>2, <1>3, <1>4 DEF AnyInv
<1>6. Handles'
  BY <1>1, <1>2, <1>5 DEF AnyInv, Handles
<1>7. Calls'
  BY <1>1, CallEnds
<1>8. Genuine(disk'[cur].data \o pending, hist)
  BY <1>1, <1>2, <1>5 DEF AnyInv, Writing
<1>9. DOMAIN index' \subseteq Nat \ {0} /\ index' \in [DOMAIN index' -> Location]
  BY <1>1 DEF AnyInv, Memory
<1>10. pc # "partial" /\ pc' # "partial"
  BY <1>1
<1>11. QED BY <1>1, <1>5, <1>6, <1>7, <1>8, <1>9, <1>10, DirectoryStep

LEMMA CleanReturnsStep ==
  ASSUME AnyInv, CleanReturns
  PROVE  AnyInv'
<1> DEFINE old == Old(call.mark)
           ix == [seq \in {q \in DOMAIN index : q >= call.mark} |-> index[seq]]
<1>1. /\ open /\ pc = "clean" /\ call.todo = {} /\ segs' = segs \ old /\ shut' = shut \ old
      /\ index' = ix /\ pc' = "idle" /\ resume' = "idle" /\ call' = NoCall
      /\ UNCHANGED <<disk, open, cur, pending, before, nextSeq, durable, unsynced, hist, promised>>
  BY DEF AnyInv, Handles, CleanReturns, Return, history
<1>2. old \cap DOMAIN disk = {} /\ cur \notin old /\ old \subseteq segs
  BY <1>1 DEF AnyInv, Calls, Old
<1> HIDE DEF old
<1>3. Handles'
  BY <1>1, <1>2 DEF AnyInv, Handles
<1>4. Calls'
  BY <1>1, CallEnds
<1>5. DOMAIN ix \subseteq Nat \ {0} /\ ix \in [DOMAIN ix -> Location]
  BY DEF AnyInv, Memory
<1> HIDE DEF ix
<1>6. FilesOK(disk', hist)
  BY <1>1 DEF AnyInv
<1>7. Genuine(disk'[cur].data \o pending, hist)
  <2>1. Body = disk[cur].data \o pending
    BY <1>1, BodyFacts
  <2>2. QED BY <1>1, <2>1 DEF AnyInv, Writing
<1>8. pc # "partial" /\ pc' # "partial"
  BY <1>1
<1>9. QED BY <1>1, <1>3, <1>4, <1>5, <1>6, <1>7, <1>8, DirectoryStep

\* Corrupt changes a checksum and no frame's record.
LEMMA CorruptStep ==
  ASSUME AnyInv, CorruptFlips
  PROVE  AnyInv'
<1>1. /\ open /\ pc = "corrupt" /\ pc' = "idle" /\ resume' = "idle" /\ call' = NoCall
      /\ UNCHANGED <<open, segs, shut, cur, pending, before, index, nextSeq, durable, unsynced,
                     hist, promised>>
  BY DEF AnyInv, Handles, CorruptFlips, Return, memory, history
<1>2. /\ cur \in DOMAIN disk /\ pending = <<>> /\ Body = disk[cur].data \o pending
      /\ Genuine(Body, hist)
  BY <1>1, BodyFacts DEF AnyInv, Calls, Writing
<1>3. Calls'
  BY <1>1, CallEnds
<1>4. DOMAIN index' \subseteq Nat \ {0} /\ index' \in [DOMAIN index' -> Location]
  BY <1>1 DEF AnyInv, Memory
<1>5. pc # "partial" /\ pc' # "partial"
  BY <1>1
<1>6. CASE UNCHANGED disk
  <2>1. Handles' /\ FilesOK(disk', hist)
    BY <1>1, <1>6 DEF AnyInv, Handles
  <2>2. Genuine(disk'[cur].data \o pending, hist)
    BY <1>2, <1>6
  <2>3. QED BY <1>1, <1>3, <1>4, <1>5, <2>1, <2>2, DirectoryStep
<1>7. CASE CanFlip(call.mark)
  <2> DEFINE s == index[call.mark].seg
             i == index[call.mark].off + 1
             f == disk[s]
             a == [f.data EXCEPT ![i] = Flipped(f.data[i])]
             h == [f EXCEPT !.data = a]
             g == Synced(h)
  <2>1. disk' = [disk EXCEPT ![s] = g]
    BY <1>7 DEF CorruptFlips
  <2>2. s \in DOMAIN disk
    BY <1>7 DEF CanFlip, AnyInv, Handles
  <2>3. /\ f \in File /\ f.data \in Seq(Frame) /\ f.stable <= Len(f.data)
        /\ Genuine(f.data, hist) /\ s <= Len(hist) + 1
    BY <2>2, FileFacts DEF AnyInv
  <2>4. Front(a, f.data) /\ Len(a) = Len(f.data)
    BY <2>3, FlippedIsFront
  <2> HIDE DEF a, s, f
  <2>5. a \in Seq(Frame) /\ Genuine(a, hist)
    BY <2>3, <2>4, FrontGenuine DEF Front
  <2>6. h \in File /\ h.data = a /\ h.stable = f.stable
    BY <2>3, <2>5, FileHolds
  <2> HIDE DEF h
  <2>7. g \in File /\ g.data = a /\ g.stable <= Len(a)
    BY <2>3, <2>4, <2>6, SyncedHolds
  <2> HIDE DEF g
  <2>8. FileOK(g, s, hist)
    BY <2>3, <2>5, <2>7 DEF FileOK
  <2>9. FilesOK(disk', hist) /\ DOMAIN disk' = DOMAIN disk /\ disk'[s] = g
    BY <2>1, <2>2, <2>8, FileChanges DEF AnyInv
  <2>10. Handles'
    BY <1>1, <2>9 DEF AnyInv, Handles
  <2>11. Genuine(disk'[cur].data \o pending, hist)
    <3>1. disk'[cur].data \in Seq(Frame) /\ Genuine(disk'[cur].data, hist)
      BY <1>2, <2>9, FileFacts
    <3>2. disk'[cur].data \o <<>> = disk'[cur].data
      BY <3>1
    <3>3. QED BY <1>2, <3>1, <3>2
  <2>12. QED BY <1>1, <1>3, <1>4, <1>5, <2>9, <2>10, <2>11, DirectoryStep
<1>8. QED BY <1>6, <1>7 DEF CorruptFlips

LEMMA CleaningSteps ==
  ASSUME AnyInv, Cleanings
  PROVE  AnyInv'
<1>1. ASSUME NEW mark \in 1..MaxSeq + 1, CleanOldSegments(mark) PROVE AnyInv'
  <2>1. Idle /\ StartFlush("clean") /\ UNCHANGED <<disk, memory, history>>
        /\ call' = [NoCall EXCEPT !.mark = mark, !.todo = Old(mark)]
    BY <1>1 DEF CleanOldSegments
  <2>2. Old(mark) \subseteq segs \ {cur} /\ mark \in Nat /\ segs \subseteq Nat \ {0}
    BY OptionsAssumption DEF Old, AnyInv, Handles
  <2>3. call' \in Call /\ call'.todo = Old(mark) /\ call'.mark = mark
    BY <2>1, <2>2, NoCallType DEF Call
  <2>4. "clean" \in Resumes
    BY DEF Resumes
  <2>5. QED BY <2>1, <2>2, <2>3, <2>4, FlushBegins
<1>2. ASSUME NEW seq \in 1..MaxSeq, Corrupt(seq) PROVE AnyInv'
  <2>1. Idle /\ StartFlush("corrupt") /\ UNCHANGED <<disk, memory, history>>
        /\ call' = [NoCall EXCEPT !.mark = seq]
    BY <1>2 DEF Corrupt
  <2>2. seq \in Nat
    BY OptionsAssumption
  <2>3. call' \in Call /\ call'.todo = {}
    BY <2>1, <2>2, NoCallType DEF Call
  <2>4. "corrupt" \in Resumes
    BY DEF Resumes
  <2>5. QED BY <2>1, <2>3, <2>4, FlushBegins
<1>3. QED BY <1>1, <1>2, CleanSegmentStep, CleanFailsStep, CleanReturnsStep, CorruptStep
          DEF Cleanings

-------------------------------------------------------------------------------
(* The end of the process, in every environment.                            *)
LEMMA DownStep ==
  ASSUME AnyInv, Down, FilesOK(disk', hist)
  PROVE  AnyInv'
<1>1. /\ open' = FALSE /\ segs' = {} /\ shut' = {} /\ cur' = 0
      /\ pending' = <<>> /\ before' = 0 /\ index' = <<>>
      /\ nextSeq' = 1 /\ durable' = 0 /\ unsynced' = 0
      /\ pc' = "idle" /\ resume' = "idle" /\ call' = NoCall
      /\ hist' = hist /\ promised' = promised
  BY DEF Down, Return, history
<1>2. Handles' /\ Writing'
  BY <1>1 DEF Handles, Writing
<1>3. Memory'
  <2>1. pending' \in Seq(Frame) /\ DOMAIN index' = {} /\ index' \in [DOMAIN index' -> Location]
    BY <1>1
  <2>2. hist' \in Seq(Payloads) /\ promised' \in Nat
    BY <1>1 DEF AnyInv, Memory
  <2>3. open' \in BOOLEAN
    BY <1>1, Zenon
  <2>4. /\ before' \in Nat /\ nextSeq' \in Nat \ {0} /\ durable' \in Nat /\ unsynced' \in Nat
    BY <1>1
  <2>5. DOMAIN index' \subseteq Nat \ {0}
    BY <2>1
  <2>6. QED BY <2>1, <2>2, <2>3, <2>4, <2>5 DEF Memory
<1>4. Calls'
  BY <1>1, CallEnds
<1>5. QED BY <1>1, <1>2, <1>3, <1>4 DEF AnyInv

LEMMA LeftBehindStep ==
  ASSUME AnyInv
  PROVE  FilesOK(LeftBehind, hist)
<1> DEFINE F(s) == [disk[s] EXCEPT !.named = TRUE,
                          !.stable = IF disk[s].dropped THEN @ ELSE Len(disk[s].data)]
           e == [s \in DOMAIN disk |-> F(s)]
<1>1. ASSUME NEW s \in DOMAIN disk PROVE F(s) \in File /\ FileOK(F(s), s, hist)
  <2> DEFINE f == disk[s]
             n == IF f.dropped THEN f.stable ELSE Len(f.data)
             w == [f EXCEPT !.named = TRUE, !.stable = n]
  <2>1. /\ f \in File /\ f.data \in Seq(Frame) /\ f.stable \in Nat /\ f.dropped \in BOOLEAN
        /\ f.stable <= Len(f.data) /\ Genuine(f.data, hist) /\ s <= Len(hist) + 1
    BY FileFacts DEF AnyInv
  <2>2. n \in Nat /\ n <= Len(f.data)
    BY <2>1
  <2>3. F(s) = w
    OBVIOUS
  <2> HIDE DEF n, F, f
  <2>4. w \in File /\ w.stable = n /\ w.data = f.data
    BY <2>1, <2>2 DEF File
  <2> HIDE DEF w
  <2>5. QED BY <2>1, <2>2, <2>3, <2>4 DEF FileOK
<1>2. LeftBehind = e \/ LeftBehind = disk
  BY DEF LeftBehind
<1> HIDE DEF F
<1>3. DOMAIN e = DOMAIN disk /\ e \in [DOMAIN e -> File] /\ \A s \in DOMAIN e : e[s] = F(s)
  BY <1>1
<1> HIDE DEF e
<1>4. FilesOK(e, hist)
  BY <1>1, <1>3, FilesShrink DEF AnyInv
<1>5. QED BY <1>2, <1>4 DEF AnyInv

\* What a loss of power leaves of a file is the front of it.
LEMMA RemainsIsFront ==
  ASSUME NEW f \in File, NEW e \in Remains(f)
  PROVE  Front(e, f.data)
<1>1. f.data \in Seq(Frame) /\ f.stable \in Nat /\ Len(f.data) \in Nat
  BY DEF File
<1>2. ASSUME NEW k \in f.stable..Len(f.data), e = SubSeq(f.data, 1, k) PROVE Front(e, f.data)
  <2>1. k \in 0..Len(f.data)
    BY <1>1
  <2>2. QED BY <1>1, <1>2, <2>1, CutIsFront
<1>3. ASSUME NEW k \in f.stable..Len(f.data) - 1,
             e = Append(SubSeq(f.data, 1, k), [f.data[k+1] EXCEPT !.kind = "torn"])
      PROVE  Front(e, f.data)
  <2>1. k \in 0..Len(f.data) - 1
    BY <1>1
  <2>2. QED BY <1>1, <1>3, <2>1, TornIsFront
<1>4. QED BY <1>2, <1>3 DEF Remains

LEMMA PowerLossStep ==
  ASSUME AnyInv, PowerLoss
  PROVE  AnyInv'
<1>1. PICK gone \in SUBSET {s \in DOMAIN disk : ~disk[s].named} :
        \E left \in [Dirty \ gone -> UNION {Remains(disk[s]) : s \in Dirty}] :
          /\ \A s \in Dirty \ gone : left[s] \in Remains(disk[s])
          /\ disk' = [s \in DOMAIN disk \ gone |->
                        Settled(IF s \in Dirty THEN left[s] ELSE disk[s].data)]
          /\ Down
  BY DEF PowerLoss
<1>2. PICK left \in [Dirty \ gone -> UNION {Remains(disk[s]) : s \in Dirty}] :
        /\ \A s \in Dirty \ gone : left[s] \in Remains(disk[s])
        /\ disk' = [s \in DOMAIN disk \ gone |->
                      Settled(IF s \in Dirty THEN left[s] ELSE disk[s].data)]
        /\ Down
  BY <1>1
<1> DEFINE F(s) == Settled(IF s \in Dirty THEN left[s] ELSE disk[s].data)
           e == [s \in DOMAIN disk \ gone |-> F(s)]
<1>3. disk' = e
  BY <1>2
<1>4. ASSUME NEW s \in DOMAIN disk \ gone PROVE F(s) \in File /\ FileOK(F(s), s, hist)
  <2> DEFINE a == IF s \in Dirty THEN left[s] ELSE disk[s].data
  <2>1. /\ disk[s] \in File /\ disk[s].data \in Seq(Frame) /\ Genuine(disk[s].data, hist)
        /\ s <= Len(hist) + 1
    BY FileFacts DEF AnyInv
  <2>2. a \in Seq(Frame) /\ Genuine(a, hist)
    <3>1. CASE s \in Dirty
      <4>1. a = left[s] /\ left[s] \in Remains(disk[s])
        BY <1>2, <3>1
      <4>2. Front(a, disk[s].data)
        BY <2>1, <4>1, RemainsIsFront
      <4> HIDE DEF a
      <4>3. QED BY <2>1, <4>2, FrontGenuine DEF Front
    <3>2. CASE s \notin Dirty
      BY <2>1, <3>2
    <3>3. QED BY <3>1, <3>2
  <2>3. F(s) = Settled(a)
    OBVIOUS
  <2> HIDE DEF a, F
  <2>4. Settled(a) \in File /\ Settled(a).data = a /\ Settled(a).stable = Len(a)
    BY <2>2 DEF Settled, File
  <2>5. Len(a) \in Nat
    BY <2>2
  <2>6. QED BY <2>1, <2>2, <2>3, <2>4, <2>5 DEF FileOK
<1> HIDE DEF F
<1>5. DOMAIN e = DOMAIN disk \ gone /\ e \in [DOMAIN e -> File] /\ \A s \in DOMAIN e : e[s] = F(s)
  BY <1>4
<1> HIDE DEF e
<1>6. FilesOK(disk', hist)
  BY <1>3, <1>4, <1>5, FilesShrink DEF AnyInv
<1>7. QED BY <1>2, <1>6, DownStep

LEMMA EndingSteps ==
  ASSUME AnyInv, Endings
  PROVE  AnyInv'
<1>1. CASE Close
  <2>1. Idle /\ StartFlush("close") /\ UNCHANGED <<disk, memory, call, history>>
    BY <1>1 DEF Close
  <2>2. call \in Call /\ call.todo = {}
    BY <2>1 DEF AnyInv, Calls, Idle
  <2>3. "close" \in Resumes
    BY DEF Resumes
  <2>4. QED BY <2>1, <2>2, <2>3, FlushBegins
<1>2. CASE CloseReturns \/ ProcessCrash
  <2>1. Down /\ disk' = LeftBehind
    BY <1>2 DEF CloseReturns, ProcessCrash
  <2>2. QED BY <2>1, LeftBehindStep, DownStep
<1>3. QED BY <1>1, <1>2, PowerLossStep DEF Endings

-------------------------------------------------------------------------------
(* What holds in every environment.                                         *)
THEOREM AnyInductive == Spec => []AnyInv
<1>1. Init => AnyInv
  <2>1. SUFFICES ASSUME Init PROVE AnyInv
    OBVIOUS
  <2>2. /\ DOMAIN disk = {} /\ disk \in [DOMAIN disk -> File] /\ hist = <<>>
        /\ open = FALSE /\ segs = {} /\ shut = {} /\ cur = 0 /\ pending = <<>> /\ before = 0
        /\ DOMAIN index = {} /\ index \in [DOMAIN index -> Location]
        /\ nextSeq = 1 /\ durable = 0 /\ unsynced = 0
        /\ pc = "idle" /\ resume = "idle" /\ call = NoCall /\ promised = 0
    BY <2>1 DEF Init
  <2>3. FilesOK(disk, hist)
    BY <2>2 DEF FilesOK
  <2>4. Handles /\ Writing
    BY <2>2 DEF Handles, Writing
  <2>5. Memory
    <3>1. pending \in Seq(Frame) /\ hist \in Seq(Payloads)
      BY <2>2
    <3>2. /\ before \in Nat /\ durable \in Nat /\ unsynced \in Nat /\ promised \in Nat
          /\ nextSeq \in Nat \ {0}
      BY <2>2
    <3>3. open \in BOOLEAN
      BY <2>2, Zenon
    <3>4. DOMAIN index \subseteq Nat \ {0}
      BY <2>2
    <3>5. QED BY <2>2, <3>1, <3>2, <3>3, <3>4 DEF Memory
  <2>6. Calls
    BY <2>2, NoCallType DEF Calls, Steps, Resumes
  <2>7. QED BY <2>3, <2>4, <2>5, <2>6 DEF AnyInv
<1>2. AnyInv /\ [Next]_vars => AnyInv'
  <2>1. SUFFICES ASSUME AnyInv, [Next]_vars PROVE AnyInv'
    OBVIOUS
  <2>2. CASE UNCHANGED vars
    <3>1. /\ UNCHANGED <<disk, open, segs, shut, cur, pending, before, index, nextSeq, durable,
                         unsynced, pc, resume, call, hist, promised>>
      BY <2>2 DEF vars, memory, control, history
    <3>2. FilesOK(disk', hist')
      BY <2>1, <3>1 DEF AnyInv
    <3>3. Handles' /\ Memory'
      BY <2>1, <3>1 DEF AnyInv, Handles, Memory
    <3>4. Body' = Body /\ (Old(call.mark))' = Old(call.mark)
      BY <3>1 DEF Base, Body, Old, EndSeq
    <3>5. Calls' /\ Writing'
      BY <2>1, <3>1, <3>4 DEF AnyInv, Calls, Writing
    <3>6. QED BY <3>2, <3>3, <3>5 DEF AnyInv
  <2>3. CASE Next
    BY <2>1, <2>3, AppendSteps, FlushSteps, RecoverySteps, CleaningSteps, EndingSteps DEF Next
  <2>4. QED BY <2>1, <2>2, <2>3
<1>3. QED BY <1>1, <1>2, PTL DEF Spec

\* TypeOK holds in every state of the WAL, in every environment: no flush, failure,
\* recovery, cleaning or crash leaves a call without the segment or the handle it works on.
THEOREM TypeCorrect == Spec => []TypeOK
BY AnyInductive, AnyType, PTL

\* The frames that a read finds are those of a record, in their order.
LEMMA ReadsInOrder ==
  ASSUME NEW d \in Seq(Frame), Genuine(d, hist), NEW loc \in Location, NEW seq \in Nat \ {0},
         NEW m \in 1..loc.n, ReadsAt(d, seq, loc, m)
  PROVE  Spells(d, loc, m, hist[seq])
<1> DEFINE off == loc.off
<1>1. off \in Nat /\ m \in Nat \ {0}
  BY DEF Location
<1>2. off + m <= Len(d) /\ d[off + 1].part = 1
      /\ \A j \in 1..m : /\ d[off + j].seq = seq
                         /\ FlagLast(d[off + j]) <=> j = m
  BY DEF ReadsAt, FlagFirst
<1> HIDE DEF off
<1>3. \A j \in 1..m : off + j \in 1..Len(d)
  BY <1>1, <1>2
<1>4. ASSUME NEW j \in 1..m, j > 1
      PROVE  d[off + j].part = d[off + (j - 1)].part + 1
  <2>1. j - 1 \in 1..m /\ off + (j - 1) \in 1..Len(d) - 1 /\ off + (j - 1) + 1 = off + j
    BY <1>1, <1>2, <1>4
  <2>2. d[off + (j - 1)].seq = seq /\ d[off + j].seq = seq
    BY <1>2, <2>1
  <2> DEFINE i == off + (j - 1)
  <2>3. i \in 1..Len(d) - 1 /\ d[i+1].seq = d[i].seq /\ i + 1 = off + j
    BY <2>1, <2>2
  <2> HIDE DEF i
  <2>4. d[i+1].part = d[i].part + 1
    BY <2>3 DEF Genuine
  <2>5. QED BY <2>3, <2>4 DEF i
<1>5. \A j \in 1..m : d[off + j].part = j
  <2> DEFINE T == {j \in 1..m : d[off + j].part # j}
  <2>1. SUFFICES T = {}
    OBVIOUS
  <2>2. SUFFICES ASSUME T # {} PROVE FALSE
    OBVIOUS
  <2>3. T \subseteq Nat
    BY <1>1
  <2>4. PICK x \in T : \A y \in T : x <= y
    BY <2>2, <2>3, Least
  <2>5. x \in 1..m /\ d[off + x].part # x
    OBVIOUS
  <2>6. x > 1
    BY <1>2, <2>5
  <2>7. x - 1 \in 1..m /\ x - 1 \notin T
    BY <1>1, <2>4, <2>5, <2>6
  <2>8. d[off + (x - 1)].part = x - 1
    BY <2>7
  <2>9. d[off + x].part = x - 1 + 1
    BY <1>4, <2>5, <2>6, <2>8
  <2>10. QED BY <2>5, <2>9
<1>6. ASSUME NEW j \in 1..m PROVE d[off + j].payload = hist[seq]
  BY <1>2, <1>3 DEF Genuine, Carries
<1>7. m = Parts[hist[seq]]
  <2>1. m \in 1..m /\ FlagLast(d[off + m])
    BY <1>1, <1>2
  <2>2. d[off + m].part = m /\ d[off + m].payload = hist[seq]
    BY <1>5, <1>6, <2>1
  <2>3. QED BY <2>1, <2>2 DEF FlagLast
<1>8. QED BY <1>5, <1>6, <1>7 DEF Spells, off

\* In every environment, whatever fails, is lost or is damaged: a read that returns no
\* error returns the payload that was appended under its sequence.  An index entry may
\* point at the frames of another record, at a torn or at a damaged one, but the fragment
\* numbers, the sequence and the checksum that readLocation compares give that away.
THEOREM NeverMisreads == Spec => []NeverMisread
<1>1. AnyInv => NeverMisread
  <2>1. SUFFICES ASSUME AnyInv, Idle, NEW seq \in DOMAIN index,
                        index[seq].seg \in segs \ shut,
                        NEW m \in 1..index[seq].n,
                        ReadsAt(Written(index[seq].seg), seq, index[seq], m)
                 PROVE  Spells(Written(index[seq].seg), index[seq], m, hist[seq])
    BY DEF NeverMisread
  <2> DEFINE s == index[seq].seg
             d == Written(s)
  <2>2. /\ open /\ pc = "idle" /\ s \in DOMAIN disk /\ seq \in Nat \ {0}
        /\ index[seq] \in Location
    BY <2>1 DEF AnyInv, Handles, Memory, Idle
  <2>3. d \in Seq(Frame) /\ Genuine(d, hist)
    <3>1. CASE s = cur
      <4>1. d = Body
        BY <2>1, <2>2, <3>1, BodyFacts DEF Written
      <4>2. QED BY <2>1, <2>2, <4>1, BodyFacts DEF AnyInv, Writing
    <3>2. CASE s # cur
      <4>1. disk[s].data \in Seq(Frame) /\ Genuine(disk[s].data, hist)
        BY <2>1, <2>2, FileFacts DEF AnyInv
      <4>2. d = disk[s].data \o <<>>
        BY <3>2 DEF Written
      <4>3. d = disk[s].data
        BY <4>1, <4>2
      <4>4. QED BY <4>1, <4>3
    <3>3. QED BY <3>1, <3>2
  <2> HIDE DEF d
  <2>4. ReadsAt(d, seq, index[seq], m)
    BY <2>1 DEF d
  <2>5. Spells(d, index[seq], m, hist[seq])
    BY <2>1, <2>2, <2>3, <2>4, ReadsInOrder
  <2>6. QED BY <2>5 DEF d
<1>2. QED BY <1>1, AnyInductive, PTL

\* In every environment, whatever fails, is lost or is damaged, a scan of the directory
\* behind a crash or in a running process does what recoverLocked and scanSegment do
\* frame by frame: it refuses the directory, or keeps, indexes and counts the same.
THEOREM AlwaysScanAgrees == Spec => []ScanAgrees
<1>1. ASSUME AnyInv, DOMAIN disk # {} PROVE ScansAgree(Contents(DOMAIN disk))
  <2> DEFINE S == DOMAIN disk
             b == Len(hist) + 1
             files == Contents(S)
  <2>1. S \subseteq Nat \ {0} /\ DOMAIN files = S
    BY <1>1 DEF AnyInv, FilesOK, Contents
  <2>2. SegmentFiles(files)
    BY <1>1, FileFacts DEF AnyInv, FilesOK, Contents, SegmentFiles
  <2>3. b \in Nat /\ \A s \in S : s <= b
    BY <1>1, FileFacts DEF AnyInv, Memory
  <2> HIDE DEF b
  <2> DEFINE T == {b - s : s \in S}
  <2>4. T \subseteq Nat /\ T # {}
    BY <1>1, <2>1, <2>3
  <2>5. PICK x \in T : \A y \in T : x <= y
    BY <2>4, Least
  <2>6. PICK top \in S : x = b - top
    BY <2>5
  <2>7. ASSUME NEW s \in S PROVE s <= top
    <3>1. b - s \in T
      OBVIOUS
    <3>2. b - top <= b - s
      BY <2>5, <2>6, <3>1
    <3>3. QED BY <2>1, <2>3, <3>2
  <2>8. Newest(DOMAIN files, top)
    BY <2>1, <2>7 DEF Newest
  <2> HIDE DEF files
  <2>9. ScansAgree(files)
    BY <2>2, <2>8, LoopsAgree
  <2>10. QED BY <2>9 DEF files
<1>2. AnyInv => ScanAgrees
  BY <1>1 DEF ScanAgrees
<1>3. QED BY <1>2, AnyInductive, PTL
=============================================================================
