--------------------------- MODULE WalFormatProofs ---------------------------
(***************************************************************************)
(* Lemmas about the segment format, for segments of every length.  A run   *)
(* of frames is Chained when it is what appends produce: fragments of      *)
(* records in order, the last record perhaps unfinished.  The parts say    *)
(* of every frame where its record begins and ends, so that no proof needs *)
(* to walk a segment frame by frame.                                       *)
(*                                                                         *)
(* The loops of the scan do walk a segment frame by frame, and meet files  *)
(* that no append produced.  The last part proves of every directory that  *)
(* they do what WalFormat says of their outcome.                           *)
(***************************************************************************)
EXTENDS WalScan, SequenceTheorems, WellFoundedInduction, TLAPS

\* Where the first record of the segment begins.
Starts(d, base) == d # <<>> => d[1].seq = base + 1 /\ d[1].part = 1

\* What follows a frame.
Linear(d) ==
  \A i \in 1..Len(d) - 1 :
    IF FlagLast(d[i])
    THEN d[i+1].seq = d[i].seq + 1 /\ d[i+1].part = 1
    ELSE /\ d[i+1].seq = d[i].seq /\ d[i+1].part = d[i].part + 1
         /\ d[i+1].payload = d[i].payload

\* The fragments of a record in front of one of its frames.
Grouped(d) ==
  \A i \in 1..Len(d) :
    /\ d[i].part <= i /\ d[i].part <= Parts[d[i].payload]
    /\ \A j \in 1..d[i].part :
         LET f == d[i - d[i].part + j]
         IN  f.seq = d[i].seq /\ f.payload = d[i].payload /\ f.part = j

\* Sequences never decrease, and equal ones lie in one record.
Ordered(d) ==
  \A j \in 1..Len(d) : \A i \in 1..j :
    /\ d[i].seq <= d[j].seq
    /\ d[i].seq = d[j].seq => j - i = d[j].part - d[i].part

\* Every record but the last one ends.
Closed(d) ==
  \A i \in 1..Len(d) :
    d[i].seq < d[Len(d)].seq =>
      LET e == i + Parts[d[i].payload] - d[i].part
      IN  e <= Len(d) /\ d[e].seq = d[i].seq /\ d[e].payload = d[i].payload
          /\ FlagLast(d[e])

Chained(d, base) ==
  Starts(d, base) /\ Linear(d) /\ Grouped(d) /\ Ordered(d) /\ Closed(d)

AllOk(d)   == \A i \in 1..Len(d) : d[i].kind = "ok"
TornEnd(d) == \A i \in 1..Len(d) : d[i].kind = "ok" \/ (i = Len(d) /\ d[i].kind = "torn")

-------------------------------------------------------------------------------
\* The fields of a frame have their types.
LEMMA FrameTypes ==
  ASSUME NEW d \in Seq(Frame), NEW i \in 1..Len(d)
  PROVE  /\ d[i] \in Frame
         /\ d[i].seq \in Nat \ {0} /\ d[i].part \in Nat \ {0}
         /\ d[i].payload \in Payloads /\ Parts[d[i].payload] \in Nat \ {0}
<1>1. d[i] \in Frame
  OBVIOUS
<1>2. QED BY <1>1, PartsAssumption DEF Frame

\* The frames of the record that frame i belongs to lie in the segment.
LEMMA GroupInside ==
  ASSUME NEW d \in Seq(Frame), Grouped(d), NEW i \in 1..Len(d)
  PROVE  \A j \in 1..d[i].part : i - d[i].part + j \in 1..i
<1>1. d[i].part \in Nat \ {0} /\ d[i].part <= i
  BY FrameTypes DEF Grouped
<1>2. QED BY <1>1

(* A scan accepts the frames of a chained segment.                          *)
LEMMA ChainedFollows ==
  ASSUME NEW base \in Nat, NEW d \in Seq(Frame), Chained(d, base), NEW i \in 1..Len(d)
  PROVE  Follows(d, base, i)
<1>1. CASE i = 1
  BY <1>1 DEF Chained, Starts, Follows, FlagFirst, Frame
<1>2. CASE i # 1
  <2>1. i - 1 \in 1..Len(d) - 1 /\ (i - 1) + 1 = i
    BY <1>2
  <2>2. Linear(d) /\ i - 1 \in 1..Len(d)
    BY <1>2 DEF Chained
  <2>3. d[i-1].part \in Nat \ {0}
    BY <2>2, FrameTypes
  <2>4. CASE FlagLast(d[i-1])
    <3>1. d[i].seq = d[i-1].seq + 1 /\ d[i].part = 1
      BY <2>1, <2>2, <2>4 DEF Linear
    <3>2. QED BY <1>2, <2>4, <3>1 DEF Follows, FlagFirst
  <2>5. CASE ~FlagLast(d[i-1])
    <3>1. d[i].seq = d[i-1].seq /\ d[i].part = d[i-1].part + 1
      BY <2>1, <2>2, <2>5 DEF Linear
    <3>2. d[i].part # 1
      BY <2>3, <3>1
    <3>3. QED BY <1>2, <2>5, <3>1, <3>2 DEF Follows, FlagFirst
  <2>6. QED BY <2>4, <2>5
<1>3. QED BY <1>1, <1>2

(* Only seq, part and payload of the frames matter to Chained.              *)
LEMMA ChainedKinds ==
  ASSUME NEW base \in Nat, NEW d \in Seq(Frame), NEW e \in Seq(Frame),
         Len(e) = Len(d), Chained(d, base),
         \A i \in 1..Len(d) : /\ e[i].seq = d[i].seq /\ e[i].part = d[i].part
                              /\ e[i].payload = d[i].payload
  PROVE  Chained(e, base)
<1>1. Starts(e, base)
  BY DEF Chained, Starts
<1>2. Linear(e)
  <2>1. Linear(d) /\ Len(d) \in Nat
    BY DEF Chained
  <2>2. ASSUME NEW i \in 1..Len(d) - 1 PROVE i \in 1..Len(d) /\ i + 1 \in 1..Len(d)
    BY <2>1
  <2>3. ASSUME NEW i \in 1..Len(d) - 1
        PROVE  IF FlagLast(e[i])
               THEN e[i+1].seq = e[i].seq + 1 /\ e[i+1].part = 1
               ELSE /\ e[i+1].seq = e[i].seq /\ e[i+1].part = e[i].part + 1
                    /\ e[i+1].payload = e[i].payload
    <3>1. IF FlagLast(d[i])
          THEN d[i+1].seq = d[i].seq + 1 /\ d[i+1].part = 1
          ELSE /\ d[i+1].seq = d[i].seq /\ d[i+1].part = d[i].part + 1
               /\ d[i+1].payload = d[i].payload
      BY <2>1, <2>3 DEF Linear
    <3>2. /\ e[i].seq = d[i].seq /\ e[i].part = d[i].part /\ e[i].payload = d[i].payload
          /\ e[i+1].seq = d[i+1].seq /\ e[i+1].part = d[i+1].part
          /\ e[i+1].payload = d[i+1].payload
      BY <2>2, <2>3
    <3>3. QED BY <3>1, <3>2 DEF FlagLast
  <2>4. QED BY <2>3 DEF Linear
<1>3. Grouped(e)
  <2>1. SUFFICES ASSUME NEW i \in 1..Len(e)
                 PROVE  /\ e[i].part <= i /\ e[i].part <= Parts[e[i].payload]
                        /\ \A j \in 1..e[i].part :
                             LET f == e[i - e[i].part + j]
                             IN  f.seq = e[i].seq /\ f.payload = e[i].payload /\ f.part = j
    BY DEF Grouped
  <2>2. i \in 1..Len(d) /\ e[i].part = d[i].part /\ e[i].payload = d[i].payload /\ e[i].seq = d[i].seq
    OBVIOUS
  <2>3. \A j \in 1..d[i].part : i - d[i].part + j \in 1..Len(d)
    BY <2>2, GroupInside DEF Chained
  <2>4. d[i].part <= i /\ d[i].part <= Parts[d[i].payload]
    BY <2>2 DEF Chained, Grouped
  <2>5. ASSUME NEW j \in 1..d[i].part
        PROVE  LET f == e[i - d[i].part + j]
               IN  f.seq = d[i].seq /\ f.payload = d[i].payload /\ f.part = j
    <3> DEFINE h == i - d[i].part + j
    <3>1. h \in 1..Len(d)
      BY <2>3, <2>5
    <3>2. Grouped(d)
      BY DEF Chained
    <3>3. d[h].seq = d[i].seq /\ d[h].payload = d[i].payload /\ d[h].part = j
      BY <2>2, <2>5, <3>2 DEF Grouped
    <3> HIDE DEF h
    <3>4. e[h].seq = d[h].seq /\ e[h].payload = d[h].payload /\ e[h].part = d[h].part
      BY <3>1
    <3>5. QED BY <3>3, <3>4 DEF h
  <2>6. QED BY <2>2, <2>4, <2>5
<1>4. Ordered(e)
  BY DEF Chained, Ordered
<1>5. Closed(e)
  <2>1. SUFFICES ASSUME NEW i \in 1..Len(d), d[i].seq < d[Len(d)].seq
                 PROVE  LET k == i + Parts[d[i].payload] - d[i].part
                        IN  /\ k <= Len(d) /\ e[k].seq = d[i].seq
                            /\ e[k].payload = d[i].payload /\ FlagLast(e[k])
    BY DEF Closed
  <2> DEFINE k == i + Parts[d[i].payload] - d[i].part
  <2>2. d[i].part <= Parts[d[i].payload] /\ k <= Len(d) /\ d[k].seq = d[i].seq
        /\ d[k].payload = d[i].payload /\ FlagLast(d[k])
    <3>1. Grouped(d) /\ Closed(d)
      BY DEF Chained
    <3>2. d[i].part <= Parts[d[i].payload]
      BY <3>1 DEF Grouped
    <3>3. QED BY <2>1, <3>1, <3>2 DEF Closed
  <2>3. k \in 1..Len(d)
    BY <2>2, FrameTypes
  <2>4. QED BY <2>2, <2>3 DEF FlagLast
<1>6. QED BY <1>1, <1>2, <1>3, <1>4, <1>5 DEF Chained

(* A prefix of a chained segment is chained.                                *)
LEMMA ChainedPrefix ==
  ASSUME NEW base \in Nat, NEW d \in Seq(Frame), Chained(d, base), NEW k \in 0..Len(d)
  PROVE  /\ SubSeq(d, 1, k) \in Seq(Frame) /\ Len(SubSeq(d, 1, k)) = k
         /\ \A i \in 1..k : SubSeq(d, 1, k)[i] = d[i]
         /\ Chained(SubSeq(d, 1, k), base)
<1> DEFINE e == SubSeq(d, 1, k)
<1>1. e \in Seq(Frame) /\ Len(e) = k /\ \A i \in 1..k : e[i] = d[i]
  OBVIOUS
<1> HIDE DEF e
<1>2. Starts(e, base)
  BY <1>1 DEF Chained, Starts
<1>3. Linear(e)
  BY <1>1 DEF Chained, Linear
<1>4. Grouped(e)
  <2>1. SUFFICES ASSUME NEW i \in 1..k
                 PROVE  /\ e[i].part <= i /\ e[i].part <= Parts[e[i].payload]
                        /\ \A j \in 1..e[i].part :
                             LET f == e[i - e[i].part + j]
                             IN  f.seq = e[i].seq /\ f.payload = e[i].payload /\ f.part = j
    BY <1>1 DEF Grouped
  <2>2. i \in 1..Len(d) /\ e[i] = d[i]
    BY <1>1
  <2>3. \A j \in 1..d[i].part : i - d[i].part + j \in 1..k
    BY <2>2, GroupInside DEF Chained
  <2>4. d[i].part <= i /\ d[i].part <= Parts[d[i].payload]
    BY <2>2 DEF Chained, Grouped
  <2>5. ASSUME NEW j \in 1..d[i].part
        PROVE  LET f == e[i - d[i].part + j]
               IN  f.seq = d[i].seq /\ f.payload = d[i].payload /\ f.part = j
    <3>1. Grouped(d)
      BY DEF Chained
    <3>2. LET f == d[i - d[i].part + j]
          IN  f.seq = d[i].seq /\ f.payload = d[i].payload /\ f.part = j
      BY <2>2, <2>5, <3>1 DEF Grouped
    <3>3. e[i - d[i].part + j] = d[i - d[i].part + j]
      BY <1>1, <2>3, <2>5
    <3>4. QED BY <3>2, <3>3
  <2>6. QED BY <2>2, <2>4, <2>5
<1>5. Ordered(e)
  <2>1. Ordered(d)
    BY DEF Chained
  <2>2. ASSUME NEW j \in 1..k, NEW i \in 1..j
        PROVE  /\ i \in 1..k /\ i \in 1..j /\ j \in 1..Len(d)
    BY <1>1
  <2>3. ASSUME NEW j \in 1..k, NEW i \in 1..j
        PROVE  /\ e[i].seq <= e[j].seq
               /\ e[i].seq = e[j].seq => j - i = e[j].part - e[i].part
    <3>1. e[i] = d[i] /\ e[j] = d[j]
      BY <1>1, <2>2, <2>3
    <3>2. /\ d[i].seq <= d[j].seq
          /\ d[i].seq = d[j].seq => j - i = d[j].part - d[i].part
      BY <2>1, <2>2, <2>3 DEF Ordered
    <3>3. QED BY <3>1, <3>2
  <2>4. QED BY <1>1, <2>3 DEF Ordered
<1>6. Closed(e)
  <2>1. SUFFICES ASSUME NEW i \in 1..k, d[i].seq < d[k].seq
                 PROVE  LET m == i + Parts[d[i].payload] - d[i].part
                        IN  /\ m <= k /\ e[m].seq = d[i].seq
                            /\ e[m].payload = d[i].payload /\ FlagLast(e[m])
    BY <1>1 DEF Closed
  <2> DEFINE m == i + Parts[d[i].payload] - d[i].part
  <2>2. i \in 1..Len(d) /\ k \in 1..Len(d) /\ Len(d) \in 1..Len(d)
    BY <2>1
  <2>3. d[k].seq <= d[Len(d)].seq
    <3>1. Ordered(d)
      BY DEF Chained
    <3>2. QED BY <2>2, <3>1 DEF Ordered
  <2>4. /\ d[i].seq \in Nat /\ d[k].seq \in Nat /\ d[Len(d)].seq \in Nat
        /\ d[i].part \in Nat /\ Parts[d[i].payload] \in Nat
    BY <2>2, FrameTypes
  <2>5. Grouped(d) /\ Closed(d)
    BY DEF Chained
  <2>6. d[i].seq < d[Len(d)].seq /\ d[i].part <= Parts[d[i].payload]
    <3>1. d[i].seq < d[Len(d)].seq
      BY <2>1, <2>3, <2>4
    <3>2. d[i].part <= Parts[d[i].payload]
      BY <2>2, <2>5 DEF Grouped
    <3>3. QED BY <3>1, <3>2
  <2>7. m <= Len(d) /\ d[m].seq = d[i].seq /\ d[m].payload = d[i].payload /\ FlagLast(d[m])
    BY <2>2, <2>6, <2>5 DEF Closed
  <2>8. m \in i..Len(d)
    <3> DEFINE a == d[i].part
               b == Parts[d[i].payload]
    <3>1. a \in Nat /\ b \in Nat /\ a <= b /\ m = i + b - a /\ m <= Len(d)
          /\ i \in Nat /\ Len(d) \in Nat
      BY <2>2, <2>6, <2>7, <2>4
    <3> HIDE DEF a, b, m
    <3>2. QED BY <3>1
  <2>9. m <= k
    <3>1. SUFFICES ASSUME k < m PROVE FALSE
      BY <2>8
    <3>2. Ordered(d) /\ m \in 1..Len(d) /\ k \in 1..m
      BY <2>2, <2>8, <3>1 DEF Chained
    <3>3. d[k].seq <= d[m].seq
      BY <3>2 DEF Ordered
    <3>4. QED BY <2>1, <2>4, <2>7, <3>3
  <2>10. QED BY <2>7, <2>8, <2>9, <1>1
<1>7. QED BY <1>1, <1>2, <1>3, <1>4, <1>5, <1>6 DEF Chained, e

(* The next record keeps a complete segment chained.                        *)
LEMMA FragmentsShape ==
  ASSUME NEW seq \in Nat \ {0}, NEW p \in Payloads
  PROVE  /\ Fragments(seq, p) \in Seq(Frame) /\ Len(Fragments(seq, p)) = Parts[p]
         /\ Parts[p] \in Nat \ {0}
         /\ \A k \in 1..Parts[p] :
              Fragments(seq, p)[k] = [seq |-> seq, part |-> k, payload |-> p, kind |-> "ok"]
<1>1. Parts[p] \in Nat \ {0}
  BY PartsAssumption
<1>2. \A k \in 1..Parts[p] :
        [seq |-> seq, part |-> k, payload |-> p, kind |-> "ok"] \in Frame
  BY <1>1 DEF Frame
<1>3. QED BY <1>1, <1>2 DEF Fragments

\* A segment that is not empty ends with the greatest of its sequences.
LEMMA LastFrame ==
  ASSUME NEW base \in Nat, NEW d \in Seq(Frame), Chained(d, base), NEW i \in 1..Len(d)
  PROVE  /\ LastSeqOf(d, base) = d[Len(d)].seq
         /\ base < d[i].seq /\ d[i].seq <= LastSeqOf(d, base)
<1>1. d # <<>> /\ Len(d) \in 1..Len(d) /\ 1 \in 1..Len(d)
  OBVIOUS
<1>2. d[1].seq = base + 1
  BY <1>1 DEF Chained, Starts
<1>3. d[1].seq <= d[i].seq /\ d[i].seq <= d[Len(d)].seq
  BY <1>1 DEF Chained, Ordered
<1>4. QED BY <1>1, <1>2, <1>3, FrameTypes DEF LastSeqOf

\* A chained segment ends at its base or behind it.
LEMMA LastSeqType ==
  ASSUME NEW base \in Nat, NEW d \in Seq(Frame), Chained(d, base)
  PROVE  LastSeqOf(d, base) \in Nat /\ base <= LastSeqOf(d, base)
<1>1. CASE d = <<>>
  BY <1>1 DEF LastSeqOf
<1>2. CASE d # <<>>
  <2>1. 1 \in 1..Len(d) /\ Len(d) \in 1..Len(d)
    BY <1>2
  <2>2. QED BY <2>1, LastFrame, FrameTypes
<1>3. QED BY <1>1, <1>2

\* In a complete segment the record of every frame ends.
LEMMA EveryRecordEnds ==
  ASSUME NEW base \in Nat, NEW d \in Seq(Frame), Chained(d, base), Complete(d, Len(d)),
         NEW i \in 1..Len(d)
  PROVE  LET e == i + Parts[d[i].payload] - d[i].part
         IN  e \in i..Len(d) /\ d[e].seq = d[i].seq /\ d[e].payload = d[i].payload
             /\ d[e].part = Parts[d[i].payload]
<1> DEFINE e == i + Parts[d[i].payload] - d[i].part
           n == Len(d)
<1>1. n \in 1..Len(d) /\ n > 0
  OBVIOUS
<1>2. d[i].part <= Parts[d[i].payload] /\ d[i].seq <= d[n].seq
  BY <1>1 DEF Chained, Grouped, Ordered
<1> d[i].part \in Nat \ {0} /\ d[n].part \in Nat \ {0} /\ Parts[d[i].payload] \in Nat
    /\ d[i].seq \in Nat /\ d[n].seq \in Nat /\ i \in Nat /\ n \in Nat /\ i <= n
  BY <1>1, FrameTypes
<1>3. CASE d[i].seq < d[n].seq
  <2>1. e <= n /\ d[e].seq = d[i].seq /\ d[e].payload = d[i].payload /\ FlagLast(d[e])
    <3>1. Closed(d)
      BY DEF Chained
    <3>2. QED BY <1>3, <3>1 DEF Closed
  <2>2. e \in i..Len(d)
    BY <1>2, <2>1
  <2>3. d[e].part = Parts[d[i].payload]
    BY <2>1, Zenon DEF FlagLast
  <2>4. QED BY <2>1, <2>2, <2>3
<1>4. CASE d[i].seq = d[n].seq
  <2>1. n - i = d[n].part - d[i].part
    <3>1. Ordered(d) /\ i \in 1..n
      BY <1>1 DEF Chained
    <3>2. QED BY <1>1, <1>4, <3>1 DEF Ordered
  <2>2. FlagLast(d[n])
    BY <1>1 DEF Complete
  <2>3. d[i].part \in 1..d[n].part /\ i = n - d[n].part + d[i].part
    <3> DEFINE a == d[i].part
               b == d[n].part
    <3>1. a \in Nat \ {0} /\ b \in Nat /\ n - i = b - a
      BY <2>1
    <3> HIDE DEF a, b, n
    <3>2. a \in 1..b /\ i = n - b + a
      BY <3>1
    <3>3. QED BY <3>2 DEF a, b
  <2>4. d[i].payload = d[n].payload
    <3>1. Grouped(d)
      BY DEF Chained
    <3>2. \A j \in 1..d[n].part : d[n - d[n].part + j].payload = d[n].payload
      BY <1>1, <3>1 DEF Grouped
    <3>3. d[n - d[n].part + d[i].part].payload = d[n].payload
      BY <2>3, <3>2
    <3>4. QED BY <2>3, <3>3
  <2>5. d[n].part = Parts[d[i].payload] /\ e = n
    <3>1. d[n].part = Parts[d[i].payload]
      BY <2>2, <2>4 DEF FlagLast
    <3>2. QED BY <2>1, <3>1
  <2>6. e \in i..Len(d)
    BY <1>1, <2>5
  <2>7. QED BY <1>4, <2>4, <2>5, <2>6
<1>5. d[i].seq < d[n].seq \/ d[i].seq = d[n].seq
  BY <1>2
<1>6. QED BY <1>3, <1>4, <1>5

\* A complete segment stays chained and complete when the fragments of the next
\* record join it (append).
LEMMA ChainedAppend ==
  ASSUME NEW base \in Nat, NEW d \in Seq(Frame), Chained(d, base), Complete(d, Len(d)),
         NEW p \in Payloads
  PROVE  LET seq == LastSeqOf(d, base) + 1
             e   == d \o Fragments(seq, p)
         IN  /\ e \in Seq(Frame) /\ Len(e) = Len(d) + Parts[p]
             /\ \A i \in 1..Len(d) : e[i] = d[i]
             /\ \A k \in 1..Parts[p] : e[Len(d) + k] = Fragments(seq, p)[k]
             /\ Chained(e, base) /\ Complete(e, Len(e)) /\ LastSeqOf(e, base) = seq
<1> DEFINE seq == LastSeqOf(d, base) + 1
           g == Fragments(seq, p)
           e == d \o g
           n == Len(d)
           m == Parts[p]
<1>1. seq \in Nat \ {0} /\ base < seq
  BY LastSeqType
<1> HIDE DEF seq
<1>2. g \in Seq(Frame) /\ Len(g) = m /\ m \in Nat \ {0}
      /\ \A k \in 1..m : g[k] = [seq |-> seq, part |-> k, payload |-> p, kind |-> "ok"]
  BY <1>1, FragmentsShape
<1> HIDE DEF g
<1>3. e \in Seq(Frame) /\ Len(e) = n + m
      /\ (\A i \in 1..n : e[i] = d[i]) /\ (\A k \in 1..m : e[n + k] = g[k])
  BY <1>2
<1> HIDE DEF e
<1>4. \A i \in n+1..n+m : e[i].seq = seq /\ e[i].part = i - n /\ e[i].payload = p
  <2>1. ASSUME NEW i \in n+1..n+m PROVE e[i].seq = seq /\ e[i].part = i - n /\ e[i].payload = p
    <3>1. i - n \in 1..m /\ n + (i - n) = i
      BY <1>2
    <3>2. e[n + (i - n)] = [seq |-> seq, part |-> i - n, payload |-> p, kind |-> "ok"]
      BY <3>1, <1>2, <1>3
    <3>3. QED BY <3>1, <3>2
  <2>2. QED BY <2>1
<1>5. \A i \in 1..n : e[i] = d[i] /\ d[i].seq < seq
  <2>1. SUFFICES ASSUME NEW i \in 1..n PROVE e[i] = d[i] /\ d[i].seq < seq
    OBVIOUS
  <2>2. d[i].seq \in Nat /\ d[i].seq <= LastSeqOf(d, base)
    BY FrameTypes, LastFrame
  <2>3. LastSeqOf(d, base) \in Nat
    BY LastSeqType
  <2>4. QED BY <1>3, <2>2, <2>3 DEF seq
<1>6. Starts(e, base)
  <2>1. CASE n = 0
    BY <2>1, <1>2, <1>3, <1>4 DEF Starts, LastSeqOf, seq
  <2>2. CASE n > 0
    BY <2>2, <1>3 DEF Starts, Chained
  <2>3. QED BY <2>1, <2>2
<1>7. Linear(e)
  <2>1. SUFFICES ASSUME NEW i \in 1..n + m - 1
                 PROVE  IF FlagLast(e[i])
                        THEN e[i+1].seq = e[i].seq + 1 /\ e[i+1].part = 1
                        ELSE /\ e[i+1].seq = e[i].seq /\ e[i+1].part = e[i].part + 1
                             /\ e[i+1].payload = e[i].payload
    BY <1>2, <1>3 DEF Linear
  <2>2. CASE i < n
    BY <2>2, <1>3 DEF Chained, Linear
  <2>3. CASE i = n
    <3>1. FlagLast(e[i]) /\ e[i].seq = LastSeqOf(d, base)
      BY <2>3, <1>3, LastFrame DEF Complete
    <3>2. e[i+1].seq = seq /\ e[i+1].part = 1
      BY <2>3, <1>2, <1>4
    <3>3. QED BY <3>1, <3>2 DEF seq
  <2>4. CASE i > n
    <3>1. i \in n+1..n+m /\ i + 1 \in n+1..n+m /\ i - n # m
      BY <2>4, <1>2
    <3>2. ~FlagLast(e[i])
      BY <3>1, <1>4, <1>2 DEF FlagLast
    <3>3. QED BY <3>1, <3>2, <1>4, <1>2
  <2>5. QED BY <2>2, <2>3, <2>4
<1>8. Grouped(e)
  <2>1. SUFFICES ASSUME NEW i \in 1..n + m
                 PROVE  /\ e[i].part <= i /\ e[i].part <= Parts[e[i].payload]
                        /\ \A j \in 1..e[i].part :
                             LET f == e[i - e[i].part + j]
                             IN  f.seq = e[i].seq /\ f.payload = e[i].payload /\ f.part = j
    BY <1>3 DEF Grouped
  <2>2. CASE i \in 1..n
    <3>1. \A j \in 1..d[i].part : i - d[i].part + j \in 1..n
      BY <2>2, GroupInside DEF Chained
    <3>2. e[i] = d[i] /\ \A j \in 1..d[i].part : e[i - d[i].part + j] = d[i - d[i].part + j]
      BY <2>2, <3>1, <1>3
    <3>3. Grouped(d)
      BY DEF Chained
    <3>4. QED BY <2>2, <3>2, <3>3 DEF Grouped
  <2>3. CASE i \in n+1..n+m
    <3>1. e[i].seq = seq /\ e[i].part = i - n /\ e[i].payload = p
      BY <2>3, <1>4
    <3>2. \A j \in 1..i - n : n + j \in n+1..n+m
      BY <2>3, <1>2
    <3>3. i - (i - n) = n
      BY <2>3, <1>2
    <3>4. \A j \in 1..i - n : i - (i - n) + j = n + j /\ (n + j) - n = j
      BY <2>3, <1>2
    <3>5. QED BY <2>3, <3>1, <3>2, <3>4, <1>4, <1>2
  <2>4. QED BY <2>2, <2>3, <1>2
<1>9. Ordered(e)
  <2>1. SUFFICES ASSUME NEW j \in 1..n + m, NEW i \in 1..j
                 PROVE  /\ e[i].seq <= e[j].seq
                        /\ e[i].seq = e[j].seq => j - i = e[j].part - e[i].part
    BY <1>3 DEF Ordered
  <2>2. CASE j \in 1..n
    <3>1. i \in 1..n /\ e[i] = d[i] /\ e[j] = d[j]
      BY <2>2, <1>5
    <3>2. QED BY <2>2, <3>1 DEF Chained, Ordered
  <2>3. CASE j \in n+1..n+m /\ i \in 1..n
    <3>1. e[j].seq = seq /\ e[i].seq < seq
      BY <2>3, <1>4, <1>5
    <3>2. e[i].seq \in Nat
      BY <2>3, <1>5, FrameTypes
    <3>3. QED BY <3>1, <3>2, <1>1
  <2>4. CASE j \in n+1..n+m /\ i \in n+1..n+m
    BY <2>4, <1>4, <1>1, <1>2
  <2>5. QED BY <2>2, <2>3, <2>4, <1>2
<1>10. Closed(e)
  <2>1. SUFFICES ASSUME NEW i \in 1..n + m, e[i].seq < e[n + m].seq
                 PROVE  LET k == i + Parts[e[i].payload] - e[i].part
                        IN  k <= n + m /\ e[k].seq = e[i].seq /\ e[k].payload = e[i].payload
                            /\ FlagLast(e[k])
    BY <1>3 DEF Closed
  <2>2. n + m \in n+1..n+m
    BY <1>2
  <2>3. i \in 1..n
    <3>1. e[n + m].seq = seq /\ seq \in Nat
      BY <2>2, <1>4, <1>1
    <3>2. i \notin n+1..n+m
      BY <3>1, <2>1, <1>4
    <3>3. QED BY <3>2, <1>2
  <2> DEFINE k == i + Parts[d[i].payload] - d[i].part
  <2>4. k \in i..n /\ d[k].seq = d[i].seq /\ d[k].payload = d[i].payload
        /\ d[k].part = Parts[d[i].payload]
    BY <2>3, EveryRecordEnds
  <2>5. k \in 1..n /\ e[i] = d[i] /\ e[k] = d[k]
    BY <2>3, <2>4, <1>5
  <2>6. FlagLast(e[k])
    BY <2>4, <2>5 DEF FlagLast
  <2>7. QED BY <2>4, <2>5, <2>6, <1>2
<1>11. Complete(e, Len(e)) /\ LastSeqOf(e, base) = seq
  <2>1. n + m \in n+1..n+m /\ (n + m) - n = m
    BY <1>2
  <2>2. e[n + m].seq = seq /\ e[n + m].part = m /\ e[n + m].payload = p
    BY <2>1, <1>4
  <2>3. e # <<>>
    BY <1>2, <1>3
  <2>4. QED BY <2>2, <2>3, <1>3 DEF Complete, FlagLast, LastSeqOf
<1>12. QED BY <1>3, <1>6, <1>7, <1>8, <1>9, <1>10, <1>11 DEF Chained, e, g, seq

(* A shorter segment with the same records, whatever became of its kinds.   *)
LEMMA ChainedCut ==
  ASSUME NEW base \in Nat, NEW d \in Seq(Frame), Chained(d, base),
         NEW e \in Seq(Frame), Len(e) <= Len(d),
         \A i \in 1..Len(e) : /\ e[i].seq = d[i].seq /\ e[i].part = d[i].part
                              /\ e[i].payload = d[i].payload
  PROVE  Chained(e, base)
<1> DEFINE c == SubSeq(d, 1, Len(e))
<1>1. Len(e) \in 0..Len(d)
  OBVIOUS
<1>2. /\ c \in Seq(Frame) /\ Len(c) = Len(e) /\ Chained(c, base)
      /\ \A i \in 1..Len(e) : c[i] = d[i]
  BY <1>1, ChainedPrefix
<1> HIDE DEF c
<1>3. QED BY <1>2, ChainedKinds

-------------------------------------------------------------------------------
(* A record stays where it lies while its segment grows.                    *)
LEMMA LiesAtExtends ==
  ASSUME NEW d \in Seq(Frame), NEW e \in Seq(Frame), Len(d) <= Len(e),
         \A i \in 1..Len(d) : e[i] = d[i],
         NEW seq \in Nat, NEW loc \in Location, LiesAt(d, seq, loc)
  PROVE  LiesAt(e, seq, loc)
<1>1. loc.off \in Nat /\ loc.n \in Nat \ {0} /\ loc.off + loc.n <= Len(d)
  BY DEF Location, LiesAt
<1>2. loc.off + 1 \in 1..Len(d) /\ loc.off + loc.n \in 1..Len(d)
  BY <1>1
<1>3. e[loc.off + 1] = d[loc.off + 1] /\ e[loc.off + loc.n] = d[loc.off + loc.n]
  BY <1>2
<1>4. QED BY <1>1, <1>3 DEF LiesAt

(* The record of every frame of a complete segment has a location.          *)
LEMMA RecordLies ==
  ASSUME NEW base \in Nat, NEW d \in Seq(Frame), Chained(d, base), Complete(d, Len(d)),
         NEW i \in 1..Len(d), NEW seg
  PROVE  \E off \in 0..Len(d), n \in 1..Len(d) :
           LiesAt(d, d[i].seq, [seg |-> seg, off |-> off, n |-> n])
<1> DEFINE off == i - d[i].part
           n == Parts[d[i].payload]
<1>1. d[i].part \in Nat \ {0} /\ n \in Nat \ {0} /\ i \in Nat /\ Len(d) \in Nat
      /\ d[i].part <= i /\ d[i].part <= n
  <2>1. Grouped(d)
    BY DEF Chained
  <2>2. d[i].part <= i /\ d[i].part <= n
    BY <2>1 DEF Grouped
  <2>3. QED BY <2>2, FrameTypes
<1>2. off + n \in i..Len(d) /\ d[off + n].seq = d[i].seq /\ d[off + n].payload = d[i].payload
      /\ d[off + n].part = n
  <2>1. i + n - d[i].part = off + n
    BY <1>1
  <2> DEFINE e == i + n - d[i].part
  <2>2. e \in i..Len(d) /\ d[e].seq = d[i].seq /\ d[e].payload = d[i].payload /\ d[e].part = n
    BY EveryRecordEnds
  <2> HIDE DEF n, off
  <2>3. QED BY <2>1, <2>2
<1>3. d[off + 1].seq = d[i].seq /\ d[off + 1].part = 1
  <2>1. Grouped(d) /\ 1 \in 1..d[i].part
    BY <1>1 DEF Chained
  <2>2. QED BY <2>1 DEF Grouped
<1>4. off \in 0..Len(d) /\ n \in 1..Len(d)
  <2>1. off \in Nat /\ off < i /\ i <= Len(d)
    BY <1>1
  <2>2. off + n <= Len(d)
    BY <1>2
  <2> HIDE DEF off, n
  <2>3. QED BY <1>1, <2>1, <2>2
<1> DEFINE loc == [seg |-> seg, off |-> off, n |-> n]
<1>5. loc.off = off /\ loc.n = n
  OBVIOUS
<1>6. off + n <= Len(d) /\ FlagLast(d[off + n])
  BY <1>2 DEF FlagLast
<1> HIDE DEF off, n, loc
<1>7. LiesAt(d, d[i].seq, loc)
  BY <1>2, <1>3, <1>5, <1>6 DEF LiesAt, FlagFirst
<1>8. QED BY <1>4, <1>7 DEF loc

(* A segment that is torn at its end only is never refused.                 *)
LEMMA TornIsNotRefused ==
  ASSUME NEW base \in Nat, NEW d \in Seq(Frame), Chained(d, base), TornEnd(d)
  PROVE  ~ScanRefuses(d, base)
<1>1. SUFFICES ASSUME NEW e \in 1..Len(d), ~Accepts(d, base, e),
                      d[e].kind = "torn" => e < Len(d)
               PROVE  FALSE
  BY DEF ScanRefuses
<1>2. Follows(d, base, e)
  BY ChainedFollows
<1>3. QED BY <1>1, <1>2 DEF TornEnd, Accepts

(* A complete segment without a torn frame is intact.                       *)
LEMMA StoredIsIntact ==
  ASSUME NEW base \in Nat, NEW d \in Seq(Frame), Chained(d, base), AllOk(d),
         Complete(d, Len(d))
  PROVE  Intact(d, base)
BY ChainedFollows DEF Intact, Accepts, AllOk

-------------------------------------------------------------------------------
(* What a write that stops half-way, or a loss of power, leaves of the      *)
(* frames d: the first k of them, or those and a torn one.                  *)
CutTo(d, k)  == SubSeq(d, 1, k)
TornAt(d, k) == Append(SubSeq(d, 1, k), [d[k+1] EXCEPT !.kind = "torn"])

\* e is such a rest of d.
RestOf(e, d) ==
  /\ e \in Seq(Frame) /\ Len(e) <= Len(d) /\ TornEnd(e)
  /\ \A i \in 1..Len(e) : /\ e[i].seq = d[i].seq /\ e[i].part = d[i].part
                          /\ e[i].payload = d[i].payload

\* What is left of a chained segment is chained.
LEMMA RestChained ==
  ASSUME NEW base \in Nat, NEW d \in Seq(Frame), Chained(d, base), NEW e, RestOf(e, d)
  PROVE  Chained(e, base)
BY ChainedCut DEF RestOf

\* The first frames of a segment are such a rest.
LEMMA CutToRest ==
  ASSUME NEW d \in Seq(Frame), TornEnd(d), NEW k \in 0..Len(d)
  PROVE  RestOf(CutTo(d, k), d) /\ Len(CutTo(d, k)) = k /\ \A i \in 1..k : CutTo(d, k)[i] = d[i]
<1> DEFINE e == SubSeq(d, 1, k)
<1>1. e \in Seq(Frame) /\ Len(e) = k /\ \A i \in 1..k : e[i] = d[i]
  OBVIOUS
<1>2. CutTo(d, k) = e
  BY DEF CutTo
<1> HIDE DEF e
<1>3. TornEnd(e)
  BY <1>1 DEF TornEnd
<1>4. QED BY <1>1, <1>2, <1>3 DEF RestOf

\* So are they with a torn frame behind them.
LEMMA TornAtRest ==
  ASSUME NEW d \in Seq(Frame), TornEnd(d), NEW k \in 0..Len(d) - 1
  PROVE  /\ RestOf(TornAt(d, k), d) /\ Len(TornAt(d, k)) = k + 1
         /\ \A i \in 1..k : TornAt(d, k)[i] = d[i]
<1> DEFINE c == SubSeq(d, 1, k)
           f == [d[k+1] EXCEPT !.kind = "torn"]
           e == Append(c, f)
<1>1. c \in Seq(Frame) /\ Len(c) = k /\ \A i \in 1..k : c[i] = d[i]
  OBVIOUS
<1> HIDE DEF c
<1>2. d[k+1] \in Frame
  OBVIOUS
<1>3. /\ f \in Frame /\ f.kind = "torn" /\ f.seq = d[k+1].seq /\ f.part = d[k+1].part
      /\ f.payload = d[k+1].payload
  BY <1>2 DEF Frame
<1> HIDE DEF f
<1>4. /\ e \in Seq(Frame) /\ Len(e) = k + 1 /\ e[k+1] = f
      /\ \A i \in 1..k : e[i] = d[i]
  BY <1>1, <1>3
<1>5. TornAt(d, k) = e
  BY DEF TornAt, c, f
<1> HIDE DEF e
<1>6. \A i \in 1..k+1 : i \in 1..k \/ i = k + 1
  OBVIOUS
<1>7. TornEnd(e)
  BY <1>3, <1>4, <1>6 DEF TornEnd
<1>8. \A i \in 1..Len(e) : /\ e[i].seq = d[i].seq /\ e[i].part = d[i].part
                           /\ e[i].payload = d[i].payload
  BY <1>3, <1>4, <1>6
<1>9. QED BY <1>4, <1>5, <1>7, <1>8 DEF RestOf

\* A write that stops after k frames of the buffer p, or in the middle of the next.
LEMMA PartialWrite ==
  ASSUME NEW d \in Seq(Frame), NEW p \in Seq(Frame), NEW k \in 0..Len(p)
  PROVE  /\ d \o SubSeq(p, 1, k) \o <<>> = CutTo(d \o p, Len(d) + k)
         /\ k < Len(p) => d \o SubSeq(p, 1, k) \o <<[p[k+1] EXCEPT !.kind = "torn"]>>
                            = TornAt(d \o p, Len(d) + k)
<1> DEFINE b == d \o p
           n == Len(d)
           c == SubSeq(p, 1, k)
           e == d \o c
<1>1. /\ b \in Seq(Frame) /\ Len(b) = n + Len(p)
      /\ \A i \in 1..n : b[i] = d[i]
      /\ \A i \in 1..Len(p) : b[n + i] = p[i]
  OBVIOUS
<1>2. c \in Seq(Frame) /\ Len(c) = k /\ \A i \in 1..k : c[i] = p[i]
  OBVIOUS
<1>3. n \in Nat
  OBVIOUS
<1> HIDE DEF b, c
<1>4. /\ e \in Seq(Frame) /\ Len(e) = n + k
      /\ \A i \in 1..n : e[i] = d[i]
      /\ \A i \in 1..k : e[n + i] = c[i]
  <2>1. c \in Seq(Frame) /\ Len(c) = k
    BY <1>2
  <2>2. QED BY <2>1
<1> HIDE DEF e
<1>5. ASSUME NEW i \in 1..n + k PROVE e[i] = b[i]
  <2>1. CASE i \in 1..n
    BY <2>1, <1>1, <1>4
  <2>2. CASE i \notin 1..n
    <3>1. i - n \in 1..k /\ i - n \in 1..Len(p) /\ n + (i - n) = i
      BY <1>3, <2>2
    <3>2. e[n + (i - n)] = p[i - n] /\ b[n + (i - n)] = p[i - n]
      BY <3>1, <1>1, <1>2, <1>4
    <3>3. QED BY <3>1, <3>2
  <2>3. QED BY <2>1, <2>2
<1>6. SubSeq(b, 1, n + k) \in Seq(Frame) /\ Len(SubSeq(b, 1, n + k)) = n + k
      /\ \A i \in 1..n + k : SubSeq(b, 1, n + k)[i] = b[i]
  BY <1>1
<1>7. e = SubSeq(b, 1, n + k)
  <2> DEFINE q == SubSeq(b, 1, n + k)
  <2>1. q \in Seq(Frame) /\ Len(q) = Len(e) /\ \A i \in 1..Len(e) : e[i] = q[i]
    BY <1>4, <1>5, <1>6
  <2> HIDE DEF q
  <2>2. e = q
    BY <1>4, <2>1, SeqEqual
  <2>3. QED BY <2>2 DEF q
<1>8. e \o <<>> = e
  BY <1>4
<1>9. ASSUME k < Len(p)
      PROVE  e \o <<[p[k+1] EXCEPT !.kind = "torn"]>> = TornAt(b, n + k)
  <2>1. b[n + k + 1] = p[k + 1] /\ p[k + 1] \in Frame
    <3>1. k + 1 \in 1..Len(p) /\ n + (k + 1) = n + k + 1
      BY <1>9
    <3>2. QED BY <3>1, <1>1
  <2> DEFINE f == [p[k+1] EXCEPT !.kind = "torn"]
  <2>2. f \in Frame
    BY <2>1 DEF Frame
  <2>3. TornAt(b, n + k) = Append(e, f)
    BY <1>7, <2>1 DEF TornAt
  <2> HIDE DEF f
  <2>4. e \o <<f>> = Append(e, f)
    BY <1>4, <2>2, AppendIsConcat
  <2>5. QED BY <2>3, <2>4 DEF f
<1>10. QED BY <1>7, <1>8, <1>9 DEF CutTo, b, c, e

-------------------------------------------------------------------------------
(* The index that a scan builds: every record has an entry, which tells     *)
(* where it lies.                                                           *)
LEMMA IndexOfFiles ==
  ASSUME NEW files,
         \A s \in DOMAIN files : /\ s \in Nat \ {0} /\ files[s] \in Seq(Frame)
                                 /\ Chained(files[s], s - 1)
                                 /\ Complete(files[s], Len(files[s])),
         NEW q \in DOMAIN IndexOf(files)
  PROVE  LET loc == IndexOf(files)[q]
         IN  /\ loc \in Location /\ loc.seg \in DOMAIN files /\ loc.seg <= q
             /\ LiesAt(files[loc.seg], q, loc)
             /\ \E s \in DOMAIN files : \E i \in 1..Len(files[s]) : q = files[s][i].seq
<1> DEFINE loc == IndexOf(files)[q]
<1>1. PICK s \in DOMAIN files : q \in {files[s][i].seq : i \in 1..Len(files[s])}
  BY DEF IndexOf
<1>2. PICK i \in 1..Len(files[s]) : q = files[s][i].seq
  BY <1>1
<1>3. \A t \in DOMAIN files : Len(files[t]) \in Nat
  OBVIOUS
<1>4. \E l \in Places(files) : LiesAt(files[l.seg], q, l)
  <2> DEFINE d == files[s]
  <2>1. d \in Seq(Frame) /\ s - 1 \in Nat /\ Chained(d, s - 1) /\ Complete(d, Len(d))
    OBVIOUS
  <2>2. PICK off \in 0..Len(d), n \in 1..Len(d) :
          LiesAt(d, d[i].seq, [seg |-> s, off |-> off, n |-> n])
    BY <1>2, <2>1, RecordLies
  <2> DEFINE l == [seg |-> s, off |-> off, n |-> n]
  <2>3. off \in Offsets(files) /\ n \in Offsets(files) \ {0}
    BY <1>3, <2>2 DEF Offsets
  <2>4. l \in Places(files) /\ l.seg = s
    BY <2>3 DEF Places
  <2>5. LiesAt(files[l.seg], q, l)
    BY <1>2, <2>2, <2>4
  <2>6. QED BY <2>4, <2>5
<1>5. loc \in Places(files) /\ LiesAt(files[loc.seg], q, loc)
  BY <1>4 DEF IndexOf
<1> HIDE DEF loc
<1>6. /\ loc.seg \in DOMAIN files /\ loc.off \in Nat /\ loc.n \in Nat \ {0}
      /\ loc = [seg |-> loc.seg, off |-> loc.off, n |-> loc.n]
  BY <1>3, <1>5 DEF Places, Offsets
<1>7. loc.seg <= q
  <2> DEFINE d == files[loc.seg]
  <2>1. d \in Seq(Frame) /\ loc.seg - 1 \in Nat /\ Chained(d, loc.seg - 1) /\ loc.seg \in Nat
    BY <1>6
  <2>2. loc.off + 1 \in 1..Len(d) /\ d[loc.off + 1].seq = q
    BY <1>5, <1>6, <2>1 DEF LiesAt
  <2>3. loc.seg - 1 < q /\ q \in Nat
    BY <2>1, <2>2, LastFrame, FrameTypes
  <2>4. QED BY <2>1, <2>3
<1>8. loc \in Location
  BY <1>6 DEF Location
<1>9. QED BY <1>2, <1>5, <1>6, <1>7, <1>8 DEF loc

-------------------------------------------------------------------------------
(* The least element of a set of numbers: what holds of the first frame, or *)
(* segment, and of the next one wherever it holds, holds of all.            *)
LEMMA Least ==
  ASSUME NEW T, T \subseteq Nat, T # {}
  PROVE  \E x \in T : \A y \in T : x <= y
<1> DEFINE R == {ss \in Nat \X Nat : ss[1] < ss[2]}
<1>1. IsWellFoundedOn(R, Nat)
  BY NatLessThanWellFounded DEF OpToRel
<1> HIDE DEF R
<1>2. PICK x \in T : \A y \in T : <<y, x>> \notin R
  BY <1>1, WFMin
<1>3. \A y \in T : ~(y < x)
  BY <1>2 DEF R
<1>4. QED BY <1>3

-------------------------------------------------------------------------------
(* The loops of the scan: a recursive function exists, and its values are   *)
(* what its definition says.                                                *)

\* The run of the loop over a segment.
LEMMA ScannedRuns ==
  ASSUME NEW st, NEW d \in Seq(Frame), NEW s, NEW newest, NEW eof
  PROVE  LET f == Scanned(st, d, s, newest, eof)
         IN  /\ f[0] = [st EXCEPT !.keep = Len(d)]
             /\ \A i \in 1..Len(d) : f[i] = ScanFrame(f[i-1], d, s, i, newest, eof)
<1> DEFINE st0 == [st EXCEPT !.keep = Len(d)]
           Turn(x, i) == ScanFrame(x, d, s, i, newest, eof)
           Runs(g, m) == g = [i \in 0..m |-> IF i = 0 THEN st0 ELSE Turn(g[i-1], i)]
           T == {m \in 0..Len(d) : ~\E g : Runs(g, m)}
<1>1. T = {}
  <2>1. SUFFICES ASSUME T # {} PROVE FALSE
    OBVIOUS
  <2>2. PICK m \in T : \A k \in T : m <= k
    <3>1. T \subseteq Nat
      OBVIOUS
    <3>2. QED BY <2>1, <3>1, Least
  <2> HIDE DEF st0, Turn
  <2>3. m # 0
    <3> DEFINE g == [i \in 0..0 |-> st0]
    <3>1. g = [i \in 0..0 |-> IF i = 0 THEN st0 ELSE Turn(g[i-1], i)]
      OBVIOUS
    <3>2. Runs(g, 0)
      BY <3>1
    <3>3. QED BY <2>2, <3>2
  <2>4. PICK g : Runs(g, m - 1)
    <3>1. m \in 0..Len(d) /\ m - 1 \in 0..Len(d)
      BY <2>2, <2>3
    <3> HIDE DEF T
    <3>2. m - 1 \notin T
      BY <2>2, <3>1
    <3>3. QED BY <3>1, <3>2 DEF T
  <2> DEFINE h == [i \in 0..m |-> IF i < m THEN g[i] ELSE Turn(g[m-1], m)]
  <2>5. ASSUME NEW i \in 0..m
        PROVE  h[i] = IF i = 0 THEN st0 ELSE Turn(h[i-1], i)
    <3>1. CASE i = 0
      BY <2>3, <2>4, <3>1
    <3>2. CASE i # 0 /\ i < m
      <4>1. i \in 0..m-1 /\ i - 1 \in 0..m /\ i - 1 < m
        BY <3>2
      <4>2. h[i] = g[i] /\ h[i-1] = g[i-1]
        BY <3>2, <4>1
      <4>3. g[i] = Turn(g[i-1], i)
        BY <2>4, <3>2, <4>1
      <4>4. QED BY <3>2, <4>2, <4>3
    <3>3. CASE i = m
      <4>1. m - 1 \in 0..m /\ m - 1 < m /\ ~(m < m)
        BY <2>3
      <4>2. h[m-1] = g[m-1] /\ h[m] = Turn(g[m-1], m)
        BY <4>1
      <4>3. QED BY <2>3, <3>3, <4>2
    <3>4. QED BY <3>1, <3>2, <3>3
  <2>6. h = [i \in 0..m |-> h[i]]
    OBVIOUS
  <2> HIDE DEF h
  <2>7. Runs(h, m)
    BY <2>5, <2>6
  <2>8. QED BY <2>2, <2>7
<1>2. PICK g : Runs(g, Len(d))
  BY <1>1
<1>3. Runs(Scanned(st, d, s, newest, eof), Len(d))
  BY <1>2 DEF Scanned
<1> DEFINE f == Scanned(st, d, s, newest, eof)
<1> HIDE DEF f
<1>4. f = [i \in 0..Len(d) |-> IF i = 0 THEN st0 ELSE Turn(f[i-1], i)]
  BY <1>3 DEF f
<1> HIDE DEF st0, Turn
<1>5. f[0] = st0 /\ \A i \in 1..Len(d) : f[i] = Turn(f[i-1], i)
  BY <1>4
<1>6. QED BY <1>5 DEF f, st0, Turn

\* Every segment but the oldest has one in front of it.
LEMMA Predecessor ==
  ASSUME NEW S, S \subseteq Nat, NEW s \in S, ~Oldest(S, s)
  PROVE  \E r \in S : Adjacent(S, r, s)
<1> DEFINE T == {s - r : r \in {x \in S : x < s}}
<1>1. T \subseteq Nat /\ T # {}
  <2>1. PICK r \in S : ~(s <= r)
    BY DEF Oldest
  <2>2. s \in Nat /\ r < s /\ \A x \in S : x \in Nat
    BY <2>1
  <2>3. s - r \in T
    BY <2>1, <2>2
  <2>4. QED BY <2>2, <2>3
<1>2. PICK x \in T : \A y \in T : x <= y
  BY <1>1, Least
<1>3. PICK r \in {z \in S : z < s} : x = s - r
  BY <1>2
<1>4. ASSUME NEW q \in S, r < q, q < s PROVE FALSE
  <2>1. s - q \in T
    BY <1>4
  <2>2. s - r <= s - q
    BY <1>2, <1>3, <2>1
  <2>3. QED BY <1>3, <1>4, <2>2
<1>5. QED BY <1>3, <1>4 DEF Adjacent

\* The state in which the scan of the directory comes to segment s.
StateBefore(files, s, eof) ==
  IF Oldest(DOMAIN files, s) THEN StartState(s)
  ELSE ScannedUpTo(files, eof)[CHOOSE r \in DOMAIN files : Adjacent(DOMAIN files, r, s)]

\* The run of the loop over the segments.
LEMMA ScannedUpToRuns ==
  ASSUME NEW files, DOMAIN files \subseteq Nat \ {0}, NEW top, Newest(DOMAIN files, top), NEW eof
  PROVE  \A s \in DOMAIN files :
           ScannedUpTo(files, eof)[s] = ScanNext(StateBefore(files, s, eof), files, s, eof)
<1> DEFINE S == DOMAIN files
           Before(s) == CHOOSE r \in S : Adjacent(S, r, s)
           Turn(g, s) == ScanNext(IF Oldest(S, s) THEN StartState(s) ELSE g[Before(s)], files, s, eof)
           Part(m) == {x \in S : x <= m}
           Runs(g, m) == g = [s \in Part(m) |-> Turn(g, s)]
           T == {m \in Nat : ~\E g : Runs(g, m)}
<1>1. \A s \in S : ~Oldest(S, s) => Before(s) \in S /\ Before(s) < s
  <2>1. ASSUME NEW s \in S, ~Oldest(S, s) PROVE \E r \in S : Adjacent(S, r, s)
    BY <2>1, Predecessor
  <2>2. QED BY <2>1 DEF Adjacent
<1>2. ASSUME NEW g, NEW h, NEW s \in S,
             ~Oldest(S, s) => g[Before(s)] = h[Before(s)]
      PROVE  Turn(g, s) = Turn(h, s)
  BY <1>2
<1> HIDE DEF Turn
<1>3. T = {}
  <2>1. SUFFICES ASSUME T # {} PROVE FALSE
    OBVIOUS
  <2>2. PICK m \in T : \A k \in T : m <= k
    <3>1. T \subseteq Nat
      OBVIOUS
    <3>2. QED BY <2>1, <3>1, Least
  <2>3. m # 0
    <3>1. Part(0) = {}
      OBVIOUS
    <3> DEFINE g == [s \in {} |-> 0]
    <3>2. g = [s \in Part(0) |-> Turn(g, s)]
      BY <3>1
    <3>3. QED BY <2>2, <3>2
  <2>4. PICK g : Runs(g, m - 1)
    <3>1. m \in Nat /\ m - 1 \in Nat
      BY <2>2, <2>3
    <3> HIDE DEF T
    <3>2. m - 1 \notin T
      BY <2>2, <3>1
    <3>3. QED BY <3>1, <3>2 DEF T
  <2>5. \A s \in Part(m) : s # m => s \in Part(m - 1)
    OBVIOUS
  <2> DEFINE h == [s \in Part(m) |-> IF s < m THEN g[s] ELSE Turn(g, m)]
  <2>6. ASSUME NEW s \in Part(m) PROVE h[s] = Turn(h, s)
    <3>1. ~Oldest(S, s) => h[Before(s)] = g[Before(s)]
      <4>1. SUFFICES ASSUME ~Oldest(S, s) PROVE h[Before(s)] = g[Before(s)]
        OBVIOUS
      <4>2. Before(s) \in S /\ Before(s) < s
        BY <1>1, <4>1
      <4>3. Before(s) \in Part(m) /\ Before(s) < m
        BY <4>2
      <4>4. QED BY <4>3
    <3>2. Turn(h, s) = Turn(g, s)
      BY <1>2, <3>1
    <3>3. CASE s < m
      <4>1. s \in Part(m - 1)
        BY <3>3
      <4>2. g[s] = Turn(g, s)
        BY <2>4, <4>1
      <4>3. QED BY <3>2, <3>3, <4>2
    <3>4. CASE ~(s < m)
      <4>1. s = m
        BY <3>4
      <4>2. QED BY <3>2, <3>4, <4>1
    <3>5. QED BY <3>3, <3>4
  <2>7. h = [s \in Part(m) |-> h[s]]
    OBVIOUS
  <2> HIDE DEF h
  <2>8. Runs(h, m)
    BY <2>6, <2>7
  <2>9. QED BY <2>2, <2>8
<1>4. top \in Nat /\ Part(top) = S
  BY DEF Newest
<1>5. PICK g : g = [s \in S |-> Turn(g, s)]
  BY <1>3, <1>4
<1>6. LET f == ScannedUpTo(files, eof) IN f = [s \in S |-> Turn(f, s)]
  BY <1>5 DEF ScannedUpTo, Turn
<1> DEFINE f == ScannedUpTo(files, eof)
<1> HIDE DEF f
<1>7. f = [s \in S |-> Turn(f, s)]
  BY <1>6 DEF f
<1>8. \A s \in S : f[s] = Turn(f, s)
  BY <1>7
<1>9. QED BY <1>8 DEF f, Turn, StateBefore

-------------------------------------------------------------------------------
(* What the scan accepts.                                                   *)

\* The first n frames are accepted.
Accepted(d, base, n) == \A i \in 1..n : Accepts(d, base, i)

\* Of the first n frames, those of a record lie together, the first and the last one with
\* their flag and no other, and the sequences increase.
Apart(d, n) ==
  \A j \in 1..n : \A i \in 1..j :
    /\ d[i].seq <= d[j].seq
    /\ i < j /\ d[i].seq = d[j].seq => ~FlagLast(d[i]) /\ ~FlagFirst(d[j])

\* Accepted frames lie apart: the first frame that does not, follows one that does.
LEMMA AcceptedApart ==
  ASSUME NEW base \in Nat, NEW d \in Seq(Frame), NEW n \in 0..Len(d), Accepted(d, base, n)
  PROVE  Apart(d, n) /\ \A j \in 1..n : base < d[j].seq
<1> DEFINE Q(i, j) == /\ d[i].seq <= d[j].seq
                      /\ i < j /\ d[i].seq = d[j].seq => ~FlagLast(d[i]) /\ ~FlagFirst(d[j])
           P(j) == base < d[j].seq /\ \A i \in 1..j : Q(i, j)
           T == {j \in 1..n : ~P(j)}
<1>1. \A i \in 1..n : i \in 1..Len(d) /\ d[i].seq \in Nat
  BY FrameTypes
<1>2. T = {}
  <2>1. SUFFICES ASSUME T # {} PROVE FALSE
    OBVIOUS
  <2>2. PICK j \in T : \A k \in T : j <= k
    <3>1. T \subseteq Nat
      OBVIOUS
    <3>2. QED BY <2>1, <3>1, Least
  <2>3. j \in 1..n /\ ~P(j)
    BY <2>2
  <2>4. Follows(d, base, j)
    BY <2>3 DEF Accepted, Accepts
  <2>5. CASE j = 1
    <3>1. d[1].seq = base + 1
      BY <2>4, <2>5 DEF Follows
    <3>2. \A i \in 1..j : i = j
      BY <2>5
    <3>3. Q(j, j)
      BY <1>1, <2>3
    <3> HIDE DEF Q
    <3>4. P(j)
      BY <2>5, <3>1, <3>2, <3>3
    <3>5. QED BY <2>3, <3>4
  <2>6. CASE j # 1
    <3>1. j - 1 \in 1..n /\ j - 1 < j
      BY <2>3, <2>6
    <3>2. P(j - 1)
      <4> HIDE DEF P
      <4>1. j - 1 \notin T
        <5> HIDE DEF T
        <5>1. QED BY <2>2, <2>3, <3>1
      <4>2. QED BY <3>1, <4>1
    <3>3. IF FlagLast(d[j-1]) THEN d[j].seq = d[j-1].seq + 1
          ELSE ~FlagFirst(d[j]) /\ d[j].seq = d[j-1].seq
      BY <2>4, <2>6 DEF Follows
    <3>4. base < d[j].seq /\ d[j-1].seq <= d[j].seq
      BY <1>1, <2>3, <3>1, <3>2, <3>3
    <3>5. ASSUME NEW i \in 1..j PROVE Q(i, j)
      <4>1. CASE i = j
        BY <1>1, <2>3, <4>1
      <4>2. CASE i = j - 1
        BY <1>1, <2>3, <3>1, <3>3, <4>2
      <4>3. CASE i < j - 1
        <5>1. i \in 1..j-1 /\ i \in 1..n
          BY <2>3, <4>3
        <5>2. Q(i, j - 1)
          BY <3>2, <5>1
        <5>3. QED BY <1>1, <2>3, <3>1, <3>3, <4>3, <5>1, <5>2
      <4>4. QED BY <2>3, <4>1, <4>2, <4>3
    <3> HIDE DEF Q
    <3>6. P(j)
      BY <3>4, <3>5
    <3>7. QED BY <2>3, <3>6
  <2>7. QED BY <2>5, <2>6
<1>3. \A j \in 1..n : P(j)
  BY <1>2
<1>4. QED BY <1>3 DEF Apart

\* A record has one place.
LEMMA SamePlace ==
  ASSUME NEW d \in Seq(Frame), Apart(d, Len(d)), NEW q, NEW l, NEW m,
         l.off \in Nat, l.n \in Nat \ {0}, m.off \in Nat, m.n \in Nat \ {0},
         LiesAt(d, q, l), LiesAt(d, q, m)
  PROVE  l.off = m.off /\ l.n = m.n
<1> DEFINE a == l.off + 1
           b == l.off + l.n
           x == m.off + 1
           y == m.off + m.n
<1>1. /\ a \in 1..Len(d) /\ b \in 1..Len(d) /\ x \in 1..Len(d) /\ y \in 1..Len(d)
      /\ d[a].seq = q /\ d[b].seq = q /\ d[x].seq = q /\ d[y].seq = q
      /\ FlagFirst(d[a]) /\ FlagLast(d[b]) /\ FlagFirst(d[x]) /\ FlagLast(d[y])
  <2>1. l.off + l.n <= Len(d) /\ m.off + m.n <= Len(d) /\ Len(d) \in Nat
    BY DEF LiesAt
  <2>2. a \in 1..Len(d) /\ b \in 1..Len(d) /\ x \in 1..Len(d) /\ y \in 1..Len(d)
    BY <2>1
  <2>3. QED BY <2>2 DEF LiesAt
<1> HIDE DEF a, b, x, y
<1>2. \A j \in 1..Len(d) : \A i \in 1..Len(d) :
        i < j /\ d[i].seq = d[j].seq => ~FlagLast(d[i]) /\ ~FlagFirst(d[j])
  BY DEF Apart
<1>3. ~(a < x) /\ ~(x < a)
  BY <1>1, <1>2
<1>4. ~(b < y) /\ ~(y < b)
  BY <1>1, <1>2
<1>5. a = x /\ b = y
  BY <1>1, <1>3, <1>4
<1>6. QED BY <1>5 DEF a, b, x, y

\* Where not all frames are accepted, there is a first one that is not.
LEMMA FirstRejected ==
  ASSUME NEW base, NEW d \in Seq(Frame), NEW n \in 0..Len(d), ~Accepted(d, base, n)
  PROVE  \E u \in 1..n : Accepted(d, base, u - 1) /\ ~Accepts(d, base, u)
<1> DEFINE T == {i \in 1..n : ~Accepts(d, base, i)}
<1>1. T \subseteq Nat /\ T # {}
  BY DEF Accepted
<1>2. PICK u \in T : \A k \in T : u <= k
  BY <1>1, Least
<1>3. ASSUME NEW i \in 1..u-1 PROVE Accepts(d, base, i)
  <2>1. u \in 1..n /\ i \in 1..n /\ ~(u <= i)
    BY <1>2
  <2>2. QED BY <1>2, <2>1
<1>4. QED BY <1>2, <1>3 DEF Accepted

\* The first rejected frame is the only one.
LEMMA OneRejected ==
  ASSUME NEW d, NEW base, NEW u \in Nat, NEW v \in Nat, 0 < u, 0 < v,
         Accepted(d, base, u - 1), ~Accepts(d, base, u),
         Accepted(d, base, v - 1), ~Accepts(d, base, v)
  PROVE  u = v
BY DEF Accepted

\* A scan that succeeds keeps one prefix only.
LEMMA KeepsOne ==
  ASSUME NEW base, NEW d \in Seq(Frame), NEW k \in 0..Len(d), NEW m \in 0..Len(d),
         ScanKeeps(d, base, k), ScanKeeps(d, base, m)
  PROVE  ~(k < m)
<1>1. SUFFICES ASSUME k < m PROVE FALSE
  OBVIOUS
<1>2. PICK e \in k..Len(d) : /\ \A i \in k+1..e : Accepts(d, base, i) /\ ~FlagLast(d[i])
                             /\ e < Len(d) => d[e+1].kind = "torn"
  BY DEF ScanKeeps
<1>3. FlagLast(d[m]) /\ \A i \in 1..m : d[i].kind = "ok"
  BY <1>1 DEF ScanKeeps, Complete, Accepts
<1>4. e < m
  BY <1>1, <1>2, <1>3
<1>5. e + 1 \in 1..m /\ e < Len(d)
  BY <1>2, <1>4
<1>6. QED BY <1>2, <1>3, <1>5

-------------------------------------------------------------------------------
(* The loop over a segment: what its state says of the frames behind it.    *)

ScanState ==
  [verdict : {"scanning", "trimmed", "corrupt"}, assembling : BOOLEAN, seq : Nat,
   start : Nat, lastSeq : Nat, keep : Nat, index : UNION {[Q -> Location] : Q \in SUBSET Nat}]

\* The scan may come to a record that follows base.
Ready(st, base) ==
  /\ st \in ScanState /\ st.verdict = "scanning" /\ ~st.assembling /\ st.lastSeq = base
  /\ \A q \in DOMAIN st.index : q <= base

\* The scan has entered the records of the first n frames of segment s, d, and no other.
Entered(index, old, d, s, n) ==
  /\ DOMAIN index = DOMAIN old \cup {d[j].seq : j \in 1..n}
  /\ \A q \in DOMAIN old : index[q] = old[q]
  /\ \A j \in 1..n : LET loc == index[d[j].seq]
                     IN  loc.seg = s /\ loc.off + loc.n <= n /\ LiesAt(d, d[j].seq, loc)

\* Frames st.start + 1 to i are the record that st assembles.
Opened(st, d, i) ==
  /\ st.start < i /\ st.lastSeq = st.seq - 1
  /\ FlagFirst(d[st.start + 1]) /\ Complete(d, st.start)
  /\ \A j \in st.start + 1..i : d[j].seq = st.seq
  /\ \A j \in st.start + 1..i - 1 : ~FlagLast(d[j])

\* The state behind i accepted frames of segment s, d.
Walked(st, st0, d, base, s, i) ==
  /\ st \in ScanState /\ st.verdict = "scanning" /\ st.keep = Len(d)
  /\ st.assembling <=> ~Complete(d, i)
  /\ IF st.assembling THEN Opened(st, d, i) /\ Entered(st.index, st0.index, d, s, st.start)
     ELSE /\ st.lastSeq = (IF i = 0 THEN base ELSE d[i].seq)
          /\ Entered(st.index, st0.index, d, s, i)

\* A record takes its next frame.
LEMMA AssembleWalks ==
  ASSUME NEW base \in Nat, NEW s \in Nat \ {0}, NEW d \in Seq(Frame), NEW i \in 1..Len(d),
         Accepted(d, base, i), NEW st0, Ready(st0, base),
         NEW st \in ScanState, st.verdict = "scanning", st.keep = Len(d),
         Opened(st, d, i), Entered(st.index, st0.index, d, s, st.start)
  PROVE  Walked(Assemble(st, d[i], s, i), st0, d, base, s, i)
<1> DEFINE f == d[i]
           new == Assemble(st, f, s, i)
           a == st.start
           loc == [seg |-> s, off |-> a, n |-> i - a]
<1>1. f.seq \in Nat \ {0} /\ f.seq = st.seq /\ a \in Nat /\ a < i
  <2>1. st.start \in Nat
    BY DEF ScanState
  <2>2. i \in st.start + 1..i
    BY <2>1 DEF Opened
  <2>3. QED BY <2>1, <2>2, FrameTypes DEF Opened
<1>2. CASE ~FlagLast(f)
  <2>1. new = [st EXCEPT !.assembling = TRUE]
    BY <1>2 DEF Assemble
  <2>2. /\ new \in ScanState /\ new.assembling = TRUE /\ new.verdict = st.verdict
        /\ new.keep = st.keep /\ new.start = st.start /\ new.seq = st.seq
        /\ new.lastSeq = st.lastSeq /\ new.index = st.index
    BY <2>1 DEF ScanState
  <2> HIDE DEF new
  <2>3. ~Complete(d, i)
    BY <1>2 DEF Complete
  <2>4. Opened(new, d, i) /\ Entered(new.index, st0.index, d, s, new.start)
    BY <2>2 DEF Opened
  <2>5. QED BY <2>2, <2>3, <2>4 DEF Walked, new
<1>3. CASE FlagLast(f)
  <2> DEFINE ix == [q \in DOMAIN st.index \cup {f.seq} |-> IF q = f.seq THEN loc ELSE st.index[q]]
  <2>1. new = [st EXCEPT !.assembling = FALSE, !.lastSeq = f.seq, !.index = ix]
    BY <1>3 DEF Assemble
  <2>2. loc \in Location
    BY <1>1 DEF Location
  <2>3. ix \in UNION {[Q -> Location] : Q \in SUBSET Nat}
    <3>1. PICK Q \in SUBSET Nat : st.index \in [Q -> Location]
      BY DEF ScanState
    <3>2. Q \cup {f.seq} \in SUBSET Nat
      BY <1>1
    <3> HIDE DEF loc
    <3>3. ix \in [Q \cup {f.seq} -> Location]
      BY <2>2, <3>1
    <3>4. QED BY <3>2, <3>3
  <2>4. DOMAIN ix = DOMAIN st.index \cup {f.seq} /\ ix[f.seq] = loc
        /\ \A q \in DOMAIN st.index : q # f.seq => ix[q] = st.index[q]
    OBVIOUS
  <2> HIDE DEF ix
  <2>5. /\ new \in ScanState /\ new.assembling = FALSE /\ new.verdict = st.verdict
        /\ new.keep = st.keep /\ new.lastSeq = f.seq /\ new.index = ix
    BY <1>1, <2>1, <2>3 DEF ScanState
  <2> HIDE DEF new
  <2>6. Apart(d, i) /\ base < f.seq
    <3>1. i \in 0..Len(d) /\ i \in 1..i
      OBVIOUS
    <3>2. QED BY <3>1, AcceptedApart
  <2>7. \A j \in 1..a : d[j].seq # f.seq
    <3>1. SUFFICES ASSUME NEW j \in 1..a, d[j].seq = f.seq PROVE FALSE
      OBVIOUS
    <3>2. a + 1 \in 1..i /\ j \in 1..a + 1 /\ j < a + 1
      BY <1>1
    <3>3. d[a+1].seq = f.seq /\ FlagFirst(d[a+1])
      BY <1>1, <3>2 DEF Opened
    <3>4. QED BY <2>6, <3>1, <3>2, <3>3 DEF Apart
  <2>8. \A j \in a + 1..i : d[j].seq = f.seq
    BY <1>1 DEF Opened
  <2>9. LiesAt(d, f.seq, loc) /\ loc.off + loc.n = i
    <3>1. loc.off = a /\ loc.n = i - a /\ loc.off + loc.n = i
      BY <1>1
    <3>2. a + 1 \in a + 1..i
      BY <1>1
    <3>3. d[a+1].seq = f.seq /\ FlagFirst(d[a+1])
      BY <2>8, <3>2 DEF Opened
    <3> HIDE DEF loc
    <3>4. QED BY <1>3, <3>1, <3>3 DEF LiesAt
  <2>10. Entered(ix, st0.index, d, s, i)
    <3>1. DOMAIN ix = DOMAIN st0.index \cup {d[j].seq : j \in 1..i}
      <4>1. DOMAIN ix = DOMAIN st0.index \cup {d[j].seq : j \in 1..a} \cup {f.seq}
        BY <2>4 DEF Entered
      <4>2. {d[j].seq : j \in 1..i} = {d[j].seq : j \in 1..a} \cup {f.seq}
        <5>1. ASSUME NEW j \in 1..i
              PROVE  d[j].seq \in {d[k].seq : k \in 1..a} \cup {f.seq}
          <6>1. j \in 1..a \/ j \in a + 1..i
            BY <1>1
          <6>2. QED BY <2>8, <6>1
        <5>2. \A j \in 1..a : j \in 1..i
          BY <1>1
        <5>3. QED BY <5>1, <5>2
      <4>3. QED BY <4>1, <4>2
    <3>2. ASSUME NEW q \in DOMAIN st0.index PROVE ix[q] = st0.index[q]
      <4>1. q \in DOMAIN st.index /\ st.index[q] = st0.index[q]
        BY DEF Entered
      <4>2. q # f.seq
        <5>1. q <= base /\ q \in Nat
          BY DEF Ready, ScanState
        <5>2. QED BY <1>1, <2>6, <5>1
      <4>3. QED BY <2>4, <4>1, <4>2
    <3>3. ASSUME NEW j \in 1..i
          PROVE  LET l == ix[d[j].seq]
                 IN  l.seg = s /\ l.off + l.n <= i /\ LiesAt(d, d[j].seq, l)
      <4>1. CASE j \in 1..a
        <5>1. d[j].seq \in DOMAIN st.index /\ d[j].seq # f.seq
          BY <2>7, <4>1 DEF Entered
        <5>2. ix[d[j].seq] = st.index[d[j].seq]
          BY <2>4, <5>1
        <5> DEFINE l == st.index[d[j].seq]
        <5>3. l.seg = s /\ l.off + l.n <= a /\ LiesAt(d, d[j].seq, l)
          BY <4>1 DEF Entered
        <5>4. l \in Location
          <6>1. PICK Q \in SUBSET Nat : st.index \in [Q -> Location]
            BY DEF ScanState
          <6>2. QED BY <5>1, <6>1
        <5>5. l.off \in Nat /\ l.n \in Nat
          BY <5>4 DEF Location
        <5> HIDE DEF l
        <5>6. l.off + l.n <= i
          BY <1>1, <5>3, <5>5
        <5>7. QED BY <5>2, <5>3, <5>6 DEF l
      <4>2. CASE j \in a + 1..i
        <5>1. d[j].seq = f.seq
          BY <2>8, <4>2
        <5>2. loc.seg = s
          OBVIOUS
        <5>3. loc.off + loc.n <= i
          BY <2>9
        <5> HIDE DEF loc
        <5>4. QED BY <2>4, <2>9, <5>1, <5>2, <5>3
      <4>3. QED BY <1>1, <4>1, <4>2
    <3>4. QED BY <3>1, <3>2, <3>3 DEF Entered
  <2>11. Complete(d, i)
    BY <1>3 DEF Complete
  <2>12. QED BY <2>5, <2>10, <2>11 DEF Walked, new
<1>4. QED BY <1>2, <1>3

\* Every accepted frame continues the walk.
LEMMA FrameWalks ==
  ASSUME NEW base \in Nat, NEW s \in Nat \ {0}, NEW d \in Seq(Frame), NEW i \in 1..Len(d),
         Accepted(d, base, i), NEW st0, Ready(st0, base), NEW newest, NEW eof,
         NEW st, Walked(st, st0, d, base, s, i - 1)
  PROVE  Walked(ScanFrame(st, d, s, i, newest, eof), st0, d, base, s, i)
<1> DEFINE f == d[i]
<1>1. f.kind = "ok" /\ Follows(d, base, i) /\ f.seq \in Nat \ {0}
  BY FrameTypes DEF Accepted, Accepts
<1>2. ~TailError(d, i, eof)
  BY <1>1 DEF TailError
<1>3. st \in ScanState /\ st.verdict = "scanning" /\ st.keep = Len(d)
  BY DEF Walked
<1>4. CASE ~st.assembling
  <2>1. Complete(d, i - 1) /\ st.lastSeq = (IF i - 1 = 0 THEN base ELSE d[i-1].seq)
        /\ Entered(st.index, st0.index, d, s, i - 1)
    BY <1>4 DEF Walked
  <2>2. FlagFirst(f) /\ f.seq = st.lastSeq + 1
    <3>1. CASE i = 1
      BY <1>1, <2>1, <3>1 DEF Follows
    <3>2. CASE i # 1
      <4>1. FlagLast(d[i-1]) /\ st.lastSeq = d[i-1].seq
        BY <2>1, <3>2 DEF Complete
      <4>2. QED BY <1>1, <3>2, <4>1 DEF Follows
    <3>3. QED BY <3>1, <3>2
  <2>3. Begins(st, f) /\ ~Continues(st, f)
    BY <1>1, <1>4, <2>2 DEF Begins, Continues
  <2> DEFINE mid == [st EXCEPT !.seq = f.seq, !.start = i - 1]
  <2>4. ScanFrame(st, d, s, i, newest, eof) = Assemble(mid, f, s, i)
    BY <1>2, <1>3, <2>3 DEF ScanFrame
  <2>5. /\ mid \in ScanState /\ mid.verdict = "scanning" /\ mid.keep = Len(d)
        /\ mid.seq = f.seq /\ mid.start = i - 1 /\ mid.lastSeq = st.lastSeq
        /\ mid.index = st.index
    <3>1. i - 1 \in Nat
      OBVIOUS
    <3> HIDE DEF f
    <3>2. QED BY <1>1, <1>3, <3>1 DEF ScanState
  <2> HIDE DEF mid
  <2>6. st.lastSeq \in Nat
    BY <1>3 DEF ScanState
  <2>7. mid.start < i /\ mid.lastSeq = mid.seq - 1 /\ mid.start + 1 = i
    BY <1>1, <2>2, <2>5, <2>6
  <2>8. Opened(mid, d, i)
    BY <2>1, <2>2, <2>5, <2>7 DEF Opened
  <2>9. Entered(mid.index, st0.index, d, s, mid.start)
    BY <2>1, <2>5
  <2>10. QED BY <2>4, <2>5, <2>8, <2>9, AssembleWalks
<1>5. CASE st.assembling
  <2>1. ~Complete(d, i - 1) /\ Opened(st, d, i - 1)
        /\ Entered(st.index, st0.index, d, s, st.start)
    BY <1>5 DEF Walked
  <2>2. i # 1 /\ i - 1 \in 1..Len(d) /\ ~FlagLast(d[i-1])
    BY <2>1 DEF Complete
  <2>3. ~FlagFirst(f) /\ f.seq = d[i-1].seq
    BY <1>1, <2>2 DEF Follows
  <2>4. st.start \in Nat /\ st.start < i - 1
    BY <1>3, <2>1 DEF ScanState, Opened
  <2>5. d[i-1].seq = st.seq
    <3>1. i - 1 \in st.start + 1..i - 1
      BY <2>4
    <3>2. QED BY <2>1, <3>1 DEF Opened
  <2>6. Continues(st, f) /\ ~Begins(st, f)
    BY <1>1, <1>5, <2>3, <2>5 DEF Begins, Continues
  <2>7. ScanFrame(st, d, s, i, newest, eof) = Assemble(st, f, s, i)
    BY <1>2, <1>3, <2>6 DEF ScanFrame
  <2>8. Opened(st, d, i)
    <3>1. \A j \in st.start + 1..i : j = i \/ j \in st.start + 1..i - 1
      BY <2>4
    <3>2. \A j \in st.start + 1..i - 1 : j = i - 1 \/ j \in st.start + 1..(i - 1) - 1
      BY <2>4
    <3>3. st.start < i
      BY <2>4
    <3>4. QED BY <2>1, <2>2, <2>3, <2>5, <3>1, <3>2, <3>3 DEF Opened
  <2>9. QED BY <1>3, <2>1, <2>7, <2>8, AssembleWalks
<1>6. QED BY <1>4, <1>5

\* The loop walks over the accepted frames.
LEMMA ScanWalks ==
  ASSUME NEW base \in Nat, NEW s \in Nat \ {0}, NEW d \in Seq(Frame),
         NEW st0, Ready(st0, base), NEW newest, NEW eof,
         NEW n \in 0..Len(d), Accepted(d, base, n)
  PROVE  Walked(Scanned(st0, d, s, newest, eof)[n], st0, d, base, s, n)
<1> DEFINE f == Scanned(st0, d, s, newest, eof)
           T == {i \in 0..n : ~Walked(f[i], st0, d, base, s, i)}
<1>1. f[0] = [st0 EXCEPT !.keep = Len(d)]
      /\ \A i \in 1..Len(d) : f[i] = ScanFrame(f[i-1], d, s, i, newest, eof)
  BY ScannedRuns
<1> HIDE DEF f
<1>2. T = {}
  <2>1. SUFFICES ASSUME T # {} PROVE FALSE
    OBVIOUS
  <2>2. PICK i \in T : \A k \in T : i <= k
    <3>1. T \subseteq Nat
      OBVIOUS
    <3>2. QED BY <2>1, <3>1, Least
  <2>3. i # 0
    <3>1. st0 \in ScanState /\ st0.verdict = "scanning" /\ ~st0.assembling /\ st0.lastSeq = base
      BY DEF Ready
    <3>2. /\ f[0] \in ScanState /\ f[0].verdict = "scanning" /\ ~f[0].assembling
          /\ f[0].lastSeq = base /\ f[0].keep = Len(d) /\ f[0].index = st0.index
      BY <1>1, <3>1 DEF ScanState
    <3>3. Complete(d, 0)
      BY DEF Complete
    <3>4. Entered(st0.index, st0.index, d, s, 0)
      BY DEF Entered
    <3>5. Walked(f[0], st0, d, base, s, 0)
      BY <3>2, <3>3, <3>4 DEF Walked
    <3>6. QED BY <2>2, <3>5
  <2>4. i \in 1..Len(d) /\ i - 1 \in 0..n
    BY <2>2, <2>3
  <2>5. Walked(f[i-1], st0, d, base, s, i - 1)
    <3>1. i - 1 \notin T
      <4> HIDE DEF T
      <4>1. QED BY <2>2, <2>4
    <3>2. QED BY <2>4, <3>1
  <2>6. Accepted(d, base, i)
    BY <2>2 DEF Accepted
  <2>7. Walked(f[i], st0, d, base, s, i)
    BY <1>1, <2>4, <2>5, <2>6, FrameWalks
  <2>8. QED BY <2>2, <2>7
<1>3. QED BY <1>2 DEF f

\* A verdict stands.
LEMMA ScanStops ==
  ASSUME NEW d \in Seq(Frame), NEW st0, NEW s, NEW newest, NEW eof, NEW u \in 0..Len(d),
         Scanned(st0, d, s, newest, eof)[u].verdict # "scanning"
  PROVE  Scanned(st0, d, s, newest, eof)[Len(d)] = Scanned(st0, d, s, newest, eof)[u]
<1> DEFINE f == Scanned(st0, d, s, newest, eof)
           T == {i \in u..Len(d) : f[i] # f[u]}
<1>1. f[0] = [st0 EXCEPT !.keep = Len(d)]
      /\ \A i \in 1..Len(d) : f[i] = ScanFrame(f[i-1], d, s, i, newest, eof)
  BY ScannedRuns
<1>2. f[u].verdict # "scanning"
  OBVIOUS
<1> HIDE DEF f
<1>3. T = {}
  <2>1. SUFFICES ASSUME T # {} PROVE FALSE
    OBVIOUS
  <2>2. PICK i \in T : \A k \in T : i <= k
    <3>1. T \subseteq Nat
      OBVIOUS
    <3>2. QED BY <2>1, <3>1, Least
  <2>3. i # u /\ i \in 1..Len(d) /\ i - 1 \in u..Len(d)
    BY <2>2
  <2>4. f[i-1] = f[u]
    <3>1. i - 1 \notin T
      <4> HIDE DEF T
      <4>1. QED BY <2>2, <2>3
    <3>2. QED BY <2>3, <3>1
  <2>5. f[i] = f[i-1]
    BY <1>1, <1>2, <2>3, <2>4 DEF ScanFrame
  <2>6. QED BY <2>2, <2>4, <2>5
<1>4. QED BY <1>3 DEF f

\* The first frame that is not accepted ends the loop.
LEMMA FrameRejected ==
  ASSUME NEW base \in Nat, NEW s \in Nat \ {0}, NEW d \in Seq(Frame), NEW u \in 1..Len(d),
         ~Accepts(d, base, u), NEW st0, NEW newest, NEW eof,
         NEW st, Walked(st, st0, d, base, s, u - 1)
  PROVE  ScanFrame(st, d, s, u, newest, eof) =
           IF newest /\ TailError(d, u, eof) THEN TrimTail(st, u) ELSE Corruption(st)
<1> DEFINE f == d[u]
<1>1. st \in ScanState /\ st.verdict = "scanning"
  BY DEF Walked
<1>2. ~Begins(st, f)
  <2>1. SUFFICES ASSUME Begins(st, f) PROVE FALSE
    OBVIOUS
  <2>2. f.kind = "ok" /\ FlagFirst(f) /\ ~st.assembling /\ f.seq = st.lastSeq + 1
    BY <2>1 DEF Begins
  <2>3. Complete(d, u - 1) /\ st.lastSeq = (IF u - 1 = 0 THEN base ELSE d[u-1].seq)
    BY <2>2 DEF Walked
  <2>4. CASE u = 1
    <3>1. Follows(d, base, u)
      BY <2>2, <2>3, <2>4 DEF Follows
    <3>2. QED BY <2>2, <3>1 DEF Accepts
  <2>5. CASE u # 1
    <3>1. FlagLast(d[u-1]) /\ f.seq = d[u-1].seq + 1
      BY <2>2, <2>3, <2>5 DEF Complete
    <3>2. Follows(d, base, u)
      BY <2>2, <2>5, <3>1 DEF Follows
    <3>3. QED BY <2>2, <3>2 DEF Accepts
  <2>6. QED BY <2>4, <2>5
<1>3. ~Continues(st, f)
  <2>1. SUFFICES ASSUME Continues(st, f) PROVE FALSE
    OBVIOUS
  <2>2. f.kind = "ok" /\ ~FlagFirst(f) /\ st.assembling /\ f.seq = st.seq
    BY <2>1 DEF Continues
  <2>3. ~Complete(d, u - 1) /\ Opened(st, d, u - 1) /\ st.start \in Nat
    BY <1>1, <2>2 DEF Walked, ScanState
  <2>4. u # 1 /\ ~FlagLast(d[u-1])
    BY <2>3 DEF Complete
  <2>5. d[u-1].seq = st.seq
    <3>1. u - 1 \in st.start + 1..u - 1
      BY <2>3 DEF Opened
    <3>2. QED BY <2>3, <3>1 DEF Opened
  <2>6. Follows(d, base, u)
    BY <2>2, <2>4, <2>5 DEF Follows
  <2>7. QED BY <2>2, <2>6 DEF Accepts
<1>4. QED BY <1>1, <1>2, <1>3 DEF ScanFrame

\* What is kept where the loop ends behind n accepted frames: those in front of the record
\* that st assembles.
LEMMA WalkKeeps ==
  ASSUME NEW base \in Nat, NEW s, NEW d \in Seq(Frame), NEW n \in 0..Len(d),
         Accepted(d, base, n), n < Len(d) => d[n+1].kind = "torn",
         NEW st0, NEW st, Walked(st, st0, d, base, s, n)
  PROVE  LET k == IF st.assembling THEN st.start ELSE n
         IN  /\ k \in 0..Len(d) /\ ScanKeeps(d, base, k)
             /\ st.lastSeq = LastSeqOf(SubSeq(d, 1, k), base)
             /\ Entered(st.index, st0.index, d, s, k)
<1>1. st \in ScanState
  BY DEF Walked
<1>2. \A i \in 1..n : Accepts(d, base, i)
  BY DEF Accepted
<1>3. ASSUME NEW k \in 0..n
      PROVE  LastSeqOf(SubSeq(d, 1, k), base) = (IF k = 0 THEN base ELSE d[k].seq)
  <2>1. Len(SubSeq(d, 1, k)) = k /\ \A i \in 1..k : SubSeq(d, 1, k)[i] = d[i]
    <3>1. 1 \in 1..Len(d) + 1 /\ k \in 1-1..Len(d)
      OBVIOUS
    <3>2. QED BY <3>1, SubSeqProperties
  <2>2. SubSeq(d, 1, k) = <<>> <=> k = 0
    <3>1. SubSeq(d, 1, k) \in Seq(Frame)
      BY SubSeqProperties
    <3>2. QED BY <2>1, <3>1
  <2>3. QED BY <2>1, <2>2 DEF LastSeqOf
<1>4. CASE st.assembling
  <2>1. Opened(st, d, n) /\ Entered(st.index, st0.index, d, s, st.start) /\ ~Complete(d, n)
    BY <1>4 DEF Walked
  <2>2. st.start \in Nat /\ st.start < n /\ st.seq \in Nat
    BY <1>1, <2>1 DEF ScanState, Opened
  <2> DEFINE a == st.start
  <2>3. a \in 0..n /\ a \in 0..Len(d) /\ n \in a..Len(d)
    BY <2>2
  <2>4. \A i \in a + 1..n : ~FlagLast(d[i])
    <3>1. \A i \in a + 1..n : i = n \/ i \in a + 1..n - 1
      BY <2>2
    <3>2. QED BY <2>1, <3>1 DEF Opened, Complete
  <2>5. ScanKeeps(d, base, a)
    <3>1. Complete(d, a)
      BY <2>1 DEF Opened
    <3>2. \A i \in 1..a : Accepts(d, base, i)
      BY <1>2, <2>3
    <3>3. \A i \in a + 1..n : Accepts(d, base, i) /\ ~FlagLast(d[i])
      BY <1>2, <2>3, <2>4
    <3> HIDE DEF a
    <3>4. QED BY <2>3, <3>1, <3>2, <3>3 DEF ScanKeeps
  <2>6. st.lastSeq = (IF a = 0 THEN base ELSE d[a].seq)
    <3>1. a + 1 \in 1..n
      BY <2>2
    <3>2. Follows(d, base, a + 1)
      BY <1>2, <3>1 DEF Accepts
    <3>3. d[a+1].seq = st.seq
      <4>1. a + 1 \in a + 1..n
        BY <2>2
      <4>2. QED BY <2>1, <4>1 DEF Opened
    <3>4. st.lastSeq = st.seq - 1
      BY <2>1 DEF Opened
    <3>5. CASE a = 0
      <4>1. d[1].seq = base + 1
        BY <3>2, <3>5 DEF Follows
      <4>2. QED BY <3>3, <3>4, <3>5, <4>1
    <3>6. CASE a # 0
      <4>1. FlagLast(d[a]) /\ (a + 1) - 1 = a /\ a + 1 # 1
        <5>1. a > 0
          BY <2>3, <3>6
        <5>2. FlagLast(d[a])
          BY <2>1, <5>1 DEF Opened, Complete
        <5>3. QED BY <2>3, <3>6, <5>2
      <4>2. d[a+1].seq = d[a].seq + 1
        BY <3>2, <4>1 DEF Follows
      <4>3. d[a].seq \in Nat
        <5>1. a \in 1..Len(d)
          BY <2>3, <3>6
        <5>2. QED BY <5>1, FrameTypes
      <4>4. QED BY <3>3, <3>4, <3>6, <4>2, <4>3
    <3>7. QED BY <3>5, <3>6
  <2>7. QED BY <1>3, <1>4, <2>1, <2>3, <2>5, <2>6
<1>5. CASE ~st.assembling
  <2>1. /\ Complete(d, n) /\ st.lastSeq = (IF n = 0 THEN base ELSE d[n].seq)
        /\ Entered(st.index, st0.index, d, s, n)
    BY <1>5 DEF Walked
  <2>2. n \in n..Len(d) /\ \A i \in n + 1..n : FALSE
    OBVIOUS
  <2>3. ScanKeeps(d, base, n)
    BY <1>2, <2>1, <2>2 DEF ScanKeeps
  <2>4. n \in 0..n
    OBVIOUS
  <2>5. QED BY <1>3, <1>5, <2>1, <2>3, <2>4
<1>6. QED BY <1>4, <1>5

\* The loop ends behind the first rejected frame, or at the end of the segment.
LEMMA ScanEnds ==
  ASSUME NEW base \in Nat, NEW s \in Nat \ {0}, NEW d \in Seq(Frame),
         NEW st0, Ready(st0, base), NEW newest, NEW eof,
         NEW u \in 1..Len(d), Accepted(d, base, u - 1), ~Accepts(d, base, u)
  PROVE  LET st == Scanned(st0, d, s, newest, eof)[u-1]
         IN  /\ Walked(st, st0, d, base, s, u - 1)
             /\ Scanned(st0, d, s, newest, eof)[Len(d)] =
                  IF newest /\ TailError(d, u, eof) THEN TrimTail(st, u) ELSE Corruption(st)
<1> DEFINE f == Scanned(st0, d, s, newest, eof)
           st == f[u-1]
           end == IF newest /\ TailError(d, u, eof) THEN TrimTail(st, u) ELSE Corruption(st)
<1>1. f[u] = ScanFrame(f[u-1], d, s, u, newest, eof)
  <2>1. f[0] = [st0 EXCEPT !.keep = Len(d)]
        /\ \A i \in 1..Len(d) : f[i] = ScanFrame(f[i-1], d, s, i, newest, eof)
    BY ScannedRuns
  <2>2. QED BY <2>1
<1>2. u - 1 \in 0..Len(d) /\ u \in 0..Len(d)
  OBVIOUS
<1>3. Walked(st, st0, d, base, s, u - 1)
  BY <1>2, ScanWalks
<1> HIDE DEF f
<1>4. f[u] = end
  BY <1>1, <1>3, FrameRejected
<1>5. end.verdict # "scanning"
  <2>1. st \in ScanState
    BY <1>3 DEF Walked
  <2>2. QED BY <2>1 DEF ScanState, TrimTail, Corruption
<1> HIDE DEF end, st
<1>6. f[Len(d)] = f[u]
  BY <1>2, <1>4, <1>5, ScanStops DEF f
<1>7. QED BY <1>3, <1>4, <1>6 DEF f, st, end

\* A segment with a successor is accepted if it is intact.
LEMMA SegmentScanned ==
  ASSUME NEW base \in Nat, NEW s \in Nat \ {0}, NEW d \in Seq(Frame),
         NEW st0, Ready(st0, base), NEW eof
  PROVE  LET end == ScanSegment(st0, d, s, FALSE, eof)
         IN  IF Intact(d, base)
             THEN /\ end \in ScanState /\ end.verdict = "scanning" /\ ~end.assembling
                  /\ end.lastSeq = LastSeqOf(d, base)
                  /\ Entered(end.index, st0.index, d, s, Len(d))
             ELSE end.verdict = "corrupt"
<1> DEFINE st == Scanned(st0, d, s, FALSE, eof)[Len(d)]
           end == ScanSegment(st0, d, s, FALSE, eof)
<1>1. end = IF st.verdict = "scanning" /\ st.assembling THEN Corruption(st) ELSE st
  BY DEF ScanSegment
<1>2. Len(d) \in 0..Len(d)
  OBVIOUS
<1>3. CASE Accepted(d, base, Len(d))
  <2>1. Walked(st, st0, d, base, s, Len(d))
    BY <1>2, <1>3, ScanWalks
  <2> HIDE DEF st, end
  <2>2. st \in ScanState /\ st.verdict = "scanning"
    BY <2>1 DEF Walked
  <2>3. CASE Complete(d, Len(d))
    <3>1. Intact(d, base)
      BY <1>3, <2>3 DEF Intact, Accepted
    <3>2. ~st.assembling
      BY <2>1, <2>3 DEF Walked
    <3>3. st.lastSeq = LastSeqOf(d, base)
      <4>1. st.lastSeq = (IF Len(d) = 0 THEN base ELSE d[Len(d)].seq)
        BY <2>1, <3>2 DEF Walked
      <4>2. d = <<>> <=> Len(d) = 0
        OBVIOUS
      <4>3. QED BY <4>1, <4>2 DEF LastSeqOf
    <3>4. Entered(st.index, st0.index, d, s, Len(d))
      BY <2>1, <3>2 DEF Walked
    <3>5. end = st
      BY <1>1, <3>2
    <3>6. QED BY <2>2, <3>1, <3>2, <3>3, <3>4, <3>5 DEF end
  <2>4. CASE ~Complete(d, Len(d))
    <3>1. ~Intact(d, base) /\ st.assembling
      BY <2>1, <2>4 DEF Intact, Walked
    <3>2. end = Corruption(st)
      BY <1>1, <2>2, <3>1
    <3>3. end.verdict = "corrupt"
      BY <2>2, <3>2 DEF ScanState, Corruption
    <3>4. QED BY <3>1, <3>3 DEF end
  <2>5. QED BY <2>3, <2>4
<1>4. CASE ~Accepted(d, base, Len(d))
  <2>1. PICK u \in 1..Len(d) : Accepted(d, base, u - 1) /\ ~Accepts(d, base, u)
    BY <1>2, <1>4, FirstRejected
  <2> DEFINE x == Scanned(st0, d, s, FALSE, eof)[u-1]
  <2>2. Walked(x, st0, d, base, s, u - 1) /\ st = Corruption(x)
    <3>1. PICK newest : newest = FALSE
      OBVIOUS
    <3> DEFINE y == Scanned(st0, d, s, newest, eof)
    <3>2. /\ Walked(y[u-1], st0, d, base, s, u - 1)
          /\ y[Len(d)] = IF newest /\ TailError(d, u, eof) THEN TrimTail(y[u-1], u)
                         ELSE Corruption(y[u-1])
      BY <2>1, ScanEnds
    <3>3. x = y[u-1] /\ st = y[Len(d)]
      BY <3>1
    <3> HIDE DEF x, st, y
    <3>4. QED BY <3>1, <3>2, <3>3
  <2> HIDE DEF x, st, end
  <2>3. st.verdict = "corrupt"
    BY <2>2 DEF Walked, ScanState, Corruption
  <2>4. end = st
    BY <1>1, <2>3
  <2>5. ~Intact(d, base)
    BY <1>4 DEF Intact, Accepted
  <2>6. QED BY <2>3, <2>4, <2>5 DEF end
<1>5. QED BY <1>3, <1>4

\* The newest segment is refused where a frame is neither accepted nor a torn tail, or its
\* scan keeps what it may keep.
LEMMA NewestScanned ==
  ASSUME NEW base \in Nat, NEW s \in Nat \ {0}, NEW d \in Seq(Frame),
         NEW st0, Ready(st0, base), NEW eof \in BOOLEAN
  PROVE  LET r == DropUnfinished(ScanSegment(st0, d, s, TRUE, eof))
         IN  /\ r.verdict = "corrupt" <=>
                  \E u \in 1..Len(d) : /\ Accepted(d, base, u - 1) /\ ~Accepts(d, base, u)
                                       /\ ~TailError(d, u, eof)
             /\ r.verdict # "corrupt" =>
                  /\ r.keep \in 0..Len(d) /\ ScanKeeps(d, base, r.keep)
                  /\ r.lastSeq = LastSeqOf(SubSeq(d, 1, r.keep), base)
                  /\ r.index \in UNION {[Q -> Location] : Q \in SUBSET Nat}
                  /\ Entered(r.index, st0.index, d, s, r.keep)
<1> DEFINE st == Scanned(st0, d, s, TRUE, eof)[Len(d)]
           r == DropUnfinished(st)
           Bad(u) == Accepted(d, base, u - 1) /\ ~Accepts(d, base, u) /\ ~TailError(d, u, eof)
           Kept == /\ r.keep \in 0..Len(d) /\ ScanKeeps(d, base, r.keep)
                   /\ r.lastSeq = LastSeqOf(SubSeq(d, 1, r.keep), base)
                   /\ r.index \in UNION {[Q -> Location] : Q \in SUBSET Nat}
                   /\ Entered(r.index, st0.index, d, s, r.keep)
<1>1. ScanSegment(st0, d, s, TRUE, eof) = st
  BY DEF ScanSegment
<1>2. Len(d) \in 0..Len(d)
  OBVIOUS
<1>3. CASE Accepted(d, base, Len(d))
  <2>1. Walked(st, st0, d, base, s, Len(d))
    BY <1>2, <1>3, ScanWalks
  <2> HIDE DEF st
  <2>2. st \in ScanState /\ st.verdict = "scanning" /\ st.keep = Len(d)
    BY <2>1 DEF Walked
  <2> DEFINE k == IF st.assembling THEN st.start ELSE Len(d)
  <2>3. /\ k \in 0..Len(d) /\ ScanKeeps(d, base, k)
        /\ st.lastSeq = LastSeqOf(SubSeq(d, 1, k), base)
        /\ Entered(st.index, st0.index, d, s, k)
    BY <1>2, <1>3, <2>1, WalkKeeps
  <2>4. r.verdict # "corrupt" /\ r.keep = k /\ r.lastSeq = st.lastSeq /\ r.index = st.index
    <3>1. CASE st.assembling
      <4>1. st.lastSeq = st.seq - 1
        BY <2>1, <3>1 DEF Walked, Opened
      <4>2. r = [st EXCEPT !.verdict = "trimmed", !.keep = st.start, !.lastSeq = st.seq - 1]
        BY <2>2, <3>1 DEF DropUnfinished
      <4> HIDE DEF r
      <4>3. QED BY <2>2, <3>1, <4>1, <4>2 DEF ScanState
    <3>2. CASE ~st.assembling
      BY <2>2, <3>2 DEF DropUnfinished
    <3>3. QED BY <3>1, <3>2
  <2>5. st.index \in UNION {[Q -> Location] : Q \in SUBSET Nat}
    BY <2>2 DEF ScanState
  <2> HIDE DEF r, k
  <2>6. Kept
    BY <2>3, <2>4, <2>5
  <2>7. \A u \in 1..Len(d) : ~Bad(u)
    BY <1>3 DEF Accepted
  <2>8. QED BY <1>1, <2>4, <2>6, <2>7 DEF r
<1>4. CASE ~Accepted(d, base, Len(d))
  <2>1. PICK u \in 1..Len(d) : Accepted(d, base, u - 1) /\ ~Accepts(d, base, u)
    BY <1>2, <1>4, FirstRejected
  <2> DEFINE x == Scanned(st0, d, s, TRUE, eof)[u-1]
  <2>2. Walked(x, st0, d, base, s, u - 1)
        /\ st = IF TailError(d, u, eof) THEN TrimTail(x, u) ELSE Corruption(x)
    <3>1. PICK newest : newest = TRUE
      OBVIOUS
    <3> DEFINE y == Scanned(st0, d, s, newest, eof)
    <3>2. /\ Walked(y[u-1], st0, d, base, s, u - 1)
          /\ y[Len(d)] = IF newest /\ TailError(d, u, eof) THEN TrimTail(y[u-1], u)
                         ELSE Corruption(y[u-1])
      BY <2>1, ScanEnds
    <3>3. x = y[u-1] /\ st = y[Len(d)]
      BY <3>1
    <3> HIDE DEF x, st, y
    <3>4. QED BY <3>1, <3>2, <3>3
  <2> HIDE DEF x, st
  <2>3. x \in ScanState
    BY <2>2 DEF Walked
  <2>4. CASE TailError(d, u, eof)
    <3>1. st = TrimTail(x, u)
      BY <2>2, <2>4
    <3> DEFINE k == IF x.assembling THEN x.start ELSE u - 1
    <3>2. /\ st.verdict = "trimmed" /\ st.keep = k /\ st.lastSeq = x.lastSeq
          /\ st.index = x.index
      BY <2>3, <3>1 DEF ScanState, TrimTail
    <3>3. r = st
      BY <3>2 DEF DropUnfinished
    <3>4. u - 1 \in 0..Len(d) /\ (u - 1) + 1 = u /\ d[u].kind = "torn"
      BY <2>4 DEF TailError
    <3>5. /\ k \in 0..Len(d) /\ ScanKeeps(d, base, k)
          /\ x.lastSeq = LastSeqOf(SubSeq(d, 1, k), base)
          /\ Entered(x.index, st0.index, d, s, k)
      BY <2>1, <2>2, <3>4, WalkKeeps
    <3>6. x.index \in UNION {[Q -> Location] : Q \in SUBSET Nat}
      BY <2>3 DEF ScanState
    <3> HIDE DEF k, r
    <3>7. Kept /\ r.verdict # "corrupt"
      BY <3>2, <3>3, <3>5, <3>6
    <3>8. ASSUME NEW v \in 1..Len(d), Bad(v) PROVE FALSE
      <4>1. u = v
        BY <2>1, <3>8, OneRejected
      <4>2. QED BY <2>4, <3>8, <4>1
    <3>9. QED BY <1>1, <3>7, <3>8 DEF r
  <2>5. CASE ~TailError(d, u, eof)
    <3>1. st = Corruption(x)
      BY <2>2, <2>5
    <3>2. st.verdict = "corrupt"
      BY <2>3, <3>1 DEF ScanState, Corruption
    <3>3. r.verdict = "corrupt"
      BY <3>2 DEF DropUnfinished
    <3>4. Bad(u)
      BY <2>1, <2>5
    <3> HIDE DEF r
    <3>5. QED BY <1>1, <3>3, <3>4 DEF r
  <2>6. QED BY <2>4, <2>5
<1>5. QED BY <1>3, <1>4

-------------------------------------------------------------------------------
(* The loop over the directory.                                             *)

SegmentFiles(files) ==
  DOMAIN files \subseteq Nat \ {0} /\ \A s \in DOMAIN files : files[s] \in Seq(Frame)

\* The segments in front of s are intact and lead up to it.
LinkedTo(files, s) ==
  \A r, t \in DOMAIN files : Adjacent(DOMAIN files, r, t) /\ t <= s =>
    /\ Intact(files[r], r - 1)
    /\ LastSeqOf(files[r], r - 1) + 1 = t

\* The index holds the records of the segments in T, where they lie, and no other.
Covers(index, files, T) ==
  /\ DOMAIN index = UNION {{files[r][i].seq : i \in 1..Len(files[r])} : r \in T}
  /\ \A r \in T : \A i \in 1..Len(files[r]) :
       LET loc == index[files[r][i].seq]
       IN  loc.seg = r /\ LiesAt(files[r], files[r][i].seq, loc)

\* What a segment in front of s holds: accepted frames of its own sequences, all below s.
Below(files, r, s) ==
  /\ Accepted(files[r], r - 1, Len(files[r]))
  /\ \A i \in 1..Len(files[r]) : r <= files[r][i].seq /\ files[r][i].seq < s

\* An intact segment ends with the largest of its sequences.
LEMMA IntactBelow ==
  ASSUME NEW files, SegmentFiles(files), NEW r \in DOMAIN files, Intact(files[r], r - 1),
         NEW s \in Nat, LastSeqOf(files[r], r - 1) < s
  PROVE  Below(files, r, s)
<1> DEFINE d == files[r]
           n == Len(d)
<1>1. r \in Nat \ {0} /\ r - 1 \in Nat /\ d \in Seq(Frame) /\ n \in Nat /\ n \in 0..Len(d)
  BY DEF SegmentFiles
<1>2. Accepted(d, r - 1, n)
  BY DEF Intact, Accepted
<1>3. Apart(d, n) /\ \A j \in 1..n : r - 1 < d[j].seq
  BY <1>1, <1>2, AcceptedApart
<1>4. ASSUME NEW i \in 1..n PROVE r <= d[i].seq /\ d[i].seq < s
  <2>1. n \in 1..n /\ i \in 1..n /\ d # <<>>
    BY <1>1
  <2>2. d[i].seq \in Nat /\ d[n].seq \in Nat
    BY <1>1, <2>1, FrameTypes
  <2>3. d[i].seq <= d[n].seq
    BY <1>3, <2>1 DEF Apart
  <2>4. d[n].seq < s
    BY <2>1 DEF LastSeqOf
  <2>5. QED BY <1>1, <1>3, <2>2, <2>3, <2>4
<1>5. QED BY <1>2, <1>4 DEF Below

\* Linked segments hold disjoint ranges of sequences.
LEMMA LinkedBelow ==
  ASSUME NEW files, SegmentFiles(files)
  PROVE  \A s \in DOMAIN files : LinkedTo(files, s) =>
           \A r \in DOMAIN files : r < s => Below(files, r, s)
<1> DEFINE S == DOMAIN files
           P(s) == \A r \in S : r < s => Below(files, r, s)
           T == {s \in S : LinkedTo(files, s) /\ ~P(s)}
<1>1. S \subseteq Nat /\ \A s \in S : s \in Nat \ {0}
  BY DEF SegmentFiles
<1>2. T = {}
  <2>1. SUFFICES ASSUME T # {} PROVE FALSE
    OBVIOUS
  <2>2. PICK s \in T : \A t \in T : s <= t
    <3>1. T \subseteq Nat
      BY <1>1
    <3>2. QED BY <2>1, <3>1, Least
  <2>3. s \in S /\ LinkedTo(files, s) /\ ~P(s)
    BY <2>2
  <2>4. ~Oldest(S, s)
    <3>1. SUFFICES ASSUME Oldest(S, s) PROVE FALSE
      OBVIOUS
    <3>2. \A r \in S : ~(r < s)
      BY <1>1, <2>3, <3>1 DEF Oldest
    <3>3. QED BY <2>3, <3>2
  <2>5. PICK p \in S : Adjacent(S, p, s)
    BY <1>1, <2>3, <2>4, Predecessor
  <2>6. p < s /\ p \in Nat /\ s \in Nat /\ Intact(files[p], p - 1)
        /\ LastSeqOf(files[p], p - 1) + 1 = s
    BY <1>1, <2>3, <2>5 DEF LinkedTo, Adjacent
  <2>7. P(p)
    <3>1. LinkedTo(files, p)
      <4>1. \A t \in S : t <= p => t <= s
        BY <1>1, <2>3, <2>6
      <4>2. QED BY <2>3, <4>1 DEF LinkedTo
    <3>2. p \notin T
      <4> HIDE DEF T
      <4>1. QED BY <2>2, <2>6
    <3> HIDE DEF P
    <3>3. QED BY <3>1, <3>2
  <2>8. Below(files, p, s)
    <3>1. LastSeqOf(files[p], p - 1) < s
      <4>1. LastSeqOf(files[p], p - 1) \in Nat
        <5>1. files[p] \in Seq(Frame)
          BY DEF SegmentFiles
        <5>2. CASE files[p] = <<>>
          BY <1>1, <5>2 DEF LastSeqOf
        <5>3. CASE files[p] # <<>>
          <6>1. Len(files[p]) \in 1..Len(files[p])
            BY <5>1, <5>3
          <6>2. QED BY <5>1, <5>3, <6>1, FrameTypes DEF LastSeqOf
        <5>4. QED BY <5>2, <5>3
      <4>2. QED BY <2>6, <4>1
    <3>2. QED BY <2>6, <3>1, IntactBelow
  <2>9. ASSUME NEW r \in S, r < s PROVE Below(files, r, s)
    <3>1. r \in Nat /\ (r = p \/ r < p)
      BY <1>1, <2>5, <2>6, <2>9 DEF Adjacent
    <3>2. CASE r < p
      <4>1. Below(files, r, p)
        BY <2>7, <3>2
      <4>2. \A i \in 1..Len(files[r]) : files[r][i].seq \in Nat
        BY FrameTypes DEF SegmentFiles
      <4>3. QED BY <2>6, <4>1, <4>2 DEF Below
    <3>3. QED BY <2>8, <3>1, <3>2
  <2>10. QED BY <2>3, <2>9
<1>3. QED BY <1>2

\* What the scan of one more segment adds to the index; gs holds what is kept of it.
LEMMA CoversMore ==
  ASSUME NEW files, NEW gs, NEW T, NEW s, NEW d, NEW n \in Nat, NEW old,
         NEW index \in UNION {[Q -> Location] : Q \in SUBSET Nat},
         Covers(old, files, T), Entered(index, old, d, s, n),
         \A r \in T : gs[r] = files[r],
         gs[s] \in Seq(Frame), Len(gs[s]) = n, \A i \in 1..n : gs[s][i] = d[i]
  PROVE  Covers(index, gs, T \cup {s})
<1> DEFINE Seqs(g, r) == {g[r][i].seq : i \in 1..Len(g[r])}
<1>1. DOMAIN index = UNION {Seqs(gs, r) : r \in T \cup {s}}
  <2>1. DOMAIN old = UNION {Seqs(files, r) : r \in T}
    BY DEF Covers
  <2>2. DOMAIN index = DOMAIN old \cup {d[j].seq : j \in 1..n}
    BY DEF Entered
  <2>3. {d[j].seq : j \in 1..n} = Seqs(gs, s)
    OBVIOUS
  <2>4. \A r \in T : Seqs(gs, r) = Seqs(files, r)
    OBVIOUS
  <2> HIDE DEF Seqs
  <2>5. QED BY <2>1, <2>2, <2>3, <2>4
<1>2. ASSUME NEW r \in T, NEW i \in 1..Len(gs[r])
      PROVE  LET loc == index[gs[r][i].seq]
             IN  loc.seg = r /\ LiesAt(gs[r], gs[r][i].seq, loc)
  <2>1. gs[r] = files[r]
    OBVIOUS
  <2>2. files[r][i].seq \in DOMAIN old
    BY <2>1 DEF Covers
  <2>3. index[files[r][i].seq] = old[files[r][i].seq]
    BY <2>2 DEF Entered
  <2>4. LET loc == old[files[r][i].seq]
        IN  loc.seg = r /\ LiesAt(files[r], files[r][i].seq, loc)
    BY <2>1 DEF Covers
  <2>5. QED BY <2>1, <2>3, <2>4
<1>3. ASSUME NEW i \in 1..n
      PROVE  LET loc == index[gs[s][i].seq]
             IN  loc.seg = s /\ LiesAt(gs[s], gs[s][i].seq, loc)
  <2> DEFINE q == d[i].seq
             loc == index[q]
  <2>1. gs[s][i].seq = q
    OBVIOUS
  <2>2. loc.seg = s /\ loc.off + loc.n <= n /\ LiesAt(d, q, loc) /\ q \in DOMAIN index
    BY DEF Entered
  <2>3. loc \in Location
    <3>1. PICK Q \in SUBSET Nat : index \in [Q -> Location]
      OBVIOUS
    <3> HIDE DEF q
    <3>2. QED BY <2>2, <3>1
  <2>4. loc.off \in Nat /\ loc.n \in Nat \ {0}
    BY <2>3 DEF Location
  <2> HIDE DEF loc, q
  <2>5. loc.off + 1 \in 1..n /\ loc.off + loc.n \in 1..n
    BY <2>2, <2>4
  <2>6. LiesAt(gs[s], q, loc)
    BY <2>2, <2>5 DEF LiesAt
  <2>7. QED BY <2>1, <2>2, <2>6 DEF loc
<1>4. QED BY <1>1, <1>2, <1>3 DEF Covers

\* Linked up to its neighbour, a segment is linked if the neighbour leads to it.
LEMMA LinkedToNext ==
  ASSUME NEW files, SegmentFiles(files), NEW p, NEW s, Adjacent(DOMAIN files, p, s)
  PROVE  LinkedTo(files, s) <=> /\ LinkedTo(files, p) /\ Intact(files[p], p - 1)
                                /\ LastSeqOf(files[p], p - 1) + 1 = s
<1> DEFINE S == DOMAIN files
<1>1. p \in S /\ s \in S /\ p < s /\ \A r \in S : r \in Nat
  BY DEF Adjacent, SegmentFiles
<1>2. ASSUME LinkedTo(files, s)
      PROVE  /\ LinkedTo(files, p) /\ Intact(files[p], p - 1)
             /\ LastSeqOf(files[p], p - 1) + 1 = s
  <2>1. \A t \in S : t <= p => t <= s
    BY <1>1
  <2>2. s <= s
    BY <1>1
  <2>3. QED BY <1>1, <1>2, <2>1, <2>2 DEF LinkedTo
<1>3. ASSUME LinkedTo(files, p), Intact(files[p], p - 1), LastSeqOf(files[p], p - 1) + 1 = s
      PROVE  LinkedTo(files, s)
  <2>1. SUFFICES ASSUME NEW r \in S, NEW t \in S, Adjacent(S, r, t), t <= s
                 PROVE  Intact(files[r], r - 1) /\ LastSeqOf(files[r], r - 1) + 1 = t
    BY DEF LinkedTo
  <2>2. CASE t = s
    <3>1. r = p
      <4>1. ~(r < p) /\ ~(p < r)
        BY <1>1, <2>1, <2>2 DEF Adjacent
      <4>2. QED BY <1>1, <4>1
    <3>2. QED BY <1>3, <2>2, <3>1
  <2>3. CASE t # s
    <3>1. t < s /\ ~(p < t)
      BY <1>1, <2>1, <2>3 DEF Adjacent
    <3>2. t <= p
      BY <1>1, <3>1
    <3>3. QED BY <1>3, <2>1, <3>2 DEF LinkedTo
  <2>4. QED BY <2>2, <2>3
<1>4. QED BY <1>2, <1>3

\* The scan comes to a linked segment ready for its first record, and has indexed all that
\* lies in front; to one that is not linked it does not come.
LEMMA StatesReady ==
  ASSUME NEW files, SegmentFiles(files), NEW top, Newest(DOMAIN files, top), NEW eof
  PROVE  \A s \in DOMAIN files :
           IF LinkedTo(files, s)
           THEN /\ Ready(StateBefore(files, s, eof), s - 1)
                /\ Covers(StateBefore(files, s, eof).index, files, {r \in DOMAIN files : r < s})
           ELSE ScannedUpTo(files, eof)[s].verdict = "corrupt"
<1> DEFINE S == DOMAIN files
           In(s) == StateBefore(files, s, eof)
           Out(s) == ScannedUpTo(files, eof)[s]
           Front(s) == {r \in S : r < s}
           P(s) == IF LinkedTo(files, s)
                   THEN Ready(In(s), s - 1) /\ Covers(In(s).index, files, Front(s))
                   ELSE Out(s).verdict = "corrupt"
           T == {s \in S : ~P(s)}
<1>1. S \subseteq Nat /\ S \subseteq Nat \ {0} /\ \A s \in S : s \in Nat \ {0} /\ s - 1 \in Nat
  BY DEF SegmentFiles
<1>2. \A s \in S : files[s] \in Seq(Frame)
  BY DEF SegmentFiles
<1>3. \A s \in S : Out(s) = ScanNext(In(s), files, s, eof)
  BY <1>1, ScannedUpToRuns
<1>4. ASSUME NEW s \in S, Oldest(S, s) PROVE P(s)
  <2>1. \A r \in S : ~(r < s)
    BY <1>1, <1>4 DEF Oldest
  <2>2. LinkedTo(files, s)
    BY <1>1, <2>1 DEF LinkedTo, Adjacent
  <2>3. In(s) = StartState(s)
    BY <1>4 DEF StateBefore
  <2>4. <<>> \in [{} -> Location]
    OBVIOUS
  <2>5. Ready(StartState(s), s - 1)
    BY <1>1, <2>4 DEF Ready, StartState, ScanState
  <2>6. Front(s) = {} /\ In(s).index = <<>>
    BY <2>1, <2>3 DEF StartState
  <2>7. Covers(In(s).index, files, Front(s))
    BY <2>6 DEF Covers
  <2>8. QED BY <2>2, <2>3, <2>5, <2>7
<1>5. ASSUME NEW p \in S, NEW s \in S, Adjacent(S, p, s), In(s) = Out(p), P(p) PROVE P(s)
  <2>1. p < s /\ p \in Nat \ {0} /\ p - 1 \in Nat /\ s \in Nat \ {0} /\ files[p] \in Seq(Frame)
    BY <1>1, <1>2, <1>5 DEF Adjacent
  <2>2. LinkedTo(files, s) <=> /\ LinkedTo(files, p) /\ Intact(files[p], p - 1)
                               /\ LastSeqOf(files[p], p - 1) + 1 = s
    BY <1>5, LinkedToNext
  <2>3. Out(s) = ScanNext(In(s), files, s, eof)
    BY <1>3
  <2>4. Out(p) = ScanNext(In(p), files, p, eof)
    BY <1>3
  <2> DEFINE in == In(p)
             end == ScanSegment(in, files[p], p, FALSE, eof)
  <2> HIDE DEF In, Out
  <2>5. CASE ~LinkedTo(files, p)
    <3>1. In(s).verdict = "corrupt"
      BY <1>5, <2>5
    <3>2. Out(s) = In(s)
      BY <2>3, <3>1 DEF ScanNext
    <3>3. QED BY <2>2, <2>5, <3>1, <3>2
  <2>6. CASE LinkedTo(files, p)
    <3>1. Ready(in, p - 1) /\ Covers(in.index, files, Front(p))
      BY <1>5, <2>6
    <3>2. Out(p) = end
      <4>1. Newest(S, p) = FALSE
        BY <1>5, <2>1 DEF Newest
      <4>2. in.verdict = "scanning" /\ in.lastSeq = p - 1
        BY <3>1 DEF Ready
      <4>3. p = in.lastSeq + 1
        BY <2>1, <4>2
      <4> HIDE DEF in
      <4>4. Out(p) = ScanSegment(in, files[p], p, Newest(S, p), eof)
        BY <2>4, <4>2, <4>3 DEF ScanNext, in
      <4>5. QED BY <4>1, <4>4
    <3>3. IF Intact(files[p], p - 1)
          THEN /\ end \in ScanState /\ end.verdict = "scanning" /\ ~end.assembling
               /\ end.lastSeq = LastSeqOf(files[p], p - 1)
               /\ Entered(end.index, in.index, files[p], p, Len(files[p]))
          ELSE end.verdict = "corrupt"
      BY <2>1, <3>1, SegmentScanned
    <3> HIDE DEF in, end
    <3>4. CASE ~Intact(files[p], p - 1)
      <4>1. In(s).verdict = "corrupt"
        BY <1>5, <3>2, <3>3, <3>4
      <4>2. Out(s) = In(s)
        BY <2>3, <4>1 DEF ScanNext
      <4>3. QED BY <2>2, <3>4, <4>1, <4>2
    <3>5. CASE Intact(files[p], p - 1) /\ LastSeqOf(files[p], p - 1) + 1 # s
      <4>1. In(s) \in ScanState /\ In(s).verdict = "scanning" /\ s # In(s).lastSeq + 1
        BY <1>5, <3>2, <3>3, <3>5
      <4>2. Out(s) = Corruption(In(s))
        BY <2>3, <4>1 DEF ScanNext
      <4>3. Out(s).verdict = "corrupt"
        BY <4>1, <4>2 DEF Corruption, ScanState
      <4>4. QED BY <2>2, <3>5, <4>3
    <3>6. CASE Intact(files[p], p - 1) /\ LastSeqOf(files[p], p - 1) + 1 = s
      <4>1. LinkedTo(files, s)
        BY <2>2, <2>6, <3>6
      <4>2. /\ In(s) \in ScanState /\ In(s).verdict = "scanning" /\ ~In(s).assembling
            /\ In(s).lastSeq + 1 = s
            /\ Entered(In(s).index, in.index, files[p], p, Len(files[p]))
        BY <1>5, <3>2, <3>3, <3>6
      <4>3. In(s).lastSeq = s - 1
        BY <2>1, <4>2 DEF ScanState
      <4>4. In(s).index \in UNION {[Q -> Location] : Q \in SUBSET Nat}
        BY <4>2 DEF ScanState
      <4>5. Front(s) = Front(p) \cup {p}
        <5>1. \A r \in S : r \in Nat /\ (r < s <=> r < p \/ r = p)
          BY <1>1, <1>5, <2>1 DEF Adjacent
        <5>2. QED BY <5>1
      <4>6. Covers(In(s).index, files, Front(s))
        <5>1. Len(files[p]) \in Nat
          BY <2>1
        <5> HIDE DEF Front
        <5>2. QED BY <2>1, <3>1, <4>2, <4>4, <4>5, <5>1, CoversMore
      <4>7. \A q \in DOMAIN In(s).index : q <= s - 1
        <5>1. SUFFICES ASSUME NEW q \in DOMAIN In(s).index PROVE q <= s - 1
          OBVIOUS
        <5>2. PICK r \in Front(s) : q \in {files[r][i].seq : i \in 1..Len(files[r])}
          BY <4>6 DEF Covers
        <5>3. PICK i \in 1..Len(files[r]) : q = files[r][i].seq
          BY <5>2
        <5>4. Below(files, r, s)
          BY <4>1, LinkedBelow
        <5>5. q < s /\ q \in Nat
          <6>1. files[r] \in Seq(Frame)
            BY <1>2
          <6>2. QED BY <5>3, <5>4, <6>1, FrameTypes DEF Below
        <5>6. QED BY <2>1, <5>5
      <4>8. Ready(In(s), s - 1)
        BY <4>2, <4>3, <4>7 DEF Ready
      <4>9. QED BY <4>1, <4>6, <4>8
    <3>7. QED BY <3>4, <3>5, <3>6
  <2>7. QED BY <2>5, <2>6
<1> HIDE DEF P
<1>6. T = {}
  <2>1. SUFFICES ASSUME T # {} PROVE FALSE
    OBVIOUS
  <2>2. PICK s \in T : \A t \in T : s <= t
    <3>1. T \subseteq Nat
      BY <1>1
    <3>2. QED BY <2>1, <3>1, Least
  <2>3. s \in S /\ ~P(s)
    BY <2>2
  <2>4. ~Oldest(S, s)
    BY <1>4, <2>3
  <2> DEFINE p == CHOOSE r \in S : Adjacent(S, r, s)
  <2>5. p \in S /\ Adjacent(S, p, s)
    <3>1. \E r \in S : Adjacent(S, r, s)
      BY <1>1, <2>3, <2>4, Predecessor
    <3>2. QED BY <3>1
  <2>6. In(s) = Out(p)
    BY <2>4 DEF StateBefore
  <2> HIDE DEF p, In, Out
  <2>7. p \notin T
    <3>1. p < s /\ p \in Nat /\ s \in Nat
      BY <1>1, <2>3, <2>5 DEF Adjacent
    <3> HIDE DEF T
    <3>2. QED BY <2>2, <3>1
  <2>8. P(s)
    BY <1>5, <2>3, <2>5, <2>6, <2>7
  <2>9. QED BY <2>3, <2>8
<1>7. QED BY <1>6 DEF P

\* An index that holds every record where it lies is the index of the directory: no record
\* lies in two places.
LEMMA CoversIsIndex ==
  ASSUME NEW files, SegmentFiles(files),
         \A r \in DOMAIN files : Accepted(files[r], r - 1, Len(files[r])),
         \A r, s \in DOMAIN files : r < s => Below(files, r, s),
         NEW index \in UNION {[Q -> Location] : Q \in SUBSET Nat},
         Covers(index, files, DOMAIN files)
  PROVE  index = IndexOf(files)
<1> DEFINE S == DOMAIN files
           At(q, loc) == LiesAt(files[loc.seg], q, loc)
           D == UNION {{files[s][i].seq : i \in 1..Len(files[s])} : s \in S}
<1>1. \A r \in S : r \in Nat \ {0} /\ r - 1 \in Nat /\ files[r] \in Seq(Frame) /\ Len(files[r]) \in Nat
  BY DEF SegmentFiles
<1>2. index = [q \in D |-> index[q]]
  <2>1. DOMAIN index = D
    BY DEF Covers
  <2>2. PICK Q \in SUBSET Nat : index \in [Q -> Location]
    OBVIOUS
  <2> HIDE DEF D
  <2>3. QED BY <2>1, <2>2
<1>3. ASSUME NEW q \in D PROVE index[q] = CHOOSE loc \in Places(files) : At(q, loc)
  <2>1. PICK r \in S : q \in {files[r][i].seq : i \in 1..Len(files[r])}
    OBVIOUS
  <2>2. PICK i \in 1..Len(files[r]) : q = files[r][i].seq
    BY <2>1
  <2> DEFINE l == index[q]
  <2>3. l.seg = r /\ LiesAt(files[r], q, l)
    BY <2>2 DEF Covers
  <2>4. l \in Location
    <3>1. q \in DOMAIN index
      BY <1>2
    <3>2. PICK Q \in SUBSET Nat : index \in [Q -> Location]
      OBVIOUS
    <3>3. QED BY <3>1, <3>2
  <2> HIDE DEF l, D
  <2>5. /\ l.off \in Nat /\ l.n \in Nat \ {0}
        /\ l = [seg |-> l.seg, off |-> l.off, n |-> l.n]
    BY <2>4 DEF Location
  <2>6. l \in Places(files)
    <3>1. l.off + l.n <= Len(files[r])
      BY <2>3 DEF LiesAt
    <3>2. l.off \in 0..Len(files[r]) /\ l.n \in 0..Len(files[r])
      BY <1>1, <2>5, <3>1
    <3>3. l.off \in Offsets(files) /\ l.n \in Offsets(files)
      BY <3>2 DEF Offsets
    <3>4. QED BY <2>3, <2>5, <3>3 DEF Places
  <2>7. ASSUME NEW m \in Places(files), At(q, m) PROVE m = l
    <3>1. /\ m.seg \in S /\ m.off \in Offsets(files) /\ m.n \in Offsets(files) \ {0}
          /\ m = [seg |-> m.seg, off |-> m.off, n |-> m.n]
      BY DEF Places
    <3>2. m.off \in Nat /\ m.n \in Nat \ {0}
      BY <1>1, <3>1 DEF Offsets
    <3> DEFINE t == m.seg
    <3>3. LiesAt(files[t], q, m)
      BY <2>7
    <3>4. m.off + 1 \in 1..Len(files[t]) /\ files[t][m.off + 1].seq = q
      <4>1. m.off + m.n <= Len(files[t])
        BY <3>3 DEF LiesAt
      <4>2. QED BY <1>1, <3>1, <3>2, <3>3, <4>1 DEF LiesAt
    <3> HIDE DEF t
    <3>5. t \in S
      BY <3>1 DEF t
    <3>6. t - 1 < q /\ r - 1 < q /\ q \in Nat
      <4>1. Len(files[t]) \in 0..Len(files[t]) /\ Len(files[r]) \in 0..Len(files[r])
        BY <1>1, <3>5
      <4>2. t - 1 < q
        BY <1>1, <3>4, <3>5, <4>1, AcceptedApart
      <4>3. r - 1 < q
        BY <1>1, <2>2, <4>1, AcceptedApart
      <4>4. QED BY <1>1, <2>2, <4>2, <4>3, FrameTypes
    <3>7. ~(r < t)
      <4>1. SUFFICES ASSUME r < t PROVE FALSE
        OBVIOUS
      <4>2. q < t
        BY <2>2, <3>5, <4>1 DEF Below
      <4>3. QED BY <1>1, <3>5, <3>6, <4>2
    <3>8. ~(t < r)
      <4>1. SUFFICES ASSUME t < r PROVE FALSE
        OBVIOUS
      <4>2. q < r
        BY <3>4, <3>5, <4>1 DEF Below
      <4>3. QED BY <1>1, <3>6, <4>2
    <3>9. t = r
      BY <1>1, <3>5, <3>7, <3>8
    <3>10. Apart(files[r], Len(files[r]))
      <4>1. Len(files[r]) \in 0..Len(files[r])
        BY <1>1
      <4>2. QED BY <1>1, <4>1, AcceptedApart
    <3>11. LiesAt(files[r], q, m)
      BY <3>3, <3>9 DEF t
    <3>12. m.off = l.off /\ m.n = l.n
      BY <1>1, <2>3, <2>5, <3>2, <3>10, <3>11, SamePlace
    <3>13. QED BY <2>3, <2>5, <3>1, <3>9, <3>12 DEF t
  <2>8. At(q, l)
    BY <2>3
  <2> HIDE DEF At
  <2>9. QED BY <2>6, <2>7, <2>8 DEF l
<1>4. IndexOf(files) = [q \in D |-> CHOOSE loc \in Places(files) : At(q, loc)]
  BY DEF IndexOf
<1> HIDE DEF D, At
<1>5. QED BY <1>2, <1>3, <1>4

\* The scan of a whole directory, for either reading of a torn frame.
LEMMA DirectoryScanned ==
  ASSUME NEW files, SegmentFiles(files), NEW top, Newest(DOMAIN files, top),
         NEW eof \in BOOLEAN
  PROVE  LET r == ScanDirectory(files, eof)
             d == files[top]
         IN  IF Linked(files)
             THEN /\ r.verdict = "corrupt" <=>
                       \E u \in 1..Len(d) : /\ Accepted(d, top - 1, u - 1)
                                            /\ ~Accepts(d, top - 1, u)
                                            /\ ~TailError(d, u, eof)
                  /\ r.verdict # "corrupt" =>
                       /\ r.keep \in 0..Len(d) /\ ScanKeeps(d, top - 1, r.keep)
                       /\ r.lastSeq = LastSeqOf(SubSeq(d, 1, r.keep), top - 1)
                       /\ r.index \in UNION {[Q -> Location] : Q \in SUBSET Nat}
                       /\ r.index = IndexOf([files EXCEPT ![top] = SubSeq(d, 1, r.keep)])
             ELSE r.verdict = "corrupt"
<1> DEFINE S == DOMAIN files
           d == files[top]
           out == ScannedUpTo(files, eof)[top]
           in == StateBefore(files, top, eof)
           r == ScanDirectory(files, eof)
<1>1. /\ top \in S /\ top \in Nat \ {0} /\ top - 1 \in Nat /\ d \in Seq(Frame)
      /\ \A s \in S : s \in Nat /\ s <= top
  BY DEF Newest, SegmentFiles
<1>2. (CHOOSE s \in S : Newest(S, s)) = top
  <2>1. ASSUME NEW s \in S, Newest(S, s) PROVE s = top
    <3>1. s <= top /\ top <= s
      BY <1>1, <2>1 DEF Newest
    <3>2. QED BY <1>1, <3>1
  <2>2. QED BY <1>1, <2>1
<1>3. r = DropUnfinished(out)
  BY <1>2 DEF ScanDirectory
<1>4. Linked(files) <=> LinkedTo(files, top)
  <2>1. \A t \in S : t <= top
    BY <1>1
  <2>2. QED BY <2>1 DEF Linked, LinkedTo
<1>5. IF LinkedTo(files, top)
      THEN Ready(in, top - 1) /\ Covers(in.index, files, {s \in S : s < top})
      ELSE out.verdict = "corrupt"
  BY <1>1, StatesReady
<1>6. out = ScanNext(in, files, top, eof)
  BY <1>1, ScannedUpToRuns DEF SegmentFiles
<1>7. CASE ~Linked(files)
  <2>1. out.verdict = "corrupt"
    BY <1>4, <1>5, <1>7
  <2> HIDE DEF out
  <2>2. r.verdict = "corrupt"
    BY <1>3, <2>1 DEF DropUnfinished
  <2> HIDE DEF r
  <2>3. QED BY <1>7, <2>2 DEF r
<1>8. CASE Linked(files)
  <2>1. Ready(in, top - 1) /\ Covers(in.index, files, {s \in S : s < top})
    BY <1>4, <1>5, <1>8
  <2> HIDE DEF in
  <2>2. out = ScanSegment(in, d, top, TRUE, eof)
    <3>1. in.verdict = "scanning" /\ in.lastSeq = top - 1
      BY <2>1 DEF Ready
    <3>2. top = in.lastSeq + 1
      BY <1>1, <3>1
    <3> HIDE DEF out
    <3>3. out = ScanSegment(in, d, top, Newest(S, top), eof)
      BY <1>6, <3>1, <3>2 DEF ScanNext
    <3>4. Newest(S, top) = TRUE
      OBVIOUS
    <3>5. QED BY <3>3, <3>4
  <2> DEFINE Bad == \E u \in 1..Len(d) : /\ Accepted(d, top - 1, u - 1)
                                         /\ ~Accepts(d, top - 1, u)
                                         /\ ~TailError(d, u, eof)
             n == r.keep
             e == SubSeq(d, 1, n)
             gs == [files EXCEPT ![top] = e]
  <2> HIDE DEF out, r
  <2>3. /\ r.verdict = "corrupt" <=> Bad
        /\ r.verdict # "corrupt" =>
             /\ r.keep \in 0..Len(d) /\ ScanKeeps(d, top - 1, r.keep)
             /\ r.lastSeq = LastSeqOf(SubSeq(d, 1, r.keep), top - 1)
             /\ r.index \in UNION {[Q -> Location] : Q \in SUBSET Nat}
             /\ Entered(r.index, in.index, d, top, r.keep)
    <3> DEFINE x == DropUnfinished(ScanSegment(in, d, top, TRUE, eof))
    <3>1. /\ x.verdict = "corrupt" <=> Bad
          /\ x.verdict # "corrupt" =>
               /\ x.keep \in 0..Len(d) /\ ScanKeeps(d, top - 1, x.keep)
               /\ x.lastSeq = LastSeqOf(SubSeq(d, 1, x.keep), top - 1)
               /\ x.index \in UNION {[Q -> Location] : Q \in SUBSET Nat}
               /\ Entered(x.index, in.index, d, top, x.keep)
      <4>1. d \in Seq(Frame) /\ top - 1 \in Nat /\ top \in Nat \ {0}
        BY <1>1
      <4> DEFINE base == top - 1
      <4>2. base \in Nat /\ Ready(in, base)
        BY <2>1, <4>1
      <4> HIDE DEF d, base
      <4>3. /\ x.verdict = "corrupt" <=>
                 \E u \in 1..Len(d) : /\ Accepted(d, base, u - 1) /\ ~Accepts(d, base, u)
                                      /\ ~TailError(d, u, eof)
            /\ x.verdict # "corrupt" =>
                 /\ x.keep \in 0..Len(d) /\ ScanKeeps(d, base, x.keep)
                 /\ x.lastSeq = LastSeqOf(SubSeq(d, 1, x.keep), base)
                 /\ x.index \in UNION {[Q -> Location] : Q \in SUBSET Nat}
                 /\ Entered(x.index, in.index, d, top, x.keep)
        BY <4>1, <4>2, NewestScanned
      <4> HIDE DEF x
      <4>4. QED BY <4>3 DEF d, base
    <3>2. r = x
      BY <1>3, <2>2
    <3> HIDE DEF x, Bad
    <3>3. QED BY <3>1, <3>2
  <2>4. ASSUME r.verdict # "corrupt" PROVE r.index = IndexOf(gs)
    <3>1. /\ n \in 0..Len(d) /\ ScanKeeps(d, top - 1, n)
          /\ r.index \in UNION {[Q -> Location] : Q \in SUBSET Nat}
          /\ Entered(r.index, in.index, d, top, n)
      BY <2>3, <2>4
    <3> HIDE DEF n
    <3>2. e \in Seq(Frame) /\ Len(e) = n /\ \A i \in 1..n : e[i] = d[i]
      <4>1. 1 \in 1..Len(d) + 1 /\ n \in 1-1..Len(d)
        BY <3>1
      <4>2. QED BY <1>1, <4>1, SubSeqProperties
    <3>3. Accepted(e, top - 1, Len(e))
      <4>1. \A i \in 1..n : Accepts(d, top - 1, i)
        BY <3>1 DEF ScanKeeps
      <4>2. \A i \in 1..n : Accepts(e, top - 1, i)
        <5>1. SUFFICES ASSUME NEW i \in 1..n PROVE Accepts(e, top - 1, i)
          OBVIOUS
        <5>2. i = 1 \/ i - 1 \in 1..n
          BY <3>1
        <5>3. e[i] = d[i] /\ (i # 1 => e[i-1] = d[i-1])
          BY <3>2, <5>2
        <5>4. Accepts(d, top - 1, i)
          BY <4>1
        <5> HIDE DEF e
        <5>5. QED BY <5>3, <5>4 DEF Accepts, Follows
      <4>3. QED BY <3>2, <4>2 DEF Accepted
    <3> HIDE DEF e
    <3>4. /\ DOMAIN gs = S /\ gs[top] = e
          /\ \A s \in S : s # top => gs[s] = files[s]
      BY <1>1
    <3> HIDE DEF gs
    <3>5. SegmentFiles(gs)
      BY <3>2, <3>4 DEF SegmentFiles
    <3>6. ASSUME NEW s \in S, NEW t \in S, s < t PROVE Below(gs, s, t)
      <4>1. s < top /\ s # top /\ t <= top
        BY <1>1, <3>6
      <4>2. LinkedTo(files, t)
        <5>1. \A u \in S : u <= t => u <= top
          BY <1>1
        <5>2. QED BY <1>4, <1>8, <5>1 DEF LinkedTo
      <4>3. Below(files, s, t)
        BY <3>6, <4>2, LinkedBelow
      <4>4. QED BY <3>4, <4>1, <4>3 DEF Below
    <3>7. \A s \in S : Accepted(gs[s], s - 1, Len(gs[s]))
      <4>1. ASSUME NEW s \in S, s # top PROVE Accepted(gs[s], s - 1, Len(gs[s]))
        <5>1. s < top
          BY <1>1, <4>1
        <5>2. Below(gs, s, top)
          BY <1>1, <3>6, <5>1
        <5>3. QED BY <5>2 DEF Below
      <4>2. QED BY <3>3, <3>4, <4>1
    <3>8. Covers(r.index, gs, {s \in S : s < top} \cup {top})
      <4>1. \A s \in {x \in S : x < top} : gs[s] = files[s]
        BY <1>1, <3>4
      <4>2. n \in Nat
        BY <3>1
      <4>3. QED BY <2>1, <3>1, <3>2, <3>4, <4>1, <4>2, CoversMore
    <3>9. {s \in S : s < top} \cup {top} = S
      <4>1. \A s \in S : s < top \/ s = top
        BY <1>1
      <4>2. QED BY <1>1, <4>1
    <3>10. QED BY <3>1, <3>4, <3>5, <3>6, <3>7, <3>8, <3>9, CoversIsIndex
  <2> HIDE DEF Bad
  <2>5. QED BY <1>8, <2>3, <2>4 DEF r, Bad
<1>9. QED BY <1>7, <1>8

\* The loops of the scan do what WalFormat says of their outcome, in every directory, torn,
\* corrupt or of foreign frames: they refuse it, or keep the same prefix of the newest
\* segment and build the same index and last sequence.
THEOREM LoopsAgree ==
  ASSUME NEW files, SegmentFiles(files), NEW top, Newest(DOMAIN files, top)
  PROVE  ScansAgree(files)
<1> DEFINE S == DOMAIN files
           d == files[top]
           base == top - 1
           r(eof) == ScanDirectory(files, eof)
           Bad(u, eof) == Accepted(d, base, u - 1) /\ ~Accepts(d, base, u) /\ ~TailError(d, u, eof)
           Kept(k) == SubSeq(d, 1, k)
           IndexKept(k) == IndexOf([files EXCEPT ![top] = Kept(k)])
<1>1. /\ top \in S /\ top \in Nat \ {0} /\ d \in Seq(Frame) /\ Len(d) \in Nat
      /\ \A s \in S : s \in Nat /\ s <= top
  BY DEF Newest, SegmentFiles
<1>2. \A s \in S : Newest(S, s) => s = top
  <2>1. ASSUME NEW s \in S, Newest(S, s) PROVE s = top
    <3>1. s <= top /\ top <= s
      BY <1>1, <2>1 DEF Newest
    <3>2. QED BY <1>1, <3>1
  <2>2. QED BY <2>1
<1>3. (CHOOSE s \in S : Newest(S, s)) = top
  BY <1>1, <1>2
<1>4. ASSUME Linked(files), NEW eof \in BOOLEAN
      PROVE  /\ r(eof).verdict = "corrupt" <=> \E u \in 1..Len(d) : Bad(u, eof)
             /\ r(eof).verdict # "corrupt" =>
                  /\ r(eof).keep \in 0..Len(d) /\ ScanKeeps(d, base, r(eof).keep)
                  /\ r(eof).lastSeq = LastSeqOf(Kept(r(eof).keep), base)
                  /\ r(eof).index = IndexKept(r(eof).keep)
  BY <1>4, DirectoryScanned
<1>5. ~Linked(files) => \A eof \in BOOLEAN : r(eof).verdict = "corrupt"
  BY DirectoryScanned
<1> HIDE DEF r
<1>6. Refuses(files) <=> \E eof \in BOOLEAN : r(eof).verdict = "corrupt"
  <2>1. CASE ~Linked(files)
    BY <1>5, <2>1 DEF Refuses
  <2>2. CASE Linked(files)
    <3>1. Refuses(files) <=> ScanRefuses(d, base)
      BY <1>1, <1>2, <2>2 DEF Refuses
    <3>2. ASSUME ScanRefuses(d, base) PROVE r(FALSE).verdict = "corrupt"
      <4>1. PICK e \in 1..Len(d) : /\ \A i \in 1..e-1 : Accepts(d, base, i)
                                   /\ ~Accepts(d, base, e)
                                   /\ d[e].kind = "torn" => e < Len(d)
        BY <3>2 DEF ScanRefuses
      <4>2. Bad(e, FALSE)
        BY <1>1, <4>1 DEF Accepted, TailError
      <4> HIDE DEF Bad
      <4>3. QED BY <1>4, <2>2, <4>2
    <3>3. ASSUME NEW eof \in BOOLEAN, r(eof).verdict = "corrupt" PROVE ScanRefuses(d, base)
      <4>1. PICK e \in 1..Len(d) : Bad(e, eof)
        BY <1>4, <2>2, <3>3
      <4>2. /\ \A i \in 1..e-1 : Accepts(d, base, i)
            /\ ~Accepts(d, base, e)
        BY <4>1 DEF Accepted
      <4>3. d[e].kind = "torn" => e < Len(d)
        BY <1>1, <4>1 DEF TailError
      <4>4. QED BY <4>2, <4>3 DEF ScanRefuses
    <3>4. QED BY <3>1, <3>2, <3>3
  <2>3. QED BY <2>1, <2>2
<1>7. ASSUME NEW k \in 0..Len(d)
      PROVE  Recovers(files, top, k) <=>
               \E eof \in BOOLEAN : r(eof).verdict # "corrupt" /\ r(eof).keep = k
  <2>1. CASE ~Linked(files)
    BY <1>5, <2>1 DEF Recovers
  <2>2. CASE Linked(files)
    <3>1. Recovers(files, top, k) <=> ScanKeeps(d, base, k)
      BY <2>2 DEF Recovers
    <3>2. ASSUME ScanKeeps(d, base, k) PROVE r(TRUE).verdict # "corrupt" /\ r(TRUE).keep = k
      <4>1. ASSUME NEW u \in 1..Len(d), Bad(u, TRUE) PROVE FALSE
        <5>1. PICK e \in k..Len(d) :
                /\ \A i \in k+1..e : Accepts(d, base, i) /\ ~FlagLast(d[i])
                /\ e < Len(d) => d[e+1].kind = "torn"
          BY <3>2 DEF ScanKeeps
        <5>2. \A i \in 1..k : Accepts(d, base, i)
          BY <3>2 DEF ScanKeeps
        <5>3. \A i \in 1..e : Accepts(d, base, i)
          <6>1. \A i \in 1..e : i \in 1..k \/ i \in k+1..e
            OBVIOUS
          <6>2. QED BY <5>1, <5>2, <6>1
        <5>4. ~Accepts(d, base, u) /\ \A i \in 1..u-1 : Accepts(d, base, i)
          BY <4>1 DEF Accepted
        <5>5. d[u].kind # "torn"
          BY <4>1 DEF TailError
        <5>6. e < u
          <6>1. u \notin 1..e
            BY <5>3, <5>4
          <6>2. QED BY <6>1
        <5>7. e + 1 \in 1..Len(d) /\ ~Accepts(d, base, e + 1)
          <6>1. e + 1 \in 1..Len(d) /\ e < Len(d)
            BY <5>6
          <6>2. d[e+1].kind = "torn"
            BY <5>1, <6>1
          <6>3. QED BY <6>1, <6>2 DEF Accepts
        <5>8. u = e + 1
          <6>1. e + 1 \notin 1..u-1
            BY <5>4, <5>7
          <6>2. QED BY <5>6, <6>1
        <5>9. QED BY <5>1, <5>5, <5>7, <5>8
      <4> HIDE DEF Bad
      <4>2. r(TRUE).verdict # "corrupt"
        BY <1>4, <2>2, <4>1
      <4>3. r(TRUE).keep \in 0..Len(d) /\ ScanKeeps(d, base, r(TRUE).keep)
        BY <1>4, <2>2, <4>2
      <4>4. ~(k < r(TRUE).keep) /\ ~(r(TRUE).keep < k)
        BY <1>1, <3>2, <4>3, KeepsOne
      <4> DEFINE m == r(TRUE).keep
      <4>5. m \in 0..Len(d) /\ ~(k < m) /\ ~(m < k)
        BY <4>3, <4>4
      <4> HIDE DEF m
      <4>6. m = k
        BY <1>1, <4>5
      <4>7. QED BY <4>2, <4>6 DEF m
    <3>3. ASSUME NEW eof \in BOOLEAN, r(eof).verdict # "corrupt", r(eof).keep = k
          PROVE  ScanKeeps(d, base, k)
      BY <1>4, <2>2, <3>3
    <3>4. QED BY <3>1, <3>2, <3>3
  <2>3. QED BY <2>1, <2>2
<1>8. ASSUME NEW eof \in BOOLEAN, r(eof).verdict # "corrupt"
      PROVE  /\ r(eof).lastSeq = LastSeqOf(Kept(r(eof).keep), base)
             /\ r(eof).index = IndexKept(r(eof).keep)
  BY <1>4, <1>5, <1>8
<1> HIDE DEF IndexKept, Kept
<1>9. /\ Refuses(files) <=> \E x \in {r(eof) : eof \in BOOLEAN} : x.verdict = "corrupt"
      /\ \A k \in 0..Len(d) :
           Recovers(files, top, k) <=>
             \E x \in {r(eof) : eof \in BOOLEAN} : x.verdict # "corrupt" /\ x.keep = k
      /\ \A x \in {r(eof) : eof \in BOOLEAN} : x.verdict # "corrupt" =>
           /\ x.lastSeq = LastSeqOf(Kept(x.keep), base)
           /\ x.index = IndexKept(x.keep)
  BY <1>6, <1>7, <1>8
<1>10. QED BY <1>3, <1>9 DEF ScansAgree, Kept, IndexKept, r

\* What a recovery that succeeds keeps: numbers, frames and an index, bounded by the last
\* sequence, which is the last kept frame's or the one in front of the newest segment.
LEMMA RecoveredFiles ==
  ASSUME NEW files, SegmentFiles(files), NEW top \in DOMAIN files,
         NEW k \in 0..Len(files[top]), Recovers(files, top, k)
  PROVE  LET e    == SubSeq(files[top], 1, k)
             gs   == [files EXCEPT ![top] = e]
             last == LastSeqOf(e, top - 1)
         IN  /\ e \in Seq(Frame) /\ last \in Nat /\ top - 1 <= last
             /\ last = top - 1 \/ \E i \in 1..Len(files[top]) : last = files[top][i].seq
             /\ \A s \in DOMAIN files : s <= top
             /\ \A s \in DOMAIN files : \A i \in 1..Len(gs[s]) : gs[s][i].seq <= last
             /\ IndexOf(gs) \in [DOMAIN IndexOf(gs) -> Location]
             /\ DOMAIN IndexOf(gs) \subseteq Nat \ {0}
<1> DEFINE S == DOMAIN files
           d == files[top]
           e == SubSeq(d, 1, k)
           gs == [files EXCEPT ![top] = e]
           last == LastSeqOf(e, top - 1)
<1>1. /\ Newest(S, top) /\ Linked(files) /\ ScanKeeps(d, top - 1, k)
      /\ d \in Seq(Frame) /\ top \in Nat \ {0} /\ top - 1 \in Nat
      /\ \A s \in S : s \in Nat /\ s <= top /\ files[s] \in Seq(Frame)
  BY DEF Recovers, SegmentFiles, Newest
<1>2. e \in Seq(Frame) /\ Len(e) = k /\ \A i \in 1..k : e[i] = d[i]
  <2>1. 1 \in 1..Len(d) + 1 /\ k \in 1-1..Len(d)
    BY <1>1
  <2>2. QED BY <1>1, <2>1, SubSeqProperties
<1>3. /\ Apart(d, k) /\ \A j \in 1..k : top - 1 < d[j].seq /\ d[j].seq \in Nat
  <2>1. Accepted(d, top - 1, k)
    BY <1>1 DEF ScanKeeps, Accepted
  <2> DEFINE base == top - 1
  <2>2. base \in Nat /\ Accepted(d, base, k) /\ k \in 0..Len(d)
    BY <1>1, <2>1
  <2> HIDE DEF base
  <2>3. Apart(d, k) /\ \A j \in 1..k : base < d[j].seq
    BY <1>1, <2>2, AcceptedApart
  <2>4. \A j \in 1..k : d[j].seq \in Nat
    BY <1>1, FrameTypes
  <2>5. QED BY <2>3, <2>4 DEF base
<1> HIDE DEF e
<1>4. \/ k = 0 /\ last = top - 1
      \/ k \in 1..Len(d) /\ last = d[k].seq
  <2>1. CASE k = 0
    BY <1>2, <2>1 DEF LastSeqOf
  <2>2. CASE k # 0
    <3>1. k \in 1..k /\ k \in 1..Len(d) /\ e # <<>>
      BY <1>1, <1>2, <2>2
    <3>2. QED BY <1>2, <3>1 DEF LastSeqOf
  <2>3. QED BY <2>1, <2>2
<1>5. last \in Nat /\ top - 1 <= last
  BY <1>1, <1>3, <1>4
<1>6. \A i \in 1..k : d[i].seq <= last
  BY <1>3, <1>4 DEF Apart
<1> HIDE DEF last
<1>7. ASSUME NEW s \in S, NEW i \in 1..Len(gs[s]) PROVE gs[s][i].seq <= last
  <2>1. CASE s = top
    BY <1>2, <1>6, <2>1
  <2>2. CASE s # top
    <3>1. s < top /\ gs[s] = files[s] /\ LinkedTo(files, top)
      BY <1>1, <2>2 DEF Linked, LinkedTo
    <3>2. Below(files, s, top)
      BY <3>1, LinkedBelow
    <3>3. files[s][i].seq \in Nat /\ files[s][i].seq < top
      BY <1>1, <3>1, <3>2, FrameTypes DEF Below
    <3>4. QED BY <1>1, <1>5, <3>1, <3>3
  <2>3. QED BY <2>1, <2>2
<1>8. IndexOf(gs) \in [DOMAIN IndexOf(gs) -> Location]
  <2>1. ScansAgree(files)
    BY <1>1, LoopsAgree
  <2>2. PICK eof \in BOOLEAN : /\ ScanDirectory(files, eof).verdict # "corrupt"
                               /\ ScanDirectory(files, eof).keep = k
    <3>1. (CHOOSE s \in S : Newest(S, s)) = top
      <4>1. ASSUME NEW s \in S, Newest(S, s) PROVE s = top
        <5>1. s <= top /\ top <= s
          BY <1>1, <4>1 DEF Newest
        <5>2. QED BY <1>1, <5>1
      <4>2. QED BY <1>1, <4>1
    <3>2. QED BY <2>1, <3>1 DEF ScansAgree
  <2> DEFINE r == ScanDirectory(files, eof)
  <2>3. /\ r.index = IndexOf([files EXCEPT ![top] = SubSeq(d, 1, r.keep)])
        /\ r.index \in UNION {[Q -> Location] : Q \in SUBSET Nat}
    BY <1>1, <2>2, DirectoryScanned
  <2> HIDE DEF r
  <2>4. IndexOf(gs) \in UNION {[Q -> Location] : Q \in SUBSET Nat}
    BY <2>2, <2>3 DEF r, e
  <2>5. QED BY <2>4
<1>9. DOMAIN IndexOf(gs) \subseteq Nat \ {0}
  <2>1. \A s \in DOMAIN gs : gs[s] \in Seq(Frame)
    BY <1>1, <1>2
  <2> HIDE DEF gs
  <2>2. DOMAIN IndexOf(gs) = UNION {{gs[s][i].seq : i \in 1..Len(gs[s])} : s \in DOMAIN gs}
    BY DEF IndexOf
  <2>3. QED BY <2>1, <2>2, FrameTypes
<1>10. QED BY <1>1, <1>2, <1>4, <1>5, <1>7, <1>8, <1>9 DEF e, last
=============================================================================
