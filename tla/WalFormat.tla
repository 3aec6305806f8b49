------------------------------ MODULE WalFormat ------------------------------
(***************************************************************************)
(* The physical format of a WAL segment and what a recovery scan, an index *)
(* lookup and a read make of it (record.go, recovery.go, reader.go).       *)
(*                                                                         *)
(* A segment file is a sequence of frames.  A frame is one encoded         *)
(* fragment of a record; it counts as one unit of size.  Bytes, CRC and    *)
(* magic are abstracted to the frame's kind:                               *)
(*    "ok"    the header and the checksum verify                           *)
(*    "torn"  only a prefix of the frame reached the file                  *)
(*    "bad"   the frame is complete but its checksum does not verify       *)
(* The decoder sees a fragment number only through the flags first/last.   *)
(***************************************************************************)
EXTENDS Integers, Sequences

CONSTANTS Payloads,   \* logical payloads a caller may append
          Parts       \* Parts[p]: fragments of at most MaxRecordBytes in p

ASSUME PartsAssumption == /\ Payloads # {}
                          /\ Parts \in [Payloads -> Nat \ {0}]

Frame == [seq : Nat \ {0}, part : Nat \ {0}, payload : Payloads,
          kind : {"ok", "torn", "bad"}]

FlagFirst(f) == f.part = 1
FlagLast(f)  == f.part = Parts[f.payload]

\* fragments() and encodeRecord: an empty payload is one fragment too.
Fragments(seq, p) ==
  [k \in 1..Parts[p] |-> [seq |-> seq, part |-> k, payload |-> p, kind |-> "ok"]]

(***************************************************************************)
(* The scan of one segment whose records must continue from base.          *)
(***************************************************************************)
\* Frame i continues the open record, or starts the next one.
Follows(d, base, i) ==
  IF i = 1 \/ FlagLast(d[i-1])
  THEN FlagFirst(d[i]) /\ d[i].seq = (IF i = 1 THEN base ELSE d[i-1].seq) + 1
  ELSE ~FlagFirst(d[i]) /\ d[i].seq = d[i-1].seq

Accepts(d, base, i) == d[i].kind = "ok" /\ Follows(d, base, i)

Complete(d, n) == n > 0 => FlagLast(d[n])

Intact(d, base) == /\ \A i \in 1..Len(d) : Accepts(d, base, i)
                   /\ Complete(d, Len(d))

\* The scan of the last segment keeps its first k frames: behind them there is
\* at most one unfinished record, ended by the end of the file or by a frame
\* whose bytes run out (a tailError).  k = Len(d) when nothing is trimmed.
ScanKeeps(d, base, k) ==
  /\ \A i \in 1..k : Accepts(d, base, i)
  /\ Complete(d, k)
  /\ \E e \in k..Len(d) :
       /\ \A i \in k+1..e : Accepts(d, base, i) /\ ~FlagLast(d[i])
       /\ e < Len(d) => d[e+1].kind = "torn"

\* The scan of the last segment may end in a CorruptionError.  The missing bytes
\* of a torn frame with data behind it are taken from that data: the decoder
\* reports a bad checksum, or runs past the end of the file like any torn frame.
ScanRefuses(d, base) ==
  \E e \in 1..Len(d) :
    /\ \A i \in 1..e-1 : Accepts(d, base, i)
    /\ ~Accepts(d, base, e)
    /\ d[e].kind = "torn" => e < Len(d)

LastSeqOf(d, base) == IF d = <<>> THEN base ELSE d[Len(d)].seq

(***************************************************************************)
(* The scan of a whole directory: files maps the first sequence of each    *)
(* segment to its frames.                                                  *)
(***************************************************************************)
Newest(S, s) == s \in S /\ \A t \in S : t <= s
Oldest(S, s) == s \in S /\ \A t \in S : s <= t
Adjacent(S, s, t) == s \in S /\ t \in S /\ s < t /\ ~\E r \in S : s < r /\ r < t

\* Every segment but the newest is intact and ends where the next one starts.
Linked(files) ==
  \A s, t \in DOMAIN files : Adjacent(DOMAIN files, s, t) =>
    /\ Intact(files[s], s - 1)
    /\ LastSeqOf(files[s], s - 1) + 1 = t

\* Recovery may succeed, keeping k frames of the newest segment, top.
Recovers(files, top, k) ==
  /\ Newest(DOMAIN files, top)
  /\ Linked(files)
  /\ ScanKeeps(files[top], top - 1, k)

\* Recovery may return a CorruptionError.
Refuses(files) ==
  \/ ~Linked(files)
  \/ \E top \in DOMAIN files : Newest(DOMAIN files, top) /\ ScanRefuses(files[top], top - 1)

(***************************************************************************)
(* The sequence index and the read path.                                   *)
(***************************************************************************)
Location == [seg : Nat \ {0}, off : Nat, n : Nat \ {0}]

\* The record seq lies at loc of its segment, d, as the scan indexes it.
LiesAt(d, seq, loc) ==
  /\ loc.off + loc.n <= Len(d)
  /\ d[loc.off + 1].seq = seq /\ FlagFirst(d[loc.off + 1])
  /\ d[loc.off + loc.n].seq = seq /\ FlagLast(d[loc.off + loc.n])

Offsets(files) == UNION {0..Len(files[s]) : s \in DOMAIN files}
Places(files) == [seg : DOMAIN files, off : Offsets(files), n : Offsets(files) \ {0}]

IndexOf(files) ==
  [seq \in UNION {{files[s][i].seq : i \in 1..Len(files[s])} : s \in DOMAIN files} |->
     CHOOSE loc \in Places(files) : LiesAt(files[loc.seg], seq, loc)]

\* Mutant: the sequence of the fragments is not compared.
ReadsAtAnySeq(d, seq, loc, m) ==
  /\ m \in 1..loc.n /\ loc.off + m <= Len(d)
  /\ FlagFirst(d[loc.off + 1])
  /\ \A j \in 1..m : /\ d[loc.off + j].kind = "ok"
                     /\ FlagLast(d[loc.off + j]) <=> j = m

\* readLocation returns m fragments: every one decodes, the first has the first
\* flag, the m-th is the first one with the last flag, and all carry seq.
ReadsAt(d, seq, loc, m) ==
  /\ m \in 1..loc.n /\ loc.off + m <= Len(d)
  /\ FlagFirst(d[loc.off + 1])
  /\ \A j \in 1..m : /\ d[loc.off + j].kind = "ok"
                     /\ d[loc.off + j].seq = seq
                     /\ FlagLast(d[loc.off + j]) <=> j = m

\* Those m fragments put together are payload p.
Spells(d, loc, m, p) ==
  /\ m = Parts[p]
  /\ \A j \in 1..m : d[loc.off + j].payload = p /\ d[loc.off + j].part = j
==============================================================================
