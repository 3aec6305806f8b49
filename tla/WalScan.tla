------------------------------- MODULE WalScan -------------------------------
(***************************************************************************)
(* The loops of recoverLocked and scanSegment (recovery.go), frame by      *)
(* frame with the state they carry, against what WalFormat says of their   *)
(* outcome.                                                                *)
(*                                                                         *)
(* A frame's own decoding is WalFormat's.  The missing bytes of a torn     *)
(* frame with data behind it are taken from that data: eof says whether    *)
(* its decoder runs past the end of the file or finds a bad checksum.      *)
(***************************************************************************)
EXTENDS WalFormat

\* scanState, with the file's new length and the index that the scan fills.
StartState(s) ==
  [verdict |-> "scanning", assembling |-> FALSE, seq |-> 0, start |-> 0,
   lastSeq |-> s - 1, keep |-> 0, index |-> <<>>]

Corruption(st) == [st EXCEPT !.verdict = "corrupt"]

TailError(d, i, eof) == d[i].kind = "torn" /\ (i = Len(d) \/ eof)

\* Mutant: the tail is cut in front of the frame that broke off.
TrimAtFrame(st, i) ==
  [st EXCEPT !.verdict = "trimmed", !.keep = i - 1, !.assembling = FALSE]

\* A tail is cut in front of the record that it belongs to.
TrimTail(st, i) ==
  [st EXCEPT !.verdict = "trimmed", !.keep = IF st.assembling THEN st.start ELSE i - 1,
             !.assembling = FALSE]

Begins(st, f) ==
  f.kind = "ok" /\ FlagFirst(f) /\ ~st.assembling /\ f.seq = st.lastSeq + 1
Continues(st, f) ==
  f.kind = "ok" /\ ~FlagFirst(f) /\ st.assembling /\ f.seq = st.seq

\* Frame i of segment s belongs to the record that st assembles; the last fragment
\* of a record enters it into the index.
Assemble(st, f, s, i) ==
  IF FlagLast(f)
  THEN [st EXCEPT !.assembling = FALSE, !.lastSeq = f.seq,
                  !.index = [seq \in DOMAIN @ \cup {f.seq} |->
                               IF seq = f.seq THEN [seg |-> s, off |-> st.start, n |-> i - st.start]
                                              ELSE @[seq]]]
  ELSE [st EXCEPT !.assembling = TRUE]

\* The verdict ends the loop.
ScanFrame(st, d, s, i, newest, eof) ==
  IF st.verdict # "scanning" THEN st
  ELSE CASE newest /\ TailError(d, i, eof) -> TrimTail(st, i)
         [] Begins(st, d[i])    ->
              Assemble([st EXCEPT !.seq = d[i].seq, !.start = i - 1], d[i], s, i)
         [] Continues(st, d[i]) -> Assemble(st, d[i], s, i)
         [] OTHER               -> Corruption(st)

\* The states in front of the loop's first turn and behind each of its turns.
Scanned(st, d, s, newest, eof) ==
  LET scanned[i \in 0..Len(d)] ==
        IF i = 0 THEN [st EXCEPT !.keep = Len(d)]
                 ELSE ScanFrame(scanned[i-1], d, s, i, newest, eof)
  IN  scanned

ScanSegment(st, d, s, newest, eof) ==
  LET end == Scanned(st, d, s, newest, eof)[Len(d)]
  IN  IF end.verdict = "scanning" /\ end.assembling /\ ~newest THEN Corruption(end) ELSE end

\* Segment s is scanned behind the state st.
ScanNext(st, files, s, eof) ==
  IF st.verdict # "scanning" THEN st
  ELSE IF s # st.lastSeq + 1 THEN Corruption(st)
  ELSE ScanSegment(st, files[s], s, Newest(DOMAIN files, s), eof)

\* recoverLocked's loop over the segments, in order: the state behind each of them.
ScannedUpTo(files, eof) ==
  LET S == DOMAIN files
      upTo[s \in S] ==
        ScanNext(IF Oldest(S, s) THEN StartState(s)
                 ELSE upTo[CHOOSE r \in S : Adjacent(S, r, s)], files, s, eof)
  IN  upTo

\* What it does behind the loop to a record that the end of the newest segment leaves
\* unfinished.
DropUnfinished(st) ==
  IF st.verdict = "scanning" /\ st.assembling
  THEN [st EXCEPT !.verdict = "trimmed", !.keep = st.start, !.lastSeq = st.seq - 1]
  ELSE st

ScanDirectory(files, eof) ==
  DropUnfinished(ScannedUpTo(files, eof)[CHOOSE s \in DOMAIN files : Newest(DOMAIN files, s)])

-------------------------------------------------------------------------------
\* The loops refuse the directory, or keep the prefix of the newest segment and build
\* the index and the last sequence, exactly as WalFormat says of their outcome.
ScansAgree(files) ==
  LET top     == CHOOSE s \in DOMAIN files : Newest(DOMAIN files, s)
      Kept(k) == SubSeq(files[top], 1, k)
      scans   == {ScanDirectory(files, eof) : eof \in BOOLEAN}
  IN  /\ Refuses(files) <=> \E r \in scans : r.verdict = "corrupt"
      /\ \A k \in 0..Len(files[top]) :
           Recovers(files, top, k) <=> \E r \in scans : r.verdict # "corrupt" /\ r.keep = k
      /\ \A r \in scans : r.verdict # "corrupt" =>
           /\ r.lastSeq = LastSeqOf(Kept(r.keep), top - 1)
           /\ r.index = IndexOf([files EXCEPT ![top] = Kept(r.keep)])
==============================================================================
