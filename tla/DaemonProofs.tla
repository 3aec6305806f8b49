----------------------------- MODULE DaemonProofs -----------------------------
(***************************************************************************)
(* Theorems about Daemon, for any number of handlers, and about the        *)
(* options that its log is opened with, for an int of any width.           *)
(***************************************************************************)
EXTENDS Daemon, Options, SequenceTheorems, TLAPS

-------------------------------------------------------------------------------
(* The paths, and what is left of them.                                    *)

Calls == {"lock", "unlock", "append", "buffer", "sync", "read", "verify", "rescan", "replay", "stat",
          "apply", "peek", "clear", "arm"}

\* p takes writeMu with its call l and gives it back with its call u, or leaves it alone.
Bracketed(p, l, u) ==
  /\ l \in 1..Len(p) /\ u \in 1..Len(p) /\ l < u
  /\ \A i \in 1..Len(p) : (p[i] = "lock" <=> i = l) /\ (p[i] = "unlock" <=> i = u)

LockFree(p) == \A i \in 1..Len(p) : p[i] # "lock" /\ p[i] # "unlock"

Disciplined(p) == LockFree(p) \/ \E l, u \in 1..Len(p) : Bracketed(p, l, u)

LEMMA PathDomain ==
  DOMAIN Path = {"write", "batch", "sync", "log", "verify", "snapshot", "recover",
                 "delete", "status", "crash"}
BY DEF Path

\* Every handler brackets its use of writeMu.
LEMMA PathDisciplined ==
  ASSUME NEW r \in DOMAIN Path
  PROVE  Path[r] \in Seq(Calls) /\ Len(Path[r]) <= 5 /\ Disciplined(Path[r])
<1> DEFINE p == Path[r]
<1>1. CASE r = "write"
  <2>1. p = <<"lock", "append", "apply", "unlock">>
    BY <1>1 DEF Path
  <2>2. p \in Seq(Calls) /\ Len(p) = 4
    BY <2>1 DEF Calls
  <2>3. p[1] = "lock" /\ p[2] = "append" /\ p[3] = "apply" /\ p[4] = "unlock"
    BY <2>1
  <2> HIDE DEF p
  <2>4. Bracketed(p, 1, 4)
    BY <2>2, <2>3 DEF Bracketed
  <2> QED
    BY <2>2, <2>4 DEF Disciplined, p
<1>2. CASE r = "batch"
  <2>1. p = <<"lock", "buffer", "sync", "apply", "unlock">>
    BY <1>2 DEF Path
  <2>2. p \in Seq(Calls) /\ Len(p) = 5
    BY <2>1 DEF Calls
  <2>3. p[1] = "lock" /\ p[2] = "buffer" /\ p[3] = "sync" /\ p[4] = "apply" /\ p[5] = "unlock"
    BY <2>1
  <2> HIDE DEF p
  <2>4. Bracketed(p, 1, 5)
    BY <2>2, <2>3 DEF Bracketed
  <2> QED
    BY <2>2, <2>4 DEF Disciplined, p
<1>3. CASE r = "sync"
  <2>1. p = <<"sync">>
    BY <1>3 DEF Path
  <2>2. p \in Seq(Calls) /\ Len(p) = 1
    BY <2>1 DEF Calls
  <2>3. p[1] = "sync"
    BY <2>1
  <2> HIDE DEF p
  <2>4. LockFree(p)
    BY <2>2, <2>3 DEF LockFree
  <2> QED
    BY <2>2, <2>4 DEF Disciplined, p
<1>4. CASE r = "log"
  <2>1. p = <<"stat", "read">>
    BY <1>4 DEF Path
  <2>2. p \in Seq(Calls) /\ Len(p) = 2
    BY <2>1 DEF Calls
  <2>3. p[1] = "stat" /\ p[2] = "read"
    BY <2>1
  <2> HIDE DEF p
  <2>4. LockFree(p)
    BY <2>2, <2>3 DEF LockFree
  <2> QED
    BY <2>2, <2>4 DEF Disciplined, p
<1>5. CASE r = "verify"
  <2>1. p = <<"verify">>
    BY <1>5 DEF Path
  <2>2. p \in Seq(Calls) /\ Len(p) = 1
    BY <2>1 DEF Calls
  <2>3. p[1] = "verify"
    BY <2>1
  <2> HIDE DEF p
  <2>4. LockFree(p)
    BY <2>2, <2>3 DEF LockFree
  <2> QED
    BY <2>2, <2>4 DEF Disciplined, p
<1>6. CASE r = "snapshot"
  <2>1. p = <<"lock", "sync", "peek", "unlock">>
    BY <1>6 DEF Path
  <2>2. p \in Seq(Calls) /\ Len(p) = 4
    BY <2>1 DEF Calls
  <2>3. p[1] = "lock" /\ p[2] = "sync" /\ p[3] = "peek" /\ p[4] = "unlock"
    BY <2>1
  <2> HIDE DEF p
  <2>4. Bracketed(p, 1, 4)
    BY <2>2, <2>3 DEF Bracketed
  <2> QED
    BY <2>2, <2>4 DEF Disciplined, p
<1>7. CASE r = "recover"
  <2>1. p = <<"rescan", "lock", "clear", "replay", "unlock">>
    BY <1>7 DEF Path
  <2>2. p \in Seq(Calls) /\ Len(p) = 5
    BY <2>1 DEF Calls
  <2>3. p[1] = "rescan" /\ p[2] = "lock" /\ p[3] = "clear" /\ p[4] = "replay" /\ p[5] = "unlock"
    BY <2>1
  <2> HIDE DEF p
  <2>4. Bracketed(p, 2, 5)
    BY <2>2, <2>3 DEF Bracketed
  <2> QED
    BY <2>2, <2>4 DEF Disciplined, p
<1>8. CASE r = "delete"
  <2>1. p = <<"lock", "unlock">>
    BY <1>8 DEF Path
  <2>2. p \in Seq(Calls) /\ Len(p) = 2
    BY <2>1 DEF Calls
  <2>3. p[1] = "lock" /\ p[2] = "unlock"
    BY <2>1
  <2> HIDE DEF p
  <2>4. Bracketed(p, 1, 2)
    BY <2>2, <2>3 DEF Bracketed
  <2> QED
    BY <2>2, <2>4 DEF Disciplined, p
<1>9. CASE r = "status"
  <2>1. p = <<"stat", "peek">>
    BY <1>9 DEF Path
  <2>2. p \in Seq(Calls) /\ Len(p) = 2
    BY <2>1 DEF Calls
  <2>3. p[1] = "stat" /\ p[2] = "peek"
    BY <2>1
  <2> HIDE DEF p
  <2>4. LockFree(p)
    BY <2>2, <2>3 DEF LockFree
  <2> QED
    BY <2>2, <2>4 DEF Disciplined, p
<1>10. CASE r = "crash"
  <2>1. p = <<"arm">>
    BY <1>10 DEF Path
  <2>2. p \in Seq(Calls) /\ Len(p) = 1
    BY <2>1 DEF Calls
  <2>3. p[1] = "arm"
    BY <2>1
  <2> HIDE DEF p
  <2>4. LockFree(p)
    BY <2>2, <2>3 DEF LockFree
  <2> QED
    BY <2>2, <2>4 DEF Disciplined, p
<1> QED
  BY <1>1, <1>2, <1>3, <1>4, <1>5, <1>6, <1>7, <1>8, <1>9, <1>10, PathDomain

LEMMA SuffixFrom ==
  ASSUME NEW r \in DOMAIN Path, NEW n \in 1..6
  PROVE  SubSeq(Path[r], n, Len(Path[r])) \in Suffixes
BY DEF Suffixes

LEMMA SuffixParts ==
  ASSUME NEW s \in Suffixes
  PROVE  \E p \in Seq(Calls), n \in 1..6 :
           /\ Disciplined(p) /\ s = SubSeq(p, n, Len(p))
           /\ n <= Len(p) => SubSeq(p, n + 1, Len(p)) \in Suffixes
<1>1. PICK r \in DOMAIN Path, n \in 1..6 : s = SubSeq(Path[r], n, Len(Path[r]))
  BY DEF Suffixes
<1>2. Path[r] \in Seq(Calls) /\ Len(Path[r]) <= 5 /\ Disciplined(Path[r])
  BY PathDisciplined
<1>3. n <= Len(Path[r]) => n + 1 \in 1..6
  BY <1>2
<1>4. n <= Len(Path[r]) => SubSeq(Path[r], n + 1, Len(Path[r])) \in Suffixes
  BY <1>3, SuffixFrom
<1> QED
  BY <1>1, <1>2, <1>4

LEMMA SubSeqParts ==
  ASSUME NEW p \in Seq(Calls), NEW n \in 1..6
  PROVE  LET s == SubSeq(p, n, Len(p))
         IN  /\ s \in Seq(Calls)
             /\ n > Len(p) => s = <<>>
             /\ n <= Len(p) => /\ s # <<>> /\ Len(s) = Len(p) - n + 1
                               /\ Head(s) = p[n]
                               /\ Tail(s) = SubSeq(p, n + 1, Len(p))
             /\ \A i \in 1..Len(s) : s[i] = p[n + i - 1]
<1> DEFINE s == SubSeq(p, n, Len(p))
<1>1. s \in Seq(Calls) /\ (n > Len(p) => s = <<>>)
  OBVIOUS
<1>2. n <= Len(p) => s # <<>> /\ Len(s) = Len(p) - n + 1 /\ Head(s) = p[n]
  <2>1. n <= Len(p) => n \in 1..Len(p) /\ Len(p) \in n..Len(p)
    OBVIOUS
  <2>2. n <= Len(p) => Len(s) = Len(p) - n + 1
    BY SubSeqProperties
  <2>3. n <= Len(p) => s # <<>>
    <3> HIDE DEF s
    <3>1. s = <<>> => Len(s) = 0
      OBVIOUS
    <3> QED
      BY <2>2, <3>1
  <2> QED
    BY <2>1, <2>2, <2>3, HeadTailOfSubSeq
<1>3. n <= Len(p) => Tail(s) = SubSeq(p, n + 1, Len(p))
  <2>1. n <= Len(p) => n \in 1..Len(p) /\ Len(p) \in n..Len(p)
    OBVIOUS
  <2> QED
    BY <2>1, HeadTailOfSubSeq
<1>4. \A i \in 1..Len(s) : s[i] = p[n + i - 1]
  OBVIOUS
<1> QED
  BY <1>1, <1>2, <1>3, <1>4

\* What is left holds writeMu from the call behind a lock to the next unlock.
LEMMA SuffixHolds ==
  ASSUME NEW s \in Suffixes
  PROVE  /\ s \in Seq(Calls)
         /\ s # <<>> =>
              /\ Tail(s) \in Suffixes
              /\ Head(s) = "lock" => ~Holds(s) /\ Holds(Tail(s))
              /\ Head(s) = "unlock" => Holds(s) /\ ~Holds(Tail(s))
              /\ Head(s) \notin {"lock", "unlock"} => (Holds(Tail(s)) <=> Holds(s))
<1>1. PICK p \in Seq(Calls) : \E n \in 1..6 :
        /\ Disciplined(p) /\ s = SubSeq(p, n, Len(p))
        /\ n <= Len(p) => SubSeq(p, n + 1, Len(p)) \in Suffixes
  BY SuffixParts
<1>2. PICK n \in 1..6 : /\ Disciplined(p) /\ s = SubSeq(p, n, Len(p))
                        /\ n <= Len(p) => SubSeq(p, n + 1, Len(p)) \in Suffixes
  BY <1>1
<1>3. s \in Seq(Calls) /\ (n > Len(p) => s = <<>>)
  BY <1>2, SubSeqParts
<1>4. ASSUME s # <<>>
      PROVE  /\ Tail(s) \in Suffixes
             /\ Head(s) = "lock" => ~Holds(s) /\ Holds(Tail(s))
             /\ Head(s) = "unlock" => Holds(s) /\ ~Holds(Tail(s))
             /\ Head(s) \notin {"lock", "unlock"} => (Holds(Tail(s)) <=> Holds(s))
  <2>1. n <= Len(p) /\ Tail(s) \in Suffixes /\ Tail(s) \in Seq(Calls)
    <3>1. n <= Len(p)
      BY <1>3, <1>4
    <3>2. Tail(s) = SubSeq(p, n + 1, Len(p))
      BY <1>2, <3>1, SubSeqParts
    <3> QED
      BY <1>2, <1>3, <1>4, <3>1, <3>2, HeadTailProperties
  <2>2. Len(s) = Len(p) - n + 1 /\ \A i \in 1..Len(s) : s[i] = p[n + i - 1]
    BY <1>2, <2>1, SubSeqParts
  <2>3. Head(s) = p[n]
    BY <1>2, <2>1, SubSeqParts
  <2>4. Len(Tail(s)) = Len(p) - n /\ \A i \in 1..Len(Tail(s)) : Tail(s)[i] = p[n + i]
    BY <1>3, <1>4, <2>1, <2>2
  <2>5. Holds(s) <=> /\ \E j \in n..Len(p) : p[j] = "unlock"
                     /\ \A j \in n..Len(p) : p[j] # "lock"
    <3>1. \A j \in n..Len(p) : j - n + 1 \in 1..Len(s) /\ s[j - n + 1] = p[j]
      <4> TAKE j \in n..Len(p)
      <4>1. j - n + 1 \in 1..Len(s) /\ n + (j - n + 1) - 1 = j
        BY <2>1, <2>2
      <4> QED
        BY <2>2, <4>1
    <3>2. \A i \in 1..Len(s) : n + i - 1 \in n..Len(p) /\ s[i] = p[n + i - 1]
      BY <2>1, <2>2
    <3> QED
      BY <3>1, <3>2 DEF Holds
  <2>6. Holds(Tail(s)) <=> /\ \E j \in n+1..Len(p) : p[j] = "unlock"
                           /\ \A j \in n+1..Len(p) : p[j] # "lock"
    <3>1. \A j \in n+1..Len(p) : j - n \in 1..Len(Tail(s)) /\ Tail(s)[j - n] = p[j]
      <4> TAKE j \in n+1..Len(p)
      <4>1. j - n \in 1..Len(Tail(s)) /\ n + (j - n) = j
        BY <2>1, <2>4
      <4> QED
        BY <2>4, <4>1
    <3>2. \A i \in 1..Len(Tail(s)) : n + i \in n+1..Len(p) /\ Tail(s)[i] = p[n + i]
      BY <2>1, <2>4
    <3> QED
      BY <3>1, <3>2 DEF Holds
  <2>7. CASE LockFree(p)
    <3>1. \A j \in n..Len(p) : j \in 1..Len(p)
      OBVIOUS
    <3>2. ~Holds(s) /\ ~Holds(Tail(s)) /\ p[n] # "lock" /\ p[n] # "unlock"
      BY <2>1, <2>5, <2>6, <2>7, <3>1 DEF LockFree
    <3> QED
      BY <2>1, <2>3, <3>2
  <2>8. ASSUME NEW l \in 1..Len(p), NEW u \in 1..Len(p), Bracketed(p, l, u)
        PROVE  /\ p[n] = "lock" => ~Holds(s) /\ Holds(Tail(s))
               /\ p[n] = "unlock" => Holds(s) /\ ~Holds(Tail(s))
               /\ p[n] \notin {"lock", "unlock"} => (Holds(Tail(s)) <=> Holds(s))
    <3>1. \A i \in 1..Len(p) : (p[i] = "lock" <=> i = l) /\ (p[i] = "unlock" <=> i = u)
      BY <2>8 DEF Bracketed
    <3>2. l < u
      BY <2>8 DEF Bracketed
    <3>3. Holds(s) <=> l < n /\ n <= u
      BY <2>1, <2>5, <3>1, <3>2
    <3>4. Holds(Tail(s)) <=> l <= n /\ n < u
      BY <2>1, <2>6, <3>1, <3>2
    <3>5. (p[n] = "lock" <=> n = l) /\ (p[n] = "unlock" <=> n = u)
      BY <2>1, <3>1
    <3> QED
      BY <3>2, <3>3, <3>4, <3>5
  <2> QED
    BY <1>2, <2>1, <2>3, <2>7, <2>8 DEF Disciplined
<1> QED
  BY <1>3, <1>4

\* A handler that begins, or has nothing left, holds nothing.
LEMMA BothEndsFree ==
  /\ <<>> \in Suffixes /\ ~Holds(<<>>)
  /\ \A r \in DOMAIN Path : Path[r] \in Suffixes /\ ~Holds(Path[r])
<1>1. <<>> \in Suffixes
  <2>1. PICK r \in DOMAIN Path : TRUE
    BY PathDomain
  <2>2. Path[r] \in Seq(Calls) /\ Len(Path[r]) <= 5
    BY PathDisciplined
  <2>3. SubSeq(Path[r], 6, Len(Path[r])) = <<>>
    BY <2>2
  <2>4. SubSeq(Path[r], 6, Len(Path[r])) \in Suffixes
    BY SuffixFrom
  <2> QED
    BY <2>3, <2>4
<1>2. ~Holds(<<>>)
  BY DEF Holds
<1>3. ASSUME NEW r \in DOMAIN Path
      PROVE  Path[r] \in Suffixes /\ ~Holds(Path[r])
  <2>1. Path[r] \in Seq(Calls) /\ Disciplined(Path[r])
    BY PathDisciplined
  <2>2. Path[r] = SubSeq(Path[r], 1, Len(Path[r])) /\ 1 \in 1..6
    BY <2>1
  <2>3. Path[r] \in Suffixes
    BY <2>2 DEF Suffixes
  <2>4. ~Holds(Path[r])
    BY <2>1 DEF Disciplined, LockFree, Bracketed, Holds
  <2> QED
    BY <2>3, <2>4
<1> QED
  BY <1>1, <1>2, <1>3

-------------------------------------------------------------------------------
(* The inductive invariant.                                                *)

\* Nobody is inside a call of a closed log but stat; there are handlers only once the
\* server has started, and a ticker once the log is open.
Inside ==
  /\ \A h \in Handlers : logMu = h /\ Head(todo[h]) # "stat" => ~closed
  /\ ticker = "flush" => ~closed
  /\ \A h \in Handlers : todo[h] # <<>> => main \notin {"open", "new"}
  /\ ticker = "none" <=> main = "open"

\* Behind a final flush that succeeded nothing is left to flush.
Kept == /\ main \in {"join", "return"} => dirty \subseteq {"lost", "stolen"}
        /\ exit = "clean" => main = "return"

Control == Types /\ LogLock /\ Channels /\ Inside /\ Kept

IInv == WriteLock /\ Control

-------------------------------------------------------------------------------
(* What the steps of a handler do to writeMu.                              *)

LEMMA TodoKept ==
  ASSUME WriteLock, UNCHANGED <<todo, writeMu>>
  PROVE  WriteLock'
BY DEF WriteLock, Holds

LEMMA Advanced ==
  ASSUME WriteLock, NEW h \in Handlers, todo[h] # <<>>, Advance(h),
         Head(todo[h]) \notin {"lock", "unlock"}, writeMu' = writeMu
  PROVE  WriteLock'
<1>1. todo[h] \in Suffixes
  BY DEF WriteLock
<1>2. Tail(todo[h]) \in Suffixes /\ (Holds(Tail(todo[h])) <=> Holds(todo[h]))
  BY <1>1, SuffixHolds
<1>3. todo' \in [Handlers -> Suffixes]
  BY <1>2 DEF WriteLock, Advance
<1>4. \A g \in Handlers : Holds(todo'[g]) <=> Holds(todo[g])
  BY <1>2 DEF WriteLock, Advance
<1> QED
  BY <1>3, <1>4 DEF WriteLock

LEMMA Returned ==
  ASSUME WriteLock, NEW h \in Handlers, ReturnError(h), "nobody" \notin Handlers
  PROVE  WriteLock'
<1>1. <<>> \in Suffixes /\ ~Holds(<<>>)
  BY BothEndsFree
<1>2. todo' \in [Handlers -> Suffixes]
  BY <1>1 DEF WriteLock, ReturnError
<1>3. ~Holds(todo'[h]) /\ \A g \in Handlers \ {h} : todo'[g] = todo[g]
  BY <1>1 DEF WriteLock, ReturnError
<1>4. writeMu' \in Handlers \cup {"nobody"} /\ writeMu' # h
  BY DEF WriteLock, ReturnError
<1>5. \A g \in Handlers \ {h} : writeMu' = g <=> writeMu = g
  BY DEF WriteLock, ReturnError
<1> QED
  BY <1>2, <1>3, <1>4, <1>5 DEF WriteLock

LEMMA LockTaken ==
  ASSUME WriteLock, NEW h \in Handlers, LockWrites(h), "nobody" \notin Handlers
  PROVE  WriteLock'
<1>1. todo[h] \in Suffixes /\ todo[h] # <<>> /\ Head(todo[h]) = "lock"
  BY DEF WriteLock, LockWrites, At
<1>2. Tail(todo[h]) \in Suffixes /\ Holds(Tail(todo[h]))
  BY <1>1, SuffixHolds
<1>3. todo' \in [Handlers -> Suffixes] /\ todo'[h] = Tail(todo[h])
  BY <1>2 DEF WriteLock, LockWrites, Advance
<1>4. \A g \in Handlers \ {h} : todo'[g] = todo[g] /\ ~Holds(todo[g])
  BY DEF WriteLock, LockWrites, Advance
<1>5. writeMu' = h
  BY DEF LockWrites
<1> QED
  BY <1>2, <1>3, <1>4, <1>5 DEF WriteLock

LEMMA LockGiven ==
  ASSUME WriteLock, NEW h \in Handlers, UnlockWrites(h), "nobody" \notin Handlers
  PROVE  WriteLock'
<1>1. todo[h] \in Suffixes /\ todo[h] # <<>> /\ Head(todo[h]) = "unlock"
  BY DEF WriteLock, UnlockWrites, At
<1>2. Tail(todo[h]) \in Suffixes /\ ~Holds(Tail(todo[h])) /\ Holds(todo[h])
  BY <1>1, SuffixHolds
<1>3. todo' \in [Handlers -> Suffixes] /\ todo'[h] = Tail(todo[h])
  BY <1>2 DEF WriteLock, UnlockWrites, Advance
<1>4. writeMu = h
  BY <1>2 DEF WriteLock
<1>5. \A g \in Handlers \ {h} : todo'[g] = todo[g] /\ ~Holds(todo[g])
  BY <1>4 DEF WriteLock, UnlockWrites, Advance
<1>6. writeMu' = "nobody"
  BY DEF UnlockWrites
<1> QED
  BY <1>2, <1>3, <1>5, <1>6 DEF WriteLock

LEMMA Begun ==
  ASSUME WriteLock, NEW h \in Handlers, NEW r \in Requests, Request(h, r),
         Requests \subseteq DOMAIN Path
  PROVE  WriteLock'
<1>1. Path[r] \in Suffixes /\ ~Holds(Path[r])
  BY BothEndsFree
<1>2. todo' \in [Handlers -> Suffixes] /\ todo'[h] = Path[r]
  BY <1>1 DEF WriteLock, Request
<1>3. \A g \in Handlers \ {h} : todo'[g] = todo[g]
  BY DEF WriteLock, Request
<1>4. ~Holds(todo[h])
  BY BothEndsFree DEF Request
<1>5. writeMu' = writeMu
  BY DEF Request, locks
<1> QED
  BY <1>1, <1>2, <1>3, <1>4, <1>5 DEF WriteLock

-------------------------------------------------------------------------------
(* Every step keeps the inductive invariant.                               *)

LEMMA Started == DaemonAssumption /\ Init => IInv
<1> SUFFICES ASSUME DaemonAssumption, Init PROVE IInv
  OBVIOUS
<1>1. WriteLock
  <2>1. todo \in [Handlers -> Suffixes] /\ \A h \in Handlers : todo[h] = <<>>
    BY BothEndsFree DEF Init
  <2>2. \A h \in Handlers : ~Holds(todo[h])
    BY <2>1, BothEndsFree
  <2>3. writeMu = "nobody" /\ \A h \in Handlers : h # "nobody"
    BY DEF Init, DaemonAssumption
  <2> QED
    BY <2>1, <2>2, <2>3 DEF WriteLock
<1>2. Types /\ Channels /\ Kept
  BY DEF Init, Types, Channels, Kept
<1>3. LogLock /\ Inside
  BY DEF Init, LogLock, Inside, DaemonAssumption
<1> QED
  BY <1>1, <1>2, <1>3 DEF IInv, Control

\* What a handler's step leaves of the others' calls.
LEMMA OnlyMine ==
  ASSUME IInv, NEW h \in Handlers, Advance(h) \/ ReturnError(h)
  PROVE  /\ \A g \in Handlers \ {h} : todo'[g] = todo[g]
         /\ todo'[h] \in {Tail(todo[h]), <<>>}
BY DEF IInv, WriteLock, Advance, ReturnError

\* A handler that is outside the log's mutex takes a step outside of it.
LEMMA OutsideLog ==
  ASSUME IInv, NEW h \in Handlers, todo[h] # <<>>, logMu # h, Advance(h) \/ ReturnError(h),
         armed' \in BOOLEAN,
         UNCHANGED <<main, listening, ticker, logMu, dirty, closing, exit>>
  PROVE  Control'
<1> USE DEF IInv, Control, closing
<1>1. \A g \in Handlers \ {h} : todo'[g] = todo[g]
  BY OnlyMine
<1>2. Types' /\ Channels' /\ Kept'
  BY DEF Types, Channels, Kept
<1>3. LogLock'
  BY <1>1 DEF LogLock
<1>4. Inside'
  BY <1>1 DEF Inside
<1> QED
  BY <1>2, <1>3, <1>4

\* What a flush that fails may leave.
LEMMA FlushErrorMarks ==
  ASSUME NEW d \in SUBSET Marks, NEW c, FlushError(d, c)
  PROVE  /\ dirty' \subseteq Marks
         /\ d \cap {"pending", "unsynced"} # {}
         /\ "rollback" \notin Faults => dirty' \subseteq d \cup {"unsynced"}
BY DEF FlushError, Dropped, Marks

\* A handler returns from the log, and the mutex is free.
LEMMA LeavesLog ==
  ASSUME IInv, DaemonAssumption, NEW h \in Handlers, todo[h] # <<>>, logMu = h,
         Advance(h) \/ ReturnError(h), logMu' = "nobody",
         dirty' \subseteq Marks, Head(todo[h]) = "stat" => dirty' = dirty,
         UNCHANGED <<main, listening, ticker, armed, closing, exit>>
  PROVE  Control'
<1> USE DEF IInv, Control, closing
<1>1. \A g \in Handlers \ {h} : todo'[g] = todo[g]
  BY OnlyMine
<1>2. Types' /\ Channels'
  BY DEF Types, Channels
<1>3. main # "flush" /\ ticker # "flush"
  BY DEF LogLock, DaemonAssumption
<1>4. LogLock'
  BY <1>3 DEF LogLock, DaemonAssumption
<1>5. Inside'
  BY <1>1 DEF Inside, DaemonAssumption
<1>6. Kept'
  BY DEF Kept, Inside, Channels
<1> QED
  BY <1>2, <1>4, <1>5, <1>6

LEMMA RequestKeeps ==
  ASSUME IInv, DaemonAssumption, NEW h \in Handlers, NEW r \in Requests, Request(h, r)
  PROVE  IInv'
<1> USE DEF IInv, Control, locks, closing
<1>1. WriteLock'
  BY Begun DEF DaemonAssumption
<1>2. UNCHANGED <<main, listening, ticker, armed, logMu, dirty, closing, exit>>
  BY DEF Request
<1>3. todo[h] = <<>> /\ \A g \in Handlers \ {h} : todo'[g] = todo[g]
  BY DEF Request, WriteLock
<1>4. Types' /\ Channels' /\ Kept'
  BY <1>2 DEF Types, Channels, Kept
<1>5. LogLock'
  <2>1. logMu # h
    BY <1>3 DEF LogLock
  <2> QED
    BY <1>2, <1>3, <2>1 DEF LogLock
<1>6. Inside'
  <2>1. logMu # h
    BY <1>3 DEF LogLock
  <2>2. main \notin {"open", "new"}
    BY DEF Request, Types
  <2> QED
    BY <1>2, <1>3, <2>1, <2>2 DEF Inside
<1> QED
  BY <1>1, <1>4, <1>5, <1>6

LEMMA HandlerKeeps ==
  ASSUME IInv, DaemonAssumption, NEW h \in Handlers, Serve(h)
  PROVE  IInv'
<1>1. WriteLock /\ Types /\ "nobody" \notin Handlers
  BY DEF IInv, Control, DaemonAssumption
<1>2. logMu = h => todo[h] # <<>> /\ Head(todo[h]) \in LogCalls
  BY DEF IInv, Control, LogLock
<1>3. CASE LockWrites(h)
  <2>1. WriteLock'
    BY <1>1, <1>3, LockTaken
  <2>2. logMu # h
    BY <1>2, <1>3 DEF LockWrites, At, LogCalls
  <2>3. Control'
    BY <1>1, <1>3, <2>2, OutsideLog DEF LockWrites, At, Types
  <2> QED
    BY <2>1, <2>3 DEF IInv
<1>4. CASE UnlockWrites(h)
  <2>1. WriteLock'
    BY <1>1, <1>4, LockGiven
  <2>2. logMu # h
    BY <1>2, <1>4 DEF UnlockWrites, At, LogCalls
  <2>3. Control'
    BY <1>1, <1>4, <2>2, OutsideLog DEF UnlockWrites, At, Types
  <2> QED
    BY <2>1, <2>3 DEF IInv
<1>5. CASE EnterLog(h)
  <2>1. UNCHANGED <<main, listening, todo, ticker, armed, writeMu, dirty, closing, exit>>
    BY <1>5 DEF EnterLog
  <2>2. todo[h] # <<>> /\ Head(todo[h]) \in LogCalls /\ logMu = "nobody" /\ logMu' = h
        /\ (closed => Head(todo[h]) = "stat")
    BY <1>5 DEF EnterLog, At
  <2>3. WriteLock'
    BY <1>1, <2>1, TodoKept
  <2>4. Types' /\ Channels' /\ Kept'
    BY <2>1 DEF IInv, Control, Types, Channels, Kept, closing
  <2>5. LogLock'
    BY <2>1, <2>2 DEF IInv, Control, LogLock, DaemonAssumption
  <2>6. Inside'
    BY <2>1, <2>2 DEF IInv, Control, Inside, closing
  <2> QED
    BY <2>3, <2>4, <2>5, <2>6 DEF IInv, Control
<1>6. CASE LogClosed(h)
  <2>1. WriteLock'
    BY <1>1, <1>6, Returned DEF LogClosed
  <2>2. logMu # h
    BY <1>1, <1>6 DEF LogClosed
  <2>3. Control'
    BY <1>1, <1>6, <2>2, OutsideLog DEF LogClosed, At, Types
  <2> QED
    BY <2>1, <2>3 DEF IInv
<1>7. CASE LogReturns(h)
  <2>1. WriteLock'
    BY <1>1, <1>7, Advanced DEF LogReturns, At, LogCalls
  <2>2. dirty' \subseteq Marks /\ (Head(todo[h]) = "stat" => dirty' = dirty)
    <3>1. \/ dirty' = dirty
          \/ /\ Head(todo[h]) # "stat"
             /\ \/ dirty' = dirty \cup {"pending"}
                \/ dirty' = Flushed(dirty) \cup {"pending"}
                \/ dirty' = Flushed(dirty)
      BY <1>7 DEF LogReturns
    <3>2. dirty \subseteq Marks
      BY <1>1 DEF Types
    <3> QED
      BY <3>1, <3>2 DEF Marks, Flushed
  <2>3. Control'
    BY <1>7, <2>2, LeavesLog DEF LogReturns, At
  <2> QED
    BY <2>1, <2>3 DEF IInv
<1>8. CASE FlushFails(h)
  <2>1. WriteLock'
    BY <1>1, <1>8, Returned DEF FlushFails
  <2>2. Head(todo[h]) # "stat"
    BY <1>8 DEF FlushFails, At
  <2>3. dirty' \subseteq Marks
    <3>1. PICK d \in {dirty, Flushed(dirty), dirty \cup {"pending"}, Flushed(dirty) \cup {"pending"}} :
            FlushError(d, h)
      BY <1>8 DEF FlushFails
    <3>2. d \in SUBSET Marks
      BY <1>1 DEF Types, Flushed, Marks
    <3> QED
      BY <3>1, <3>2, FlushErrorMarks
  <2>4. Control'
    BY <1>8, <2>2, <2>3, LeavesLog DEF FlushFails, At
  <2> QED
    BY <2>1, <2>4 DEF IInv
<1>9. CASE ReadFails(h) \/ RotateFails(h)
  <2>1. WriteLock'
    BY <1>1, <1>9, Returned DEF ReadFails, RotateFails
  <2>2. Head(todo[h]) # "stat" /\ dirty' \in {dirty, Flushed(dirty)}
    BY <1>9 DEF ReadFails, RotateFails, At
  <2>3. dirty' \subseteq Marks
    BY <1>1, <2>2 DEF Types, Flushed
  <2>4. Control'
    BY <1>9, <2>2, <2>3, LeavesLog DEF ReadFails, RotateFails, At
  <2> QED
    BY <2>1, <2>4 DEF IInv
<1>10. CASE Moment(h)
  <2>1. WriteLock'
    BY <1>1, <1>10, Advanced DEF Moment, At, Moments, locks
  <2>2. logMu # h
    BY <1>2, <1>10 DEF Moment, At, Moments, LogCalls
  <2>3. Control'
    BY <1>1, <1>10, <2>2, OutsideLog DEF Moment, At, Types, locks
  <2> QED
    BY <2>1, <2>3 DEF IInv
<1>11. CASE Arm(h)
  <2>1. WriteLock'
    BY <1>1, <1>11, Advanced DEF Arm, At, locks
  <2>2. logMu # h
    BY <1>2, <1>11 DEF Arm, At, LogCalls
  <2>3. armed' \in BOOLEAN
    BY <1>11 DEF Arm
  <2>4. Control'
    BY <1>11, <2>2, <2>3, OutsideLog DEF Arm, At, locks
  <2> QED
    BY <2>1, <2>4 DEF IInv
<1> QED
  BY <1>3, <1>4, <1>5, <1>6, <1>7, <1>8, <1>9, <1>10, <1>11 DEF Serve

LEMMA TickerKeeps ==
  ASSUME IInv, DaemonAssumption, Ticker
  PROVE  IInv'
<1> USE DEF IInv, Control
<1>1. UNCHANGED <<main, listening, todo, armed, writeMu, closed, stop, handles, exit>>
  BY DEF Ticker, Tick, TickerLocks, TickerFlushes, TickerFlushFails, TickerStops, locks, closing
<1>2. WriteLock'
  BY <1>1, TodoKept
<1>3. CASE Tick
  <2>1. ticker = "select" /\ ticker' = "lock" /\ UNCHANGED <<logMu, dirty, done>>
    BY <1>3 DEF Tick, locks, closing
  <2>2. Types' /\ Channels' /\ Kept'
    BY <1>1, <2>1 DEF Types, Channels, Kept
  <2>3. LogLock' /\ Inside'
    BY <1>1, <2>1 DEF LogLock, Inside
  <2> QED
    BY <1>2, <2>2, <2>3
<1>4. CASE TickerLocks
  <2>1. ticker = "lock" /\ logMu = "nobody" /\ UNCHANGED <<dirty, done>>
    BY <1>4 DEF TickerLocks, closing
  <2>2. CASE closed
    <3>1. ticker' = "select" /\ logMu' = logMu
      BY <1>4, <2>2 DEF TickerLocks
    <3> QED
      BY <1>1, <1>2, <2>1, <3>1 DEF Types, LogLock, Channels, Inside, Kept
  <2>3. CASE ~closed
    <3>1. ticker' = "flush" /\ logMu' = "ticker"
      BY <1>4, <2>3 DEF TickerLocks
    <3>2. \A h \in Handlers : h # "ticker"
      BY DEF DaemonAssumption
    <3>3. LogLock'
      BY <1>1, <2>1, <3>1, <3>2 DEF LogLock
    <3>4. Inside'
      BY <1>1, <2>1, <2>3, <3>1, <3>2 DEF Inside
    <3> QED
      BY <1>1, <1>2, <2>1, <3>1, <3>3, <3>4 DEF Types, Channels, Kept
  <2> QED
    BY <2>2, <2>3
<1>5. CASE TickerFlushes \/ TickerFlushFails
  <2>1. /\ ticker = "flush" /\ ticker' = "select" /\ logMu' = "nobody"
        /\ UNCHANGED done
    BY <1>5 DEF TickerFlushes, TickerFlushFails, closing
  <2>2. \A h \in Handlers : h # "nobody"
    BY DEF DaemonAssumption
  <2>3. LogLock'
    BY <1>1, <2>1, <2>2 DEF LogLock
  <2>4. Inside'
    BY <1>1, <2>1, <2>2 DEF Inside
  <2>5. dirty' \subseteq Marks
    <3>1. dirty \in SUBSET Marks /\ (dirty' = Flushed(dirty) \/ FlushError(dirty, "ticker"))
      BY <1>5 DEF TickerFlushes, TickerFlushFails, Types
    <3> QED
      BY <3>1, FlushErrorMarks DEF Flushed
  <2>6. main \notin {"join", "return"}
    BY <2>1 DEF Inside, Channels
  <2>7. Types' /\ Channels' /\ Kept'
    BY <1>1, <2>1, <2>5, <2>6 DEF Types, Channels, Kept
  <2> QED
    BY <1>2, <2>3, <2>4, <2>7
<1>6. CASE TickerStops
  <2>1. ticker = "select" /\ stop /\ ticker' = "gone" /\ done' = TRUE /\ UNCHANGED <<logMu, dirty>>
    BY <1>6 DEF TickerStops, locks
  <2> QED
    BY <1>1, <1>2, <2>1 DEF Types, LogLock, Channels, Inside, Kept
<1> QED
  BY <1>3, <1>4, <1>5, <1>6 DEF Ticker

LEMMA CloseKeeps ==
  ASSUME IInv, DaemonAssumption, Close
  PROVE  IInv'
<1> USE DEF IInv, Control
<1>1. UNCHANGED <<listening, todo, ticker, armed, writeMu, exit>> /\ Running
  BY DEF Close, CloseLocks, CloseFlushes, CloseReleases, locks
<1>2. WriteLock'
  BY <1>1, TodoKept
<1>3. \A h \in Handlers : h # "main" /\ h # "nobody"
  BY DEF DaemonAssumption
<1>4. CASE CloseLocks
  <2>1. /\ main = "close" /\ logMu = "nobody" /\ main' = "flush" /\ logMu' = "main" /\ closed' = TRUE
        /\ UNCHANGED <<dirty, stop, done, handles>>
    BY <1>4 DEF CloseLocks
  <2>2. Types' /\ Channels' /\ Kept'
    BY <1>1, <2>1 DEF Types, Channels, Kept, Running
  <2>3. LogLock'
    BY <1>1, <1>3, <2>1 DEF LogLock
  <2>4. Inside'
    BY <1>1, <1>3, <2>1 DEF Inside, LogLock
  <2> QED
    BY <1>2, <2>2, <2>3, <2>4
<1>5. ASSUME NEW flushed \in BOOLEAN, CloseFlushes(flushed)
      PROVE  Control'
  <2>1. /\ main = "flush" /\ main' = (IF flushed THEN "join" ELSE "joinfailed")
        /\ logMu' = "nobody" /\ stop' = TRUE
        /\ UNCHANGED <<closed, done, handles>>
    BY <1>5 DEF CloseFlushes
  <2>2. dirty \in SUBSET Marks
    BY DEF Types
  <2>3. dirty' \subseteq Marks /\ (main' = "join" => dirty' \subseteq {"lost", "stolen"})
    <3>1. CASE flushed
      BY <1>5, <2>2, <3>1 DEF CloseFlushes, Flushed, Marks
    <3>2. CASE ~flushed
      <4>1. FlushError(dirty, "main") /\ main' # "join"
        BY <1>5, <2>1, <3>2 DEF CloseFlushes
      <4> QED
        BY <2>2, <4>1, FlushErrorMarks
    <3> QED
      BY <3>1, <3>2
  <2>4. Types' /\ Channels' /\ Kept'
    BY <1>1, <2>1, <2>3 DEF Types, Channels, Kept, Running
  <2>5. LogLock'
    BY <1>1, <1>3, <2>1 DEF LogLock
  <2>6. Inside'
    BY <1>1, <1>3, <2>1 DEF Inside
  <2> QED
    BY <2>4, <2>5, <2>6
<1>6. CASE CloseReleases
  <2>1. /\ \/ main = "join" /\ main' = "return"
           \/ main = "joinfailed" /\ main' = "returnfailed"
        /\ handles' = FALSE
        /\ UNCHANGED <<logMu, dirty, closed, stop, done>>
    BY <1>6 DEF CloseReleases, locks
  <2>2. Types' /\ Channels' /\ Kept'
    BY <1>1, <2>1 DEF Types, Channels, Kept, Running
  <2>3. LogLock' /\ Inside'
    BY <1>1, <2>1 DEF LogLock, Inside
  <2> QED
    BY <1>2, <2>2, <2>3
<1> QED
  BY <1>2, <1>4, <1>5, <1>6 DEF Close

LEMMA MainKeeps ==
  ASSUME IInv, DaemonAssumption, Main
  PROVE  IInv'
<1> USE DEF IInv, Control
<1>1. CASE Close
  BY <1>1, CloseKeeps
<1>2. CASE OpenFails \/ NewFails \/ ServeFails
  <2>1. exit' = "fatal" /\ UNCHANGED <<main, listening, todo, ticker, armed, writeMu, logMu,
                                      dirty, closed, stop, done, handles>>
    BY <1>2 DEF OpenFails, NewFails, ServeFails, Fatal, locks, closing
  <2>2. WriteLock'
    BY <2>1, TodoKept
  <2>3. Types' /\ Channels' /\ Kept'
    BY <2>1 DEF Types, Channels, Kept
  <2>4. LogLock' /\ Inside'
    BY <2>1 DEF LogLock, Inside
  <2> QED
    BY <2>2, <2>3, <2>4
<1>3. CASE MainReturns
  <2>1. UNCHANGED <<main, listening, todo, ticker, armed, writeMu, logMu,
                    dirty, closed, stop, done, handles>>
    BY <1>3 DEF MainReturns, locks, closing
  <2>2. exit' = "failed" \/ (exit' = "clean" /\ main = "return")
    BY <1>3 DEF MainReturns
  <2>3. WriteLock'
    BY <2>1, TodoKept
  <2>4. Types' /\ Channels' /\ Kept'
    BY <2>1, <2>2 DEF Types, Channels, Kept
  <2>5. LogLock' /\ Inside'
    BY <2>1 DEF LogLock, Inside
  <2> QED
    BY <2>3, <2>4, <2>5
<1>4. CASE OpenLog
  <2>1. /\ main = "open" /\ main' = "new" /\ ticker' = "select" /\ handles' = TRUE /\ exit = "none"
        /\ UNCHANGED <<listening, todo, armed, writeMu, logMu, dirty, closed, stop, done, exit>>
    BY <1>4 DEF OpenLog, Running, locks
  <2>2. WriteLock'
    BY <2>1, TodoKept
  <2>3. Types' /\ Channels' /\ Kept'
    BY <2>1 DEF Types, Channels, Kept, Inside
  <2>4. LogLock' /\ Inside'
    BY <2>1 DEF LogLock, Inside
  <2> QED
    BY <2>2, <2>3, <2>4
<1>5. CASE NewStore \/ ListenFails \/ Signal \/ Shutdown
  <2>1. /\ \/ main = "new" /\ main' = "serve" /\ listening' = TRUE
           \/ main = "serve" /\ main' = "serve" /\ listening' = FALSE
           \/ main = "serve" /\ main' = "drain" /\ listening' = FALSE
           \/ main = "drain" /\ main' = "close" /\ listening' = listening
        /\ exit = "none"
        /\ UNCHANGED <<todo, ticker, armed, writeMu, logMu, dirty, closed, stop, done, handles, exit>>
    BY <1>5 DEF NewStore, ListenFails, Signal, Shutdown, Running, locks, closing
  <2>2. WriteLock'
    BY <2>1, TodoKept
  <2>3. listening' \in BOOLEAN
    BY <2>1 DEF Types
  <2>4. listening' => main' = "serve"
    BY <2>1 DEF Types
  <2>5. Types'
    BY <2>1, <2>3, <2>4 DEF Types
  <2>6. Channels' /\ Kept'
    BY <2>1 DEF Channels, Kept
  <2>7. LogLock' /\ Inside'
    BY <2>1 DEF LogLock, Inside
  <2> QED
    BY <2>2, <2>5, <2>6, <2>7
<1> QED
  BY <1>1, <1>2, <1>3, <1>4, <1>5 DEF Main

LEMMA StepKeeps ==
  ASSUME IInv, DaemonAssumption, [Next]_vars
  PROVE  IInv'
<1>1. ASSUME UNCHANGED vars
      PROVE  IInv'
  <2>1. UNCHANGED <<main, listening, todo, ticker, armed, writeMu, logMu, dirty,
                    closed, stop, done, handles, exit>>
    BY <1>1 DEF vars, locks, closing
  <2>2. WriteLock'
    BY <2>1, TodoKept DEF IInv
  <2>3. Control'
    BY <2>1 DEF IInv, Control, Types, LogLock, Channels, Inside, Kept
  <2> QED
    BY <2>2, <2>3 DEF IInv
<1>2. CASE CrashExit
  <2>1. exit' = "crash" /\ UNCHANGED <<main, listening, todo, ticker, armed, writeMu, logMu,
                                      dirty, closed, stop, done, handles>>
    BY <1>2 DEF CrashExit, locks, closing
  <2>2. WriteLock'
    BY <2>1, TodoKept DEF IInv
  <2>3. Control'
    BY <2>1 DEF IInv, Control, Types, LogLock, Channels, Inside, Kept
  <2> QED
    BY <2>2, <2>3 DEF IInv
<1>3. CASE Exited
  BY <1>1, <1>3 DEF Exited
<1> QED
  BY <1>1, <1>2, <1>3, RequestKeeps, HandlerKeeps, TickerKeeps, MainKeeps DEF Next

-------------------------------------------------------------------------------
(* What the flushes do to the records of others.                           *)

\* A path publishes right behind the call that flushed for it, and logs and publishes
\* with writeMu.
LEMMA PathOrder ==
  ASSUME NEW r \in DOMAIN Path
  PROVE  /\ Path[r] # <<>> /\ Head(Path[r]) # "apply"
         /\ \A i \in 1..Len(Path[r])-1 :
              Path[r][i+1] = "apply" => Path[r][i] \in {"append", "sync"}
         /\ \A i \in 1..Len(Path[r]) : Path[r][i] \in {"append", "buffer", "apply"} =>
              /\ \E j \in i..Len(Path[r]) : Path[r][j] = "unlock"
              /\ \A j \in i..Len(Path[r]) : Path[r][j] # "lock"
<1> DEFINE p == Path[r]
<1>1. CASE r = "write"
  <2>1. p = <<"lock", "append", "apply", "unlock">>
    BY <1>1 DEF Path
  <2>2. Len(p) = 4 /\ p # <<>> /\ Head(p) = "lock"
    BY <2>1
  <2>3. p[1] = "lock" /\ p[2] = "append" /\ p[3] = "apply" /\ p[4] = "unlock"
    BY <2>1
  <2> HIDE DEF p
  <2>4. \A i \in 1..Len(p)-1 : p[i+1] = "apply" => p[i] \in {"append", "sync"}
    BY <2>2, <2>3
  <2>5. \A i \in 1..Len(p) : p[i] \in {"append", "buffer", "apply"} => i \in {2, 3}
    BY <2>2, <2>3
  <2>6. \A i \in {2, 3} : 4 \in i..4 /\ \A j \in i..4 : p[j] # "lock"
    BY <2>3
  <2> QED
    BY <2>2, <2>3, <2>4, <2>5, <2>6 DEF p
<1>2. CASE r = "batch"
  <2>1. p = <<"lock", "buffer", "sync", "apply", "unlock">>
    BY <1>2 DEF Path
  <2>2. Len(p) = 5 /\ p # <<>> /\ Head(p) = "lock"
    BY <2>1
  <2>3. p[1] = "lock" /\ p[2] = "buffer" /\ p[3] = "sync" /\ p[4] = "apply" /\ p[5] = "unlock"
    BY <2>1
  <2> HIDE DEF p
  <2>4. \A i \in 1..Len(p)-1 : p[i+1] = "apply" => p[i] \in {"append", "sync"}
    BY <2>2, <2>3
  <2>5. \A i \in 1..Len(p) : p[i] \in {"append", "buffer", "apply"} => i \in {2, 4}
    BY <2>2, <2>3
  <2>6. \A i \in {2, 4} : 5 \in i..5 /\ \A j \in i..5 : p[j] # "lock"
    BY <2>3
  <2> QED
    BY <2>2, <2>3, <2>4, <2>5, <2>6 DEF p
<1>3. CASE r \notin {"write", "batch"}
  <2>1. p \in {<<"sync">>, <<"stat", "read">>, <<"verify">>,
               <<"lock", "sync", "peek", "unlock">>,
               <<"rescan", "lock", "clear", "replay", "unlock">>,
               <<"lock", "unlock">>, <<"stat", "peek">>, <<"arm">>}
    BY <1>3, PathDomain DEF Path
  <2>2. p # <<>> /\ Head(p) # "apply"
    BY <2>1
  <2>3. \A i \in 1..Len(p) : p[i] \notin {"append", "buffer", "apply"}
    BY <2>1
  <2>4. Len(p) \in Nat
    BY <2>1
  <2> HIDE DEF p
  <2>5. \A i \in 1..Len(p)-1 : i + 1 \in 1..Len(p)
    BY <2>4
  <2> QED
    BY <2>2, <2>3, <2>5 DEF p
<1> QED
  BY <1>1, <1>2, <1>3

LEMMA SuffixOrder ==
  ASSUME NEW s \in Suffixes, s # <<>>
  PROVE  /\ Head(s) \in {"append", "buffer", "apply"} => Holds(s)
         /\ Tail(s) # <<>> /\ Head(Tail(s)) = "apply" => Head(s) \in {"append", "sync"}
<1>1. PICK r \in DOMAIN Path : \E n \in 1..6 : s = SubSeq(Path[r], n, Len(Path[r]))
  BY DEF Suffixes
<1> DEFINE p == Path[r]
<1>2. PICK n \in 1..6 : s = SubSeq(p, n, Len(p))
  BY <1>1
<1>3. p \in Seq(Calls)
  BY PathDisciplined
<1>4. \A i \in 1..Len(p)-1 : p[i+1] = "apply" => p[i] \in {"append", "sync"}
  BY PathOrder
<1>5. \A i \in 1..Len(p) : p[i] \in {"append", "buffer", "apply"} =>
        /\ \E j \in i..Len(p) : p[j] = "unlock"
        /\ \A j \in i..Len(p) : p[j] # "lock"
  BY PathOrder
<1> HIDE DEF p
<1>6. n <= Len(p)
  BY <1>2, <1>3, SubSeqParts
<1>7. /\ Len(s) = Len(p) - n + 1 /\ Head(s) = p[n] /\ Tail(s) = SubSeq(p, n + 1, Len(p))
      /\ \A i \in 1..Len(s) : s[i] = p[n + i - 1]
  BY <1>2, <1>3, <1>6, SubSeqParts
<1>8. Head(s) \in {"append", "buffer", "apply"} => Holds(s)
  <2>1. SUFFICES ASSUME p[n] \in {"append", "buffer", "apply"} PROVE Holds(s)
    BY <1>7
  <2>2. PICK j \in n..Len(p) : p[j] = "unlock"
    BY <1>5, <1>6, <2>1
  <2>3. j - n + 1 \in 1..Len(s) /\ s[j - n + 1] = p[j]
    <3>1. j - n + 1 \in 1..Len(s) /\ n + (j - n + 1) - 1 = j
      BY <1>6, <1>7
    <3> QED
      BY <1>7, <3>1
  <2>4. \A i \in 1..Len(s) : s[i] # "lock"
    <3> TAKE i \in 1..Len(s)
    <3>1. n + i - 1 \in n..Len(p) /\ s[i] = p[n + i - 1]
      BY <1>6, <1>7
    <3> QED
      BY <1>5, <1>6, <2>1, <3>1
  <2> QED
    BY <2>2, <2>3, <2>4 DEF Holds
<1>9. ASSUME Tail(s) # <<>>, Head(Tail(s)) = "apply"
      PROVE  Head(s) \in {"append", "sync"}
  <2>1. n < Len(p)
    <3>1. n = Len(p) => SubSeq(p, n + 1, Len(p)) = <<>>
      BY <1>3
    <3> QED
      BY <1>6, <1>7, <1>9, <3>1
  <2>2. Tail(s) = SubSeq(p, n + 1, Len(p)) /\ n + 1 \in 1..Len(p) /\ n \in 1..Len(p)-1
    BY <1>3, <1>6, <1>7, <2>1
  <2>3. Head(SubSeq(p, n + 1, Len(p))) = p[n + 1]
    BY <1>3, <2>1, <2>2, HeadTailOfSubSeq
  <2> QED
    BY <1>4, <1>7, <1>9, <2>2, <2>3
<1> QED
  BY <1>8, <1>9

AtHead(h, calls) == todo[h] # <<>> /\ Head(todo[h]) \in calls

\* No one logs next to an update that is about to be published.
LEMMA LogsAlone ==
  ASSUME IInv, NEW g \in Handlers, NEW h \in Handlers, g # h, AtHead(g, {"apply"})
  PROVE  ~AtHead(h, {"append", "buffer"})
<1>1. todo[g] \in Suffixes /\ todo[h] \in Suffixes
  BY DEF IInv, WriteLock
<1>2. Holds(todo[g])
  BY <1>1, SuffixOrder DEF AtHead
<1>3. AtHead(h, {"append", "buffer"}) => Holds(todo[h])
  BY <1>1, SuffixOrder DEF AtHead
<1> QED
  BY <1>2, <1>3 DEF IInv, WriteLock

\* Behind the flush of an update nothing waits until it is published ...
Shown == \A h \in Handlers : AtHead(h, {"apply"}) => dirty \cap {"pending", "unsynced"} = {}

\* ... and nothing is ever dropped, if a failed write can be rolled back.
NothingDropped == "rollback" \notin Faults => dirty \cap {"lost", "stolen"} = {}

\* A step that begins no publishing and adds nothing to a flushed log.
LEMMA ShownKept ==
  ASSUME Shown,
         \A g \in Handlers : AtHead(g, {"apply"})' => AtHead(g, {"apply"}),
         dirty \cap {"pending", "unsynced"} = {} => dirty' \cap {"pending", "unsynced"} = {}
  PROVE  Shown'
<1>1. ASSUME NEW g \in Handlers, AtHead(g, {"apply"})'
      PROVE  dirty' \cap {"pending", "unsynced"} = {}
  BY <1>1 DEF Shown
<1> QED
  BY <1>1 DEF Shown

LEMMA HandlerShows ==
  ASSUME IInv, DaemonAssumption, Shown, NEW h \in Handlers, Serve(h)
  PROVE  Shown'
<1>1. \A g \in Handlers : todo[g] \in Suffixes
  BY DEF IInv, WriteLock
<1>2. DOMAIN todo = Handlers
  BY DEF IInv, WriteLock
<1>3. dirty \in SUBSET Marks
  BY DEF IInv, Control, Types
<1>4. CASE EnterLog(h)
  <2>1. todo' = todo /\ dirty' = dirty
    BY <1>4 DEF EnterLog
  <2> QED
    BY <2>1, ShownKept DEF AtHead
<1>5. CASE LockWrites(h) \/ UnlockWrites(h) \/ Moment(h) \/ Arm(h)
  <2>1. /\ dirty' = dirty /\ todo' = [todo EXCEPT ![h] = Tail(todo[h])]
        /\ todo[h] # <<>> /\ Head(todo[h]) \in {"lock", "unlock", "apply", "peek", "clear", "arm"}
    BY <1>5 DEF LockWrites, UnlockWrites, Moment, Arm, Advance, At, Moments
  <2>2. ~AtHead(h, {"apply"})'
    BY <1>1, <1>2, <2>1, SuffixOrder DEF AtHead
  <2>3. \A g \in Handlers \ {h} : todo'[g] = todo[g]
    BY <1>2, <2>1
  <2>4. \A g \in Handlers : AtHead(g, {"apply"})' => AtHead(g, {"apply"})
    BY <2>2, <2>3 DEF AtHead
  <2> QED
    BY <2>1, <2>4, ShownKept
<1>6. CASE LogClosed(h)
  <2>1. dirty' = dirty /\ todo' = [todo EXCEPT ![h] = <<>>]
    BY <1>6 DEF LogClosed, ReturnError
  <2>2. \A g \in Handlers : AtHead(g, {"apply"})' => AtHead(g, {"apply"})
    BY <1>2, <2>1 DEF AtHead
  <2> QED
    BY <2>1, <2>2, ShownKept
<1>7. CASE LogReturns(h)
  <2>1. todo[h] # <<>> /\ todo' = [todo EXCEPT ![h] = Tail(todo[h])]
    BY <1>7 DEF LogReturns, At, Advance
  <2>2. todo'[h] = Tail(todo[h]) /\ \A g \in Handlers \ {h} : todo'[g] = todo[g]
    BY <1>2, <2>1
  <2>3. Head(todo[h]) \in {"append", "sync"} => dirty' = Flushed(dirty)
    BY <1>7 DEF LogReturns
  <2>4. Head(todo[h]) # "buffer" => dirty' \in {dirty, Flushed(dirty)}
    BY <1>7 DEF LogReturns
  <2>5. SUFFICES ASSUME NEW g \in Handlers, AtHead(g, {"apply"})'
                 PROVE  dirty' \cap {"pending", "unsynced"} = {}
    BY DEF Shown
  <2>6. CASE g = h
    <3>1. Tail(todo[h]) # <<>> /\ Head(Tail(todo[h])) = "apply"
      BY <2>2, <2>5, <2>6 DEF AtHead
    <3>2. Head(todo[h]) \in {"append", "sync"}
      BY <1>1, <2>1, <3>1, SuffixOrder
    <3> QED
      BY <2>3, <3>2 DEF Flushed
  <2>7. CASE g # h
    <3>1. AtHead(g, {"apply"})
      BY <2>2, <2>5, <2>7 DEF AtHead
    <3>2. Head(todo[h]) # "buffer"
      BY <2>1, <2>7, <3>1, LogsAlone DEF AtHead
    <3>3. dirty \cap {"pending", "unsynced"} = {}
      BY <3>1 DEF Shown
    <3> QED
      BY <2>4, <3>2, <3>3 DEF Flushed
  <2> QED
    BY <2>6, <2>7
<1>8. CASE FlushFails(h) \/ RotateFails(h) \/ ReadFails(h)
  <2>1. todo[h] # <<>> /\ todo' = [todo EXCEPT ![h] = <<>>]
    BY <1>8 DEF FlushFails, RotateFails, ReadFails, At, ReturnError
  <2>2. todo'[h] = <<>> /\ \A g \in Handlers \ {h} : todo'[g] = todo[g]
    BY <1>2, <2>1
  <2>3. \/ Head(todo[h]) \in {"append", "buffer"}
        \/ FlushError(dirty, h)
        \/ dirty' \in {dirty, Flushed(dirty)}
    BY <1>8 DEF FlushFails, RotateFails, ReadFails
  <2>4. SUFFICES ASSUME NEW g \in Handlers, AtHead(g, {"apply"})'
                 PROVE  dirty' \cap {"pending", "unsynced"} = {}
    BY DEF Shown
  <2>5. g # h /\ AtHead(g, {"apply"})
    BY <2>2, <2>4 DEF AtHead
  <2>6. Head(todo[h]) \notin {"append", "buffer"}
    BY <2>1, <2>5, LogsAlone DEF AtHead
  <2>7. dirty \cap {"pending", "unsynced"} = {}
    BY <2>5 DEF Shown
  <2>8. ~FlushError(dirty, h)
    BY <1>3, <2>7, FlushErrorMarks
  <2> QED
    BY <2>3, <2>6, <2>7, <2>8 DEF Flushed
<1> QED
  BY <1>4, <1>5, <1>6, <1>7, <1>8 DEF Serve

LEMMA StepShows ==
  ASSUME IInv, DaemonAssumption, Shown, [Next]_vars
  PROVE  Shown'
<1>1. ASSUME NEW h \in Handlers, NEW r \in Requests, Request(h, r)
      PROVE  Shown'
  <2>1. dirty' = dirty /\ todo' = [todo EXCEPT ![h] = Path[r]]
    BY <1>1 DEF Request
  <2>2. Head(Path[r]) # "apply"
    BY PathOrder DEF DaemonAssumption
  <2>3. DOMAIN todo = Handlers
    BY DEF IInv, WriteLock
  <2>4. \A g \in Handlers : AtHead(g, {"apply"})' => AtHead(g, {"apply"})
    BY <2>1, <2>2, <2>3 DEF AtHead
  <2> QED
    BY <2>1, <2>4, ShownKept
<1>2. ASSUME UNCHANGED todo,
             dirty' = dirty \/ dirty' = Flushed(dirty) \/ \E c \in {"ticker", "main"} : FlushError(dirty, c)
      PROVE  Shown'
  <2>1. dirty \in SUBSET Marks
    BY DEF IInv, Control, Types
  <2>2. dirty \cap {"pending", "unsynced"} = {} => dirty' \in {dirty, Flushed(dirty)}
    BY <1>2, <2>1, FlushErrorMarks
  <2> QED
    BY <1>2, <2>2, ShownKept DEF Flushed, AtHead
<1>3. CASE UNCHANGED vars
  BY <1>2, <1>3 DEF vars
<1>4. CASE CrashExit
  BY <1>2, <1>4 DEF CrashExit
<1>5. CASE Ticker
  BY <1>2, <1>5 DEF Ticker, Tick, TickerLocks, TickerFlushes, TickerFlushFails, TickerStops
<1>6. CASE Main
  <2>1. CASE Close
    BY <1>2, <2>1 DEF Close, CloseLocks, CloseFlushes, CloseReleases
  <2>2. CASE Main /\ ~Close
    BY <1>2, <2>2 DEF Main, OpenLog, OpenFails, NewStore, NewFails, ListenFails, ServeFails,
                      Signal, Shutdown, MainReturns, Fatal
  <2> QED
    BY <1>6, <2>1, <2>2
<1>7. CASE Exited
  BY <1>3, <1>7 DEF Exited
<1> QED
  BY <1>1, <1>3, <1>4, <1>5, <1>6, <1>7, HandlerShows DEF Next

LEMMA StepDropsNothing ==
  ASSUME IInv, NothingDropped, [Next]_vars
  PROVE  NothingDropped'
<1> SUFFICES ASSUME "rollback" \notin Faults
             PROVE  dirty' \cap {"lost", "stolen"} = {}
  BY DEF NothingDropped
<1>1. dirty \in SUBSET Marks /\ dirty \cap {"lost", "stolen"} = {}
  BY DEF IInv, Control, Types, NothingDropped
<1> DEFINE Logged == {dirty, Flushed(dirty), dirty \cup {"pending"}, Flushed(dirty) \cup {"pending"}}
<1>2. ASSUME dirty' \in Logged \/ \E c, d : d \in Logged /\ FlushError(d, c)
      PROVE  dirty' \cap {"lost", "stolen"} = {}
  <2>1. \A d \in Logged : d \in SUBSET Marks /\ d \cap {"lost", "stolen"} = {}
    BY <1>1 DEF Flushed, Marks
  <2> HIDE DEF Logged
  <2>2. CASE dirty' \in Logged
    BY <2>1, <2>2
  <2>3. ASSUME NEW c, NEW d \in Logged, FlushError(d, c)
        PROVE  dirty' \cap {"lost", "stolen"} = {}
    <3>1. d \in SUBSET Marks /\ d \cap {"lost", "stolen"} = {}
      BY <2>1
    <3>2. dirty' \subseteq d \cup {"unsynced"}
      BY <2>3, <3>1, FlushErrorMarks
    <3> QED
      BY <3>1, <3>2
  <2> QED
    BY <1>2, <2>2, <2>3
<1>3. ASSUME NEW h \in Handlers, Serve(h)
      PROVE  dirty' \in Logged \/ \E c, d : d \in Logged /\ FlushError(d, c)
  <2>1. CASE LogReturns(h)
    BY <2>1 DEF LogReturns
  <2>2. CASE FlushFails(h)
    BY <2>2 DEF FlushFails
  <2>3. CASE RotateFails(h) \/ ReadFails(h)
    BY <2>3 DEF RotateFails, ReadFails
  <2>4. CASE LockWrites(h) \/ UnlockWrites(h) \/ EnterLog(h) \/ LogClosed(h) \/ Moment(h) \/ Arm(h)
    BY <2>4 DEF LockWrites, UnlockWrites, EnterLog, LogClosed, Moment, Arm
  <2> QED
    BY <1>3, <2>1, <2>2, <2>3, <2>4 DEF Serve
<1>4. CASE Ticker
  BY <1>2, <1>4 DEF Ticker, Tick, TickerLocks, TickerFlushes, TickerFlushFails, TickerStops
<1>5. CASE Close
  BY <1>2, <1>5 DEF Close, CloseLocks, CloseFlushes, CloseReleases
<1>6. CASE Main /\ ~Close
  BY <1>2, <1>6 DEF Main, OpenLog, OpenFails, NewStore, NewFails, ListenFails, ServeFails,
                    Signal, Shutdown, MainReturns, Fatal
<1>7. ASSUME NEW h \in Handlers, NEW r \in Requests, Request(h, r)
      PROVE  dirty' = dirty
  BY <1>7 DEF Request
<1>8. CASE CrashExit \/ Exited \/ UNCHANGED vars
  <2>1. dirty' = dirty
    BY <1>8 DEF CrashExit, Exited, vars
  <2> QED
    BY <1>2, <2>1
<1> QED
  BY <1>2, <1>3, <1>4, <1>5, <1>6, <1>7, <1>8 DEF Next

-------------------------------------------------------------------------------
(* The theorems.                                                           *)

\* However the steps of the goroutines interleave, the locks, the channels and the state of
\* the log stay in step with what the goroutines are doing.
THEOREM Inductive == Spec => []IInv
<1>1. Init => IInv
  BY Started, DaemonAssumption
<1>2. IInv /\ [Next]_vars => IInv'
  BY StepKeeps, DaemonAssumption
<1> QED
  BY <1>1, <1>2, PTL DEF Spec

\* writeMu is held by exactly the handler between its lock and its unlock, every error path
\* included; the log's mutex by whoever is inside a call; closed, stop, done and the handles
\* follow Close and the ticker.
THEOREM TypeCorrect == Spec => []TypeOK
<1>1. IInv => TypeOK
  BY DEF IInv, Control, TypeOK
<1> QED
  BY <1>1, Inductive, PTL

\* No call uses a segment's file that Close has released: closed is checked under the mutex
\* that the call keeps, and Close waits for the ticker before it releases the files.
THEOREM AlwaysHandlesOpen == Spec => []HandlesOpen
<1>1. IInv => HandlesOpen
  <2> SUFFICES ASSUME IInv PROVE HandlesOpen
    OBVIOUS
  <2>1. CASE logMu = "main"
    BY <2>1 DEF IInv, Control, LogLock, Channels, HandlesOpen
  <2>2. CASE logMu = "ticker"
    <3>1. ticker = "flush" /\ ~closed /\ main # "open"
      BY <2>2 DEF IInv, Control, LogLock, Inside
    <3> QED
      BY <3>1 DEF IInv, Control, Channels, HandlesOpen
  <2>3. ASSUME NEW h \in Handlers, logMu = h, Head(todo[h]) # "stat"
        PROVE  handles
    <3>1. ~closed /\ main # "open"
      BY <2>3 DEF IInv, Control, LogLock, Inside
    <3> QED
      BY <3>1 DEF IInv, Control, Channels
  <2> QED
    BY <2>1, <2>2, <2>3 DEF HandlesOpen
<1> QED
  BY <1>1, Inductive, PTL

\* What was logged waits, is on disk or was dropped in the open: as long as every failed
\* write is rolled back nothing is dropped, and no update is about to be published while
\* anything waits.
THEOREM Accounted == Spec => [](Shown /\ NothingDropped)
<1>1. Init => Shown /\ NothingDropped
  BY DEF Init, Shown, NothingDropped
<1>2. IInv /\ (Shown /\ NothingDropped) /\ [Next]_vars => (Shown /\ NothingDropped)'
  BY StepShows, StepDropsNothing, DaemonAssumption
<1> QED
  BY <1>1, <1>2, Inductive, PTL DEF Spec

\* A process that exits without an error has on disk what its handlers logged, if every
\* failed write could be rolled back: none of them adds to the log once Close has taken the
\* mutex, and Close's own flush is the last.  Behind a rollback that
\* fails that flush has nothing to do and returns nil.
THEOREM AlwaysCleanExitKeepsAll ==
  ASSUME "rollback" \notin Faults
  PROVE  Spec => []CleanExitKeepsAll
<1>1. IInv /\ (Shown /\ NothingDropped) => CleanExitKeepsAll
  <2> SUFFICES ASSUME IInv, NothingDropped, exit = "clean" PROVE dirty = {}
    BY DEF CleanExitKeepsAll
  <2>1. dirty \subseteq {"lost", "stolen"}
    BY DEF IInv, Control, Kept
  <2>2. dirty \cap {"lost", "stolen"} = {}
    BY DEF NothingDropped
  <2> QED
    BY <2>1, <2>2
<1> QED
  BY <1>1, Inductive, Accounted, PTL

\* Under the same condition an update is published only when its records are on disk,
\* whoever flushed the buffer in between and however that flush ended.
THEOREM AlwaysPublishedDurable ==
  ASSUME "rollback" \notin Faults
  PROVE  Spec => []PublishedDurable
<1>1. IInv /\ (Shown /\ NothingDropped) => PublishedDurable
  <2> SUFFICES ASSUME IInv, Shown, NothingDropped, NEW h \in Handlers, At(h, {"apply"})
               PROVE  dirty \subseteq {"lost"}
    BY DEF PublishedDurable
  <2>1. dirty \subseteq Marks
    BY DEF IInv, Control, Types
  <2>2. dirty \cap {"pending", "unsynced"} = {}
    BY DEF Shown, At, AtHead
  <2>3. dirty \cap {"lost", "stolen"} = {}
    BY DEF NothingDropped
  <2> QED
    BY <2>1, <2>2, <2>3 DEF Marks
<1> QED
  BY <1>1, Inductive, Accounted, PTL

-------------------------------------------------------------------------------
(* The options.                                                             *)

\* What Validate returns is safe to pass to Open, as its comment says: Open accepts it
\* and changes nothing, so that the settings a program prints are those in effect.
THEOREM ValidatedIsStable ==
  ASSUME NEW o \in Option, NEW n, Validates(o, n)
  PROVE  Validates(n, n)
<1>1. n = Defaulted(o) /\ Checked(n)
  BY DEF Validates
<1>2. n.BatchSize # 0 /\ n.FlushInterval # 0 /\ n.MaxSegmentBytes # 0
      /\ n.MaxRecordBytes # 0 /\ n.MaxPayloadBytes # 0
  BY <1>1 DEF Defaulted, Or, DefaultOptions
<1>3. Defaulted(n) = n
  BY <1>1, <1>2 DEF Defaulted, Unset, Or
<1> QED
  BY <1>1, <1>3 DEF Validates

\* The ticker of an open log always ticks: periodicFlush's branch for an interval of
\* zero, in which nothing would flush a buffered record, is never taken.
THEOREM TickerAlwaysTicks ==
  ASSUME NEW o \in Option, NEW n, Validates(o, n)
  PROVE  n.FlushInterval > 0
<1>1. n.FlushInterval \in Int /\ n.FlushInterval # 0
  BY DEF Validates, Defaulted, Or, DefaultOptions, Option, Int64
<1>2. n.FlushInterval >= 0
  BY DEF Validates, Checked
<1> QED
  BY <1>1, <1>2

\* An open log has room for a fragment of the largest size in every segment, so that a
\* record of one fragment never outgrows its segment: Wal's segments are never smaller
\* than one frame.  The largest fragment must leave room for the header in an int ...
THEOREM FragmentFitsSegment ==
  ASSUME WideEnough, NEW o \in Option, NEW n, Validates(o, n),
         n.MaxRecordBytes + HeaderSize <= IntMax
  PROVE  /\ 1 <= n.MaxRecordBytes /\ n.MaxRecordBytes <= n.MaxPayloadBytes
         /\ HeaderSize + n.MaxRecordBytes <= n.MaxSegmentBytes
<1>1. n.MaxRecordBytes \in Int
  BY DEF Validates, Defaulted, Or, DefaultOptions, Option, Int64
<1>2. Plus(HeaderSize, n.MaxRecordBytes) = HeaderSize + n.MaxRecordBytes
  BY <1>1 DEF WideEnough, Plus, HeaderSize
<1> QED
  BY <1>2 DEF Validates, Checked

\* ... for the check adds the two in an int: the default options with the largest
\* possible fragment are accepted, though no segment holds one.
THEOREM OverflowAccepted ==
  ASSUME WideEnough
  PROVE  \E o \in Option : /\ Validates(o, o)
                           /\ o.MaxSegmentBytes < HeaderSize + o.MaxRecordBytes
<1> DEFINE o == [SyncPolicy |-> SyncBatch, BatchSize |-> DefaultOptions.BatchSize,
                 FlushInterval |-> DefaultOptions.FlushInterval,
                 MaxSegmentBytes |-> DefaultOptions.MaxSegmentBytes,
                 MaxRecordBytes |-> IntMax, MaxPayloadBytes |-> IntMax, ReplayFn |-> FALSE]
<1>1. /\ o.SyncPolicy = 1 /\ o.BatchSize = 64 * 1024 /\ o.FlushInterval = 10 * 1000 * 1000
      /\ o.MaxSegmentBytes = 64 * 1024 * 1024
      /\ o.MaxRecordBytes = IntMax /\ o.MaxPayloadBytes = IntMax
  BY SMT DEF DefaultOptions, SyncBatch
<1>2. o \in Option
  BY SMT DEF WideEnough, Option, Int64, DefaultOptions, SyncBatch
<1>3. Defaulted(o) = o
  <2>1. /\ o.BatchSize # 0 /\ o.FlushInterval # 0 /\ o.MaxSegmentBytes # 0
        /\ o.MaxRecordBytes # 0 /\ o.MaxPayloadBytes # 0
    BY <1>1, SMT DEF WideEnough
  <2>2. ~Unset(o)
    BY <2>1, Zenon DEF Unset
  <2> QED
    BY <2>1, <2>2, SMT DEF Defaulted, Or
<1>4. Plus(HeaderSize, IntMax) \in Int /\ Plus(HeaderSize, IntMax) < 0
  BY DEF WideEnough, Plus, HeaderSize
<1>5. Checked(o)
  <2>1. o.SyncPolicy <= SyncAsync /\ o.BatchSize >= HeaderSize /\ o.FlushInterval >= 0
    BY <1>1, SMT DEF SyncAsync, HeaderSize
  <2>2. o.MaxRecordBytes >= 1 /\ o.MaxPayloadBytes >= o.MaxRecordBytes
    BY <1>1, SMT DEF WideEnough
  <2>3. o.MaxSegmentBytes >= Plus(HeaderSize, o.MaxRecordBytes)
    BY <1>1, <1>4, SMT
  <2> QED
    BY <2>1, <2>2, <2>3, Zenon DEF Checked
<1>6. o.MaxSegmentBytes < HeaderSize + o.MaxRecordBytes
  BY <1>1 DEF WideEnough, HeaderSize
<1>7. Validates(o, o)
  BY <1>3, <1>5 DEF Validates
<1> HIDE DEF o
<1> QED
  BY <1>2, <1>6, <1>7
===============================================================================
