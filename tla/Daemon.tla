-------------------------------- MODULE Daemon --------------------------------
(***************************************************************************)
(* The goroutines of wald and what they wait for: main from start to exit, *)
(* the handlers of the HTTP server, the log's ticker and the crash timer;  *)
(* the mutex of the log, the store's writeMu, the channels stop and done.  *)
(* What the calls do to the data is in Wal and Store; of the log's bytes   *)
(* only what stands between them and the disk is kept here.                *)
(*                                                                         *)
(* The store's second lock, mu, is taken for moments in which nothing is   *)
(* waited for; such a moment is one step.                                  *)
(***************************************************************************)
EXTENDS Integers, Sequences

CONSTANTS
  Handlers,    \* goroutines of the HTTP server
  Requests,    \* the requests clients send
  AllowCrash,  \* Config.AllowCrash
  Faults       \* what may fail

\* The calls each handler makes, in order, one turn standing for every loop.  lock and
\* unlock are writeMu; append, buffer, sync, read, verify, rescan, replay and stat take
\* the log's mutex; verify is Verify and Corrupt; stat is LastSeq, Metrics and
\* SegmentInfo, which look at a closed log, too.  The deletion of a key is a write; the
\* page of items and the reads of the archives only peek.
Path == [
  write    |-> <<"lock", "append", "apply", "unlock">>,
  batch    |-> <<"lock", "buffer", "sync", "apply", "unlock">>,
  sync     |-> <<"sync">>,
  log      |-> <<"stat", "read">>,
  verify   |-> <<"verify">>,
  snapshot |-> <<"lock", "sync", "peek", "unlock">>,
  recover  |-> <<"rescan", "lock", "clear", "replay", "unlock">>,
  delete   |-> <<"lock", "unlock">>,   \* of an archive
  status   |-> <<"stat", "peek">>,
  crash    |-> <<"arm">>]

LogCalls == {"append", "buffer", "sync", "read", "verify", "rescan", "replay", "stat"}
Moments  == {"apply", "peek", "clear"}
FaultKinds == {"open", "new", "listen", "flush", "rollback", "rotate", "corrupt"}

\* Bytes wait in the group-commit buffer; they are written and an fsync is missing; a
\* rollback that failed has dropped them, and an error told a caller of them; or it has
\* dropped those of a batch whose caller was told nothing.
Marks == {"pending", "unsynced", "lost", "stolen"}

ASSUME DaemonAssumption ==
  /\ {"main", "ticker", "nobody"} \cap Handlers = {}
  /\ Requests \subseteq DOMAIN Path
  /\ AllowCrash \in BOOLEAN /\ Faults \subseteq FaultKinds

VARIABLES
  main,       \* what main does next
  listening,  \* the listener accepts requests
  todo,       \* the calls a handler has left
  ticker,     \* where periodicFlush is
  armed,      \* a crash timer runs
  writeMu,    \* who holds the store's writeMu
  logMu,      \* who holds the log's mutex
  dirty,      \* the marks of what was logged and is not durable
  closed, stop, done,  \* w.closed, and the channels when closed
  handles,    \* the segments' file handles are open
  exit        \* how the process ended

locks   == <<writeMu, logMu>>
closing == <<closed, stop, done, handles>>
vars    == <<main, listening, todo, ticker, armed, locks, dirty, closing, exit>>

Running == exit = "none"

-------------------------------------------------------------------------------
(* Handlers                                                                *)

\* A request, also on a connection that was accepted before Shutdown.
Request(h, r) ==
  /\ Running
  /\ listening \/ main = "drain"
  /\ todo[h] = <<>>
  /\ todo' = [todo EXCEPT ![h] = Path[r]]
  /\ UNCHANGED <<main, listening, ticker, armed, locks, dirty, closing, exit>>

At(h, calls) == Running /\ todo[h] # <<>> /\ Head(todo[h]) \in calls

Advance(h) == todo' = [todo EXCEPT ![h] = Tail(@)]

\* Mutant: an error return leaves writeMu locked.
ReturnErrorLocked(h) ==
  /\ todo' = [todo EXCEPT ![h] = <<>>]
  /\ writeMu' = writeMu

\* An error returns through every deferred unlock.
ReturnError(h) ==
  /\ todo' = [todo EXCEPT ![h] = <<>>]
  /\ writeMu' = IF writeMu = h THEN "nobody" ELSE writeMu

LockWrites(h) ==
  /\ At(h, {"lock"}) /\ writeMu = "nobody"
  /\ writeMu' = h
  /\ Advance(h)
  /\ UNCHANGED <<main, listening, ticker, armed, logMu, dirty, closing, exit>>

UnlockWrites(h) ==
  /\ At(h, {"unlock"})
  /\ writeMu' = "nobody"
  /\ Advance(h)
  /\ UNCHANGED <<main, listening, ticker, armed, logMu, dirty, closing, exit>>

\* Mutant: closed is not looked at.
EnterLogClosed(h) ==
  /\ At(h, LogCalls) /\ logMu = "nobody"
  /\ logMu' = h
  /\ UNCHANGED <<main, listening, todo, ticker, armed, writeMu, dirty, closing, exit>>

\* The mutex is free and the log is open ...
EnterLog(h) ==
  /\ At(h, LogCalls) /\ logMu = "nobody"
  /\ closed => Head(todo[h]) = "stat"
  /\ logMu' = h
  /\ UNCHANGED <<main, listening, todo, ticker, armed, writeMu, dirty, closing, exit>>

\* ... or closed: ErrClosed.
LogClosed(h) ==
  /\ At(h, LogCalls \ {"stat"}) /\ logMu = "nobody" /\ closed
  /\ ReturnError(h)
  /\ UNCHANGED <<main, listening, ticker, armed, logMu, dirty, closing, exit>>

\* A batch has buffered its records and has not called Sync.
InBatch(h) == todo[h] = <<"sync", "apply", "unlock">>

\* Mutant: a flush looks at the buffer only, and forgets the bytes whose fsync failed.
FlushedBuffer(d) == IF "pending" \in d THEN d \ {"pending", "unsynced"} ELSE d

\* A flush that succeeds, or has nothing to do, leaves what is beyond its reach.
Flushed(d) == d \ {"pending", "unsynced"}

\* c's flush drops the buffer: does anyone with a record in it learn of it?
Dropped(c) == IF \E h \in Handlers \ {c} : InBatch(h) THEN {"stolen"} ELSE {"lost"}

\* A flush by c, of a log marked d, fails: the write, which is rolled back and keeps the
\* buffer for a retry, or whose rollback fails, too; or the fsync.
FlushError(d, c) ==
  /\ "flush" \in Faults
  /\ \/ "pending" \in d /\ dirty' = d
     \/ /\ "pending" \in d /\ "rollback" \in Faults
        /\ dirty' = (d \ {"pending"}) \cup Dropped(c)
     \/ /\ d \cap {"pending", "unsynced"} # {}
        /\ dirty' = (d \ {"pending"}) \cup {"unsynced"}

\* A buffered record waits unless its buffer is full, and may have turned to a new
\* segment behind a flush; Read flushes above the watermark, stat never, the others always.
LogReturns(h) ==
  /\ At(h, LogCalls) /\ logMu = h
  /\ dirty' \in CASE Head(todo[h]) = "buffer" -> {dirty \cup {"pending"},
                                                 Flushed(dirty) \cup {"pending"},
                                                 Flushed(dirty)}
                  [] Head(todo[h]) = "read"   -> {dirty, Flushed(dirty)}
                  [] Head(todo[h]) = "stat"   -> {dirty}
                  [] OTHER                    -> {Flushed(dirty)}
  /\ logMu' = "nobody"
  /\ Advance(h)
  /\ UNCHANGED <<main, listening, ticker, armed, writeMu, closing, exit>>

\* The flush of a call fails; that of append and buffer before the new segment, or
\* behind their own record.
FlushFails(h) ==
  /\ At(h, LogCalls \ {"stat"}) /\ logMu = h
  /\ \/ FlushError(dirty, h)
     \/ /\ Head(todo[h]) \in {"append", "buffer"}
        /\ \E d \in {dirty, Flushed(dirty)} : FlushError(d \cup {"pending"}, h)
  /\ logMu' = "nobody"
  /\ ReturnError(h)
  /\ UNCHANGED <<main, listening, ticker, armed, closing, exit>>

\* The new segment is not created; the old one is flushed.
RotateFails(h) ==
  /\ At(h, {"append", "buffer"}) /\ logMu = h /\ "rotate" \in Faults
  /\ dirty' = Flushed(dirty)
  /\ logMu' = "nobody"
  /\ ReturnError(h)
  /\ UNCHANGED <<main, listening, ticker, armed, closing, exit>>

\* A record is damaged, or was dropped and its index entry has stayed.
ReadFails(h) ==
  /\ At(h, {"read", "verify", "rescan", "replay"}) /\ logMu = h
  /\ "corrupt" \in Faults \/ dirty \cap {"lost", "stolen"} # {}
  /\ \/ dirty' = Flushed(dirty)
     \/ Head(todo[h]) = "read" /\ dirty' = dirty
  /\ logMu' = "nobody"
  /\ ReturnError(h)
  /\ UNCHANGED <<main, listening, ticker, armed, closing, exit>>

\* A moment under the store's mu.
Moment(h) ==
  /\ At(h, Moments)
  /\ Advance(h)
  /\ UNCHANGED <<main, listening, ticker, armed, locks, dirty, closing, exit>>

\* handleCrash starts its timer and answers.
Arm(h) ==
  /\ At(h, {"arm"})
  /\ armed' = (armed \/ AllowCrash)
  /\ Advance(h)
  /\ UNCHANGED <<main, listening, ticker, locks, dirty, closing, exit>>

CrashExit ==
  /\ Running /\ armed
  /\ exit' = "crash"
  /\ UNCHANGED <<main, listening, todo, ticker, armed, locks, dirty, closing>>

-------------------------------------------------------------------------------
(* periodicFlush                                                           *)

Tick ==
  /\ Running /\ ticker = "select"
  /\ ticker' = "lock"
  /\ UNCHANGED <<main, listening, todo, armed, locks, dirty, closing, exit>>

TickerLocks ==
  /\ Running /\ ticker = "lock" /\ logMu = "nobody"
  /\ IF closed THEN ticker' = "select" /\ UNCHANGED logMu
               ELSE ticker' = "flush" /\ logMu' = "ticker"
  /\ UNCHANGED <<main, listening, todo, armed, writeMu, dirty, closing, exit>>

TickerFlushes ==
  /\ Running /\ ticker = "flush"
  /\ dirty' = Flushed(dirty)
  /\ ticker' = "select" /\ logMu' = "nobody"
  /\ UNCHANGED <<main, listening, todo, armed, writeMu, closing, exit>>

\* Mutant: the ticker ends with its first error.
TickerGivesUp ==
  /\ Running /\ ticker = "flush"
  /\ FlushError(dirty, "ticker")
  /\ ticker' = "gone" /\ done' = TRUE /\ logMu' = "nobody"
  /\ UNCHANGED <<main, listening, todo, armed, writeMu, closed, stop, handles, exit>>

\* An error of the flush reaches nobody.
TickerFlushFails ==
  /\ Running /\ ticker = "flush"
  /\ FlushError(dirty, "ticker")
  /\ ticker' = "select" /\ logMu' = "nobody"
  /\ UNCHANGED <<main, listening, todo, armed, writeMu, closing, exit>>

TickerStops ==
  /\ Running /\ ticker = "select" /\ stop
  /\ ticker' = "gone" /\ done' = TRUE
  /\ UNCHANGED <<main, listening, todo, armed, locks, dirty, closed, stop, handles, exit>>

-------------------------------------------------------------------------------
(* main                                                                    *)

\* log.Fatal: the process exits and no deferred call runs.
Fatal == /\ exit' = "fatal"
         /\ UNCHANGED <<main, listening, todo, ticker, armed, locks, dirty, closing>>

OpenLog ==
  /\ Running /\ main = "open"
  /\ main' = "new" /\ ticker' = "select" /\ handles' = TRUE
  /\ UNCHANGED <<listening, todo, armed, locks, dirty, closed, stop, done, exit>>

OpenFails == Running /\ main = "open" /\ "open" \in Faults /\ Fatal

\* store.New replays the log under its mutex; then the server starts.
NewStore ==
  /\ Running /\ main = "new" /\ logMu = "nobody"
  /\ main' = "serve" /\ listening' = TRUE
  /\ UNCHANGED <<todo, ticker, armed, locks, dirty, closing, exit>>

NewFails == Running /\ main = "new" /\ logMu = "nobody" /\ "new" \in Faults /\ Fatal

\* ListenAndServe returns an error; main takes it from errCh, or a signal first.
ListenFails ==
  /\ Running /\ main = "serve" /\ listening /\ "listen" \in Faults
  /\ listening' = FALSE
  /\ UNCHANGED <<main, todo, ticker, armed, locks, dirty, closing, exit>>

ServeFails == Running /\ main = "serve" /\ ~listening /\ Fatal

\* A signal: Shutdown closes the listener and waits for the handlers, ...
Signal ==
  /\ Running /\ main = "serve"
  /\ main' = "drain" /\ listening' = FALSE
  /\ UNCHANGED <<todo, ticker, armed, locks, dirty, closing, exit>>

\* ... for ten seconds at most: they may still be at work.
Shutdown ==
  /\ Running /\ main = "drain"
  /\ main' = "close"
  /\ UNCHANGED <<listening, todo, ticker, armed, locks, dirty, closing, exit>>

\* Close
CloseLocks ==
  /\ Running /\ main = "close" /\ logMu = "nobody"
  /\ logMu' = "main" /\ closed' = TRUE
  /\ main' = "flush"
  /\ UNCHANGED <<listening, todo, ticker, armed, writeMu, dirty, stop, done, handles, exit>>

\* Mutant: the mutex is held to the end of Close.
CloseFlushesHoldingLock(flushed) ==
  /\ Running /\ main = "flush"
  /\ IF flushed THEN dirty' = Flushed(dirty) ELSE FlushError(dirty, "main")
  /\ stop' = TRUE /\ logMu' = logMu
  /\ main' = IF flushed THEN "join" ELSE "joinfailed"
  /\ UNCHANGED <<listening, todo, ticker, armed, writeMu, closed, done, handles, exit>>

\* Mutant: the error of the final flush is dropped, as the ticker drops its own.
CloseFlushesDroppingError(flushed) ==
  /\ Running /\ main = "flush"
  /\ IF flushed THEN dirty' = Flushed(dirty) ELSE FlushError(dirty, "main")
  /\ stop' = TRUE /\ logMu' = "nobody"
  /\ main' = "join"
  /\ UNCHANGED <<listening, todo, ticker, armed, writeMu, closed, done, handles, exit>>

\* The final flush; its error is kept for the end.
CloseFlushes(flushed) ==
  /\ Running /\ main = "flush"
  /\ IF flushed THEN dirty' = Flushed(dirty) ELSE FlushError(dirty, "main")
  /\ stop' = TRUE /\ logMu' = "nobody"
  /\ main' = IF flushed THEN "join" ELSE "joinfailed"
  /\ UNCHANGED <<listening, todo, ticker, armed, writeMu, closed, done, handles, exit>>

\* done is closed: the handles are released.
CloseReleases ==
  /\ Running /\ main \in {"join", "joinfailed"} /\ done
  /\ handles' = FALSE
  /\ main' = IF main = "join" THEN "return" ELSE "returnfailed"
  /\ UNCHANGED <<listening, todo, ticker, armed, locks, dirty, closed, stop, done, exit>>

\* The process exits; an error of Close is logged.
MainReturns ==
  /\ Running /\ main \in {"return", "returnfailed"}
  /\ exit' = IF main = "return" THEN "clean" ELSE "failed"
  /\ UNCHANGED <<main, listening, todo, ticker, armed, locks, dirty, closing>>

Exited == ~Running /\ UNCHANGED vars

-------------------------------------------------------------------------------
Init ==
  /\ main = "open" /\ listening = FALSE
  /\ todo = [h \in Handlers |-> <<>>]
  /\ ticker = "none" /\ armed = FALSE
  /\ writeMu = "nobody" /\ logMu = "nobody"
  /\ dirty = {}
  /\ closed = FALSE /\ stop = FALSE /\ done = FALSE /\ handles = FALSE
  /\ exit = "none"

Serve(h) == LockWrites(h) \/ UnlockWrites(h) \/ EnterLog(h) \/ LogClosed(h)
              \/ LogReturns(h) \/ FlushFails(h) \/ RotateFails(h) \/ ReadFails(h)
              \/ Moment(h) \/ Arm(h)

Ticker == Tick \/ TickerLocks \/ TickerFlushes \/ TickerFlushFails \/ TickerStops

Close == CloseLocks \/ (\E flushed \in BOOLEAN : CloseFlushes(flushed)) \/ CloseReleases

Main == OpenLog \/ OpenFails \/ NewStore \/ NewFails \/ ListenFails \/ ServeFails
          \/ Signal \/ Shutdown \/ Close \/ MainReturns

Next == \/ \E h \in Handlers, r \in Requests : Request(h, r)
        \/ \E h \in Handlers : Serve(h)
        \/ CrashExit \/ Ticker \/ Main \/ Exited

Spec == Init /\ [][Next]_vars

\* Go's mutexes hand over to a waiter that starves, select picks every ready case
\* in the end, time passes, and a disk that is asked again and again obeys once.
Fairness ==
  /\ \A h \in Handlers : SF_vars(Serve(h))
  /\ WF_vars(Tick) /\ SF_vars(TickerLocks)
  /\ SF_vars(TickerFlushes) /\ SF_vars(TickerStops)
  /\ WF_vars(Shutdown) /\ SF_vars(Close) /\ WF_vars(MainReturns)

FairSpec == Spec /\ Fairness

-------------------------------------------------------------------------------
(* Properties                                                              *)

\* What a handler may have left: a path from some call on.
Suffixes == {SubSeq(Path[r], n, Len(Path[r])) : r \in DOMAIN Path, n \in 1..6}

Types ==
  /\ main \in {"open", "new", "serve", "drain", "close", "flush", "join", "joinfailed",
               "return", "returnfailed"}
  /\ listening \in BOOLEAN /\ (listening => main = "serve")
  /\ ticker \in {"none", "select", "lock", "flush", "gone"}
  /\ armed \in BOOLEAN /\ dirty \subseteq Marks
  /\ closed \in BOOLEAN /\ stop \in BOOLEAN /\ done \in BOOLEAN /\ handles \in BOOLEAN
  /\ exit \in {"none", "clean", "failed", "fatal", "crash"}

\* Between a path's lock and its unlock.
Holds(left) == /\ \E i \in 1..Len(left) : left[i] = "unlock"
               /\ \A i \in 1..Len(left) : left[i] # "lock"

\* writeMu is held exactly by the handler that is between its lock and its unlock.
WriteLock ==
  /\ todo \in [Handlers -> Suffixes]
  /\ writeMu \in Handlers \cup {"nobody"}
  /\ \A h \in Handlers : writeMu = h <=> Holds(todo[h])

\* So is the log's mutex, by whoever is inside a call.
LogLock ==
  /\ logMu \in Handlers \cup {"main", "ticker", "nobody"}
  /\ \A h \in Handlers : logMu = h => todo[h] # <<>> /\ Head(todo[h]) \in LogCalls
  /\ logMu = "main" <=> main = "flush"
  /\ logMu = "ticker" <=> ticker = "flush"

\* The channels and the handles follow the goroutines that they speak for.
Channels ==
  /\ closed <=> main \in {"flush", "join", "joinfailed", "return", "returnfailed"}
  /\ stop <=> main \in {"join", "joinfailed", "return", "returnfailed"}
  /\ done <=> ticker = "gone"
  /\ done => stop
  /\ handles <=> main \notin {"open", "return", "returnfailed"}

\* Types, and the locks and channels in the hands of those who own them.
TypeOK == Types /\ WriteLock /\ LogLock /\ Channels

\* Nobody is inside a call that uses the segments' files when Close has released
\* them: neither a handler that outlived the server's shutdown nor the ticker.
HandlesOpen ==
  (logMu \in {"ticker", "main"} \/ \E h \in Handlers : logMu = h /\ Head(todo[h]) # "stat")
    => handles

\* A process that closes its log without an error has on disk what its handlers logged,
\* though handlers may go on while it closes the log: nothing waits in the buffer or for
\* an fsync, and nothing was dropped on the way.  Close "flushes the final batch".
CleanExitKeepsAll == exit = "clean" => dirty = {}

\* An update is published only when its records are on disk: Sync says nothing to a batch
\* whose buffer another goroutine has flushed, in part, or tried to (store.go, SetBatch).
\* What an earlier caller was refused is not the batch's affair.
PublishedDurable == \A h \in Handlers : At(h, {"apply"}) => dirty \subseteq {"lost"}

\* A signal ends the process, whatever the handlers and the ticker are doing.
ShutdownEnds == main = "drain" ~> exit # "none"

\* Every request is answered, unless the process ends first.
RequestsAnswered == \A h \in Handlers : (todo[h] # <<>>) ~> (todo[h] = <<>> \/ exit # "none")

\* What is buffered, or written and not synced, becomes durable, unless the process ends
\* first.
BufferFlushed == (dirty \cap {"pending", "unsynced"} # {}) ~> (dirty = {} \/ exit # "none")
===============================================================================
