------------------------------- MODULE Options -------------------------------
(***************************************************************************)
(* Options.normalized and Validate (options.go): which configurations Open *)
(* accepts, and what Wal and Daemon may take for granted of them.  Sizes   *)
(* are in bytes here.  An int holds -IntMax - 1 .. IntMax, and a sum of    *)
(* two of them wraps around.                                               *)
(***************************************************************************)
EXTENDS Integers

CONSTANT IntMax   \* 2^63 - 1; any width that holds the defaults

WideEnough == IntMax \in Nat /\ IntMax >= 1024 * 1024 * 1024

Int64 == -IntMax - 1..IntMax

HeaderSize == 19

SyncAlways == 0
SyncBatch  == 1
SyncAsync  == 2

\* ReplayFn is set, or nil; a policy is an unsigned byte.
Option == [SyncPolicy : 0..255, BatchSize : Int64, FlushInterval : Int64,
           MaxSegmentBytes : Int64, MaxRecordBytes : Int64, MaxPayloadBytes : Int64,
           ReplayFn : BOOLEAN]

\* The interval in nanoseconds.
DefaultOptions ==
  [SyncPolicy |-> SyncBatch, BatchSize |-> 64 * 1024, FlushInterval |-> 10 * 1000 * 1000,
   MaxSegmentBytes |-> 64 * 1024 * 1024, MaxRecordBytes |-> 32 * 1024,
   MaxPayloadBytes |-> 1024 * 1024 * 1024,
   ReplayFn |-> FALSE]

\* The zero value; SyncAlways alone is no different from it.
Unset(o) ==
  /\ o.SyncPolicy = SyncAlways /\ o.BatchSize = 0 /\ o.FlushInterval = 0
  /\ o.MaxSegmentBytes = 0 /\ o.MaxRecordBytes = 0 /\ o.MaxPayloadBytes = 0 /\ ~o.ReplayFn

Or(n, default) == IF n = 0 THEN default ELSE n

Defaulted(o) ==
  [SyncPolicy      |-> IF Unset(o) THEN DefaultOptions.SyncPolicy ELSE o.SyncPolicy,
   BatchSize       |-> Or(o.BatchSize, DefaultOptions.BatchSize),
   FlushInterval   |-> Or(o.FlushInterval, DefaultOptions.FlushInterval),
   MaxSegmentBytes |-> Or(o.MaxSegmentBytes, DefaultOptions.MaxSegmentBytes),
   MaxRecordBytes  |-> Or(o.MaxRecordBytes, DefaultOptions.MaxRecordBytes),
   MaxPayloadBytes |-> Or(o.MaxPayloadBytes, DefaultOptions.MaxPayloadBytes),
   ReplayFn        |-> o.ReplayFn]

\* The sum of two ints.
Plus(m, n) == IF m + n > IntMax THEN m + n - 2 * (IntMax + 1) ELSE m + n

\* The checks behind the defaults: none of them returns ErrInvalidOption.
Checked(o) ==
  /\ o.SyncPolicy <= SyncAsync
  /\ o.BatchSize >= HeaderSize /\ o.MaxRecordBytes >= 1
  /\ o.MaxPayloadBytes >= o.MaxRecordBytes
  /\ o.MaxSegmentBytes >= Plus(HeaderSize, o.MaxRecordBytes)
  /\ o.FlushInterval >= 0

\* Validate returns n without an error.
Validates(o, n) == n = Defaulted(o) /\ Checked(n)
==============================================================================
