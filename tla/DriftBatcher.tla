---------------------------- MODULE DriftBatcher ----------------------------
(***************************************************************************)
(* batch/driftBatcher.ts: requests for drift checks wait in a queue until  *)
(* it is full, its timer runs out or the job is executed.                  *)
(*                                                                         *)
(* Nothing takes the batch flush cuts off: the job that should execute it  *)
(* never fills its results.  handed stands for the batches as flush leaves *)
(* them.                                                                   *)
(***************************************************************************)
EXTENDS Naturals, Sequences

CONSTANTS
  MaxBatchSize,
  Interval,      \* flushIntervalMs, in units of time
  MaxRequests    \* bound: requests added

ASSUME BatcherConstants ==
  /\ MaxBatchSize \in Nat \ {0} /\ Interval \in Nat \ {0} /\ MaxRequests \in Nat

NoTimer == Interval + 1

VARIABLES
  requests,      \* the age of each request in the queue
  flushTimer,    \* units until it fires, or NoTimer
  handed,        \* size and greatest age of each batch flush took
  asked          \* requests added so far

batcherVars == <<requests, flushTimer, handed, asked>>

BatcherInit == requests = <<>> /\ flushTimer = NoTimer /\ handed = {} /\ asked = 0

\* Slip: a batch that is full leaves the timer of its first request.
FlushKeepsTimer(waiting) ==
  /\ handed' = IF waiting = <<>> THEN handed
               ELSE handed \union {[size |-> Len(waiting), age |-> waiting[1]]}
  /\ requests' = <<>>
  /\ flushTimer' = IF flushTimer = 0 THEN NoTimer ELSE flushTimer

Flush(waiting) ==
  /\ flushTimer' = NoTimer
  /\ handed' = IF waiting = <<>> THEN handed
               ELSE handed \union {[size |-> Len(waiting), age |-> waiting[1]]}
  /\ requests' = SubSeq(waiting, MaxBatchSize + 1, Len(waiting))

Add ==
  /\ asked < MaxRequests
  /\ asked' = asked + 1
  /\ LET waiting == Append(requests, 0)
     IN IF Len(waiting) >= MaxBatchSize THEN Flush(waiting)
        ELSE /\ requests' = waiting
             /\ flushTimer' = IF flushTimer = NoTimer THEN Interval ELSE flushTimer
             /\ UNCHANGED handed

\* execute of the job flushes what is left
Execute == Flush(requests) /\ UNCHANGED asked

FlushTimerFires == flushTimer = 0 /\ Flush(requests) /\ UNCHANGED asked

Clear ==
  /\ requests # <<>>
  /\ requests' = <<>> /\ flushTimer' = NoTimer
  /\ UNCHANGED <<handed, asked>>

\* a timer that is due fires before time goes on
Elapse ==
  /\ flushTimer \in 1 .. Interval
  /\ flushTimer' = flushTimer - 1
  /\ requests' = [i \in DOMAIN requests |-> requests[i] + 1]
  /\ UNCHANGED <<handed, asked>>

BatcherNext == Add \/ Execute \/ FlushTimerFires \/ Clear \/ Elapse

BatcherSpec == BatcherInit /\ [][BatcherNext]_batcherVars

-----------------------------------------------------------------------------
(* The timer that runs is always that of the oldest request, whichever of   *)
(* the ways the batches before it went: no request waits without a timer or *)
(* longer than the interval, and the queue never reaches the size of a      *)
(* batch (driftBatcher.ts:33-71).                                           *)
TimerIsOfOldest ==
  /\ IF requests = <<>> THEN flushTimer = NoTimer ELSE requests[1] + flushTimer = Interval
  /\ Len(requests) < MaxBatchSize
  /\ \A b \in handed : b.size <= MaxBatchSize /\ b.age <= Interval
=============================================================================
