--------------------------- MODULE IngestionPipeline ---------------------------
(***************************************************************************)
(* The ingestion orchestrator (orchestrator/IngestionOrchestrator.ts) over *)
(* its job queue (queue/producer.ts) and dead-letter queue (queue/dlq.ts). *)
(* A run takes a record through validate, extract, store and confirm, each *)
(* with retries and a timeout.  Runs interleave at their awaits.           *)
(*                                                                         *)
(* Only the extractor takes time, so only it can be late: an attempt that  *)
(* times out is one that fails, and its late answer is dropped.  Store and *)
(* confirm do not fail: a full queue answers "rejected", and nobody looks. *)
(* A failure is an Error; the governance proposal of a success is a value. *)
(***************************************************************************)
EXTENDS Naturals, FiniteSetsExt, SequencesExt

CONSTANTS
  Id,          \* record ids
  Invalid,     \* those that are not strings
  NoId,        \* what an idle run works on
  Run,         \* runs that may be under way together
  MaxRetries, MaxQueueSize, MaxDLQSize

ASSUME PipelineConstants ==
  /\ Invalid \subseteq Id /\ NoId \notin Id
  /\ MaxRetries \in Nat
  /\ MaxQueueSize \in Nat \ {0} /\ MaxDLQSize \in Nat \ {0}
  /\ IsFiniteSet(Run)

VARIABLES
  queue,      \* ids of the jobs of the producer
  dlq,        \* ids of the failed jobs, the oldest first
  history,    \* processedRecords: the status by id, or "none"
  pc,         \* the stage each run is at
  on,         \* the id it works on
  attempt,    \* its attempt at the stage, from 0
  enqueued,   \* by id: jobs put into the queue by runs, and
  dead,       \*   failures put into the DLQ, since the history was cleared
  peak,       \* by id: the most runs that were under way together since then
  left        \* ids that a limit, a consumer or an operator has taken out

queues  == <<queue, dlq>>
records == <<enqueued, dead, peak, left>>
vars    == <<queues, history, pc, on, attempt, records>>

Under(i) == {r \in Run : on[r] = i}

Init ==
  /\ queue = <<>> /\ dlq = <<>>
  /\ history = [i \in Id |-> "none"]
  /\ pc = [r \in Run |-> "idle"] /\ on = [r \in Run |-> NoId] /\ attempt = [r \in Run |-> 0]
  /\ enqueued = [i \in Id |-> 0] /\ dead = [i \in Id |-> 0] /\ peak = [i \in Id |-> 0]
  /\ left = {}

Goto(r, from, to) == pc[r] = from /\ pc' = [pc EXCEPT ![r] = to]

\* The next stage begins with its first attempt.
Enter(r, from, to) == Goto(r, from, to) /\ attempt' = [attempt EXCEPT ![r] = 0]

\* The promise settles and is no longer among the active ones.
End(r, from) ==
  /\ Enter(r, from, "idle")
  /\ on' = [on EXCEPT ![r] = NoId]

Begin(r, i) ==
  /\ Enter(r, "idle", "validate")
  /\ on' = [on EXCEPT ![r] = i]
  /\ peak' = [peak EXCEPT ![i] = Max({@, Cardinality(Under(i)) + 1})]
  /\ UNCHANGED <<queues, history, enqueued, dead, left>>

\* Slip: the history is not looked at.
RunStartUnchecked(r, i) == Begin(r, i)

\* run: a record that is in the history is answered from there.
RunStart(r, i) == history[i] = "none" /\ Begin(r, i)

\* processStage: wait and try again, or give up.
StageFails(r, stage) ==
  /\ \/ /\ attempt[r] < MaxRetries
        /\ Goto(r, stage, IF stage = "extract" THEN "redoExtract" ELSE "redoValidate")
     \/ attempt[r] = MaxRetries /\ Goto(r, stage, "error")
  /\ UNCHANGED <<queues, history, on, attempt, records>>

\* Slip: the attempts are not counted.
DelayOverUncounted(r) ==
  /\ Goto(r, "redoExtract", "extract") \/ Goto(r, "redoValidate", "validate")
  /\ UNCHANGED <<queues, history, on, attempt, records>>

DelayOver(r) ==
  /\ Goto(r, "redoExtract", "extract") \/ Goto(r, "redoValidate", "validate")
  /\ attempt' = [attempt EXCEPT ![r] = @ + 1]
  /\ UNCHANGED <<queues, history, on, records>>

Validate(r) ==
  \/ /\ on[r] \notin Invalid
     /\ Enter(r, "validate", "extract")
     /\ UNCHANGED <<queues, history, on, records>>
  \/ on[r] \in Invalid /\ StageFails(r, "validate")

ExtractSucceeds(r) ==
  /\ Enter(r, "extract", "store")
  /\ UNCHANGED <<queues, history, on, records>>

\* The extractor fails, or the timeout fires first.
ExtractFails(r) == StageFails(r, "extract")

Full == Len(queue) >= MaxQueueSize

\* enqueue: a full queue takes nothing.
Enqueue(i) ==
  IF Full
  THEN left' = left \cup {i} /\ UNCHANGED queue
  ELSE queue' = Append(queue, i) /\ UNCHANGED left

\* The record goes on, whatever enqueue has answered ("confirm" or "refused").
Store(r) ==
  /\ Enter(r, "store", IF Full THEN "refused" ELSE "confirm")
  /\ Enqueue(on[r])
  /\ enqueued' = [enqueued EXCEPT ![on[r]] = @ + (IF Full THEN 0 ELSE 1)]
  /\ UNCHANGED <<dlq, history, on, dead, peak>>

Confirm(r) ==
  /\ End(r, "confirm") \/ End(r, "refused")
  /\ history' = [history EXCEPT ![on[r]] = "success"]
  /\ UNCHANGED <<queues, records>>

\* Slip: the limit drops what comes last.
PushKeepsOldest(i) ==
  IF Len(dlq) < MaxDLQSize
  THEN dlq' = Append(dlq, i) /\ UNCHANGED left
  ELSE left' = left \cup {Head(dlq)} /\ UNCHANGED dlq

\* push: the oldest record makes room.
Push(i) ==
  IF Len(dlq) < MaxDLQSize
  THEN dlq' = Append(dlq, i) /\ UNCHANGED left
  ELSE dlq' = Append(Tail(dlq), i) /\ left' = left \cup {Head(dlq)}

HandleError(r) ==
  /\ End(r, "error")
  /\ Push(on[r])
  /\ history' = [history EXCEPT ![on[r]] = "dlq"]
  /\ dead' = [dead EXCEPT ![on[r]] = @ + 1]
  /\ UNCHANGED <<queue, enqueued, peak>>

----------------------------------------------------------------------------
(* Those around the pipeline.                                              *)

\* A consumer of the queue.
Dequeue ==
  /\ queue # <<>>
  /\ queue' = Tail(queue)
  /\ left' = left \cup {Head(queue)}
  /\ UNCHANGED <<dlq, history, pc, on, attempt, enqueued, dead, peak>>

\* recover takes the first record of the id out of the DLQ; who called it
\* puts the job back into the queue.
Redrive(i) ==
  /\ i \in ToSet(dlq)
  /\ dlq' = RemoveFirst(dlq, i)
  /\ queue' = IF Full THEN queue ELSE Append(queue, i)
  /\ left' = left \cup {i}
  /\ UNCHANGED <<history, pc, on, attempt, enqueued, dead, peak>>

ClearQueues ==
  /\ queue' = <<>> /\ dlq' = <<>>
  /\ left' = left \cup ToSet(queue) \cup ToSet(dlq)
  /\ UNCHANGED <<history, pc, on, attempt, enqueued, dead, peak>>

\* clearProcessingHistory: runs under way go on.
ClearHistory ==
  /\ history' = [i \in Id |-> "none"]
  /\ enqueued' = [i \in Id |-> Cardinality({r \in Under(i) : pc[r] = "confirm"})]
  /\ dead' = [i \in Id |-> 0]
  /\ peak' = [i \in Id |-> Cardinality(Under(i))]
  /\ UNCHANGED <<queues, pc, on, attempt, left>>

Step(r) ==
  \/ Validate(r) \/ ExtractSucceeds(r) \/ ExtractFails(r) \/ DelayOver(r)
  \/ Store(r) \/ Confirm(r) \/ HandleError(r)

Next ==
  \/ \E r \in Run : Step(r) \/ \E i \in Id : RunStart(r, i)
  \/ \E i \in Id : Redrive(i)
  \/ Dequeue \/ ClearQueues \/ ClearHistory

Spec == Init /\ [][Next]_vars

\* The extractor may hang; its timeout fires, delays end and what is ready to
\* run runs.
FairSpec == Spec /\ \A r \in Run : WF_vars(Step(r))

----------------------------------------------------------------------------
(* Properties.                                                             *)

\* A record is put into the queue or the DLQ at most as often as runs of it
\* overlapped: once, when they never did, whatever failed and was retried and
\* however often it was submitted again (IngestionOrchestrator.ts:87-91).
OutcomesBounded == \A i \in Id : enqueued[i] + dead[i] <= peak[i]

\* A record reported as a success was handed to the queue, and one reported
\* as failed is in the DLQ, unless a limit, a consumer or an operator has
\* taken it out: nothing vanishes between the stages, also when runs of one
\* record overlap and end differently (IngestionOrchestrator.ts:131-170, 219-238).
Traceable ==
  \A i \in Id \ left :
    /\ history[i] = "success" => i \in ToSet(queue)
    /\ history[i] = "dlq" => i \in ToSet(dlq)

\* Every run ends, though the extractor may hang (IngestionOrchestrator.ts:185-213).
RunsEnd == \A r \in Run : pc[r] # "idle" ~> pc[r] = "idle"

\* IngestionOrchestrator.ts:39 says that the orchestrator "ensures
\* idempotency": until the history is cleared no record is enqueued twice.
EnqueuedOnce == \A i \in Id : enqueued[i] <= 1
=============================================================================
