----------------------------- MODULE SloWebhook -----------------------------
(***************************************************************************)
(* webhooks/SLOViolationWebhook.ts: violations are queued and one loop     *)
(* sends them on, each to its targets at once and to each target again     *)
(* until it takes it or has failed too often.                              *)
(*                                                                         *)
(* Events have the number under which they were emitted.  A post that      *)
(* fails may have been taken all the same: its answer was lost, or came    *)
(* after the timeout.                                                      *)
(***************************************************************************)
EXTENDS Naturals, Sequences, FiniteSets

CONSTANTS
  Target,       \* the configured urls
  Urgent,       \* those of slack and teams, for HIGH and CRITICAL
  MaxAttempts,  \* retries
  Emission,     \* what emit and emitMany are called with: by event, whether it is urgent
  MaxEmitted    \* bound: events

ASSUME WebhookConstants ==
  /\ MaxAttempts \in Nat \ {0} /\ MaxEmitted \in Nat
  /\ Urgent \subseteq Target /\ Emission \subseteq Seq(BOOLEAN) \ {<<>>}

VARIABLES
  emitted,      \* the events, in the order of the queue
  dispatched,      \* the last one that was taken from the queue
  isProcessing,
  posts,        \* of the dispatched event, by target: failed posts, and where its next one is
  log           \* by target: every post, as the event and whether it was taken

webhookVars == <<emitted, dispatched, isProcessing, posts, log>>

NothingToPost == [t \in Target |-> [failed |-> 0, at |-> "settled"]]

WebhookInit ==
  /\ emitted = <<>> /\ dispatched = 0 /\ isProcessing = FALSE
  /\ posts = NothingToPost /\ log = [t \in Target |-> <<>>]

\* the targets dispatch sends the event to
TargetsOf(urgent) == IF urgent THEN Target ELSE Target \ Urgent

Dispatch(urgent) ==
  posts' = [t \in Target |-> [failed |-> 0,
                              at |-> IF t \in TargetsOf(urgent) THEN "posting" ELSE "settled"]]

\* the loop goes on while there are events in the queue
ProcessQueue(events) ==
  IF dispatched < Len(events)
  THEN /\ isProcessing' = TRUE /\ dispatched' = dispatched + 1 /\ Dispatch(events[dispatched + 1])
  ELSE isProcessing' = FALSE /\ UNCHANGED <<dispatched, posts>>

Emit(events) ==
  /\ Len(emitted) + Len(events) <= MaxEmitted
  /\ emitted' = emitted \o events
  /\ IF isProcessing THEN UNCHANGED <<isProcessing, dispatched, posts>> ELSE ProcessQueue(emitted')
  /\ UNCHANGED log

PostTo(t, taken) ==
  /\ posts[t].at = "posting"
  /\ log' = [log EXCEPT ![t] = Append(@, [event |-> dispatched, taken |-> taken])]
  /\ posts' = [posts EXCEPT ![t].failed = IF taken THEN @ ELSE @ + 1,
                            ![t].at = IF taken THEN "settled" ELSE "delayed"]
  /\ UNCHANGED <<emitted, dispatched, isProcessing>>

\* withRetry waits after its last attempt, too
PostAgain(t) ==
  /\ posts[t].at = "delayed"
  /\ posts' = [posts EXCEPT ![t].at =
                 IF posts[t].failed < MaxAttempts THEN "posting" ELSE "settled"]
  /\ UNCHANGED <<emitted, dispatched, isProcessing, log>>

\* Slip: the loop waits for one of the targets.
SettledByOne ==
  /\ isProcessing
  /\ \E t \in TargetsOf(emitted[dispatched]) : posts[t].at = "settled"
  /\ ProcessQueue(emitted)
  /\ UNCHANGED <<emitted, log>>

\* allSettled: a target that failed does not stop the others, or the loop
Settled ==
  /\ isProcessing
  /\ \A t \in Target : posts[t].at = "settled"
  /\ ProcessQueue(emitted)
  /\ UNCHANGED <<emitted, log>>

WebhookNext ==
  \/ \E events \in Emission : Emit(events)
  \/ \E t \in Target : PostAgain(t) \/ \E taken \in BOOLEAN : PostTo(t, taken)
  \/ Settled

WebhookSpec == WebhookInit /\ [][WebhookNext]_webhookVars

-----------------------------------------------------------------------------
\* the posts of an event to a target
PostsOf(t, e) == {i \in DOMAIN log[t] : log[t][i].event = e}

\* Only the last post was taken; or none was, and there were as many as allowed.
Tried(t, e) ==
  /\ PostsOf(t, e) # {} /\ Cardinality(PostsOf(t, e)) <= MaxAttempts
  /\ \A i, j \in PostsOf(t, e) : log[t][i].taken => j <= i
  /\ Cardinality(PostsOf(t, e)) = MaxAttempts \/ \E i \in PostsOf(t, e) : log[t][i].taken

(* No event is left behind, whenever it is emitted: one that waits has the  *)
(* loop running.  An event the loop is done with was posted to each of its  *)
(* targets until that one took it or had failed on it as often as allowed,  *)
(* whatever the others did; and a target gets the events in the order they  *)
(* were emitted, a later one never before the last retry of an earlier one  *)
(* (SLOViolationWebhook.ts:78-136, 228-244).                                *)
EveryEventServed ==
  /\ dispatched < Len(emitted) => isProcessing
  /\ \A e \in 1 .. Len(emitted), t \in Target :
       e < dispatched \/ (e = dispatched /\ ~ isProcessing) =>
         IF t \in TargetsOf(emitted[e]) THEN Tried(t, e) ELSE PostsOf(t, e) = {}
  /\ \A t \in Target : \A i, j \in DOMAIN log[t] : i <= j => log[t][i].event <= log[t][j].event
=============================================================================
