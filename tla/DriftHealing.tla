------------------------------ MODULE DriftHealing ------------------------------
(***************************************************************************)
(* Drift between the waves of a run: the events and the vectors they are   *)
(* correlated to (autonomy/DriftCorrelationGraph.ts), the primitives that  *)
(* heal a vector (HealingPrimitives.ts), the gate that lets the run resume *)
(* (ResumeGate.ts) and the older healer that decides on single signals     *)
(* (ExecutionPolicyInterceptor.AutoHealing.ts).                            *)
(***************************************************************************)
EXTENDS Integers, FiniteSets, SequencesExt

CONSTANTS
  DriftEvent,   \* events a wave may report: [wave, failure, level, files], level from 1
                \*   (LOW) to 4 (CRITICAL)
  Change,       \* changes of a run: sequences of files
  Module,       \* by file: the directory it is in, the empty path for one at the top
  Inside,       \* by file: the paths that its own path contains
  PlanScope,    \* scopes a plan may have before it is healed
  Revision,     \* what the gate may be given: records of [criteria, negative, justified,
                \*   inScope, plan, tight, applied]
  MaxEvents     \* bound: events of a run

ASSUME DriftConstants ==
  /\ MaxEvents \in Nat
  /\ \A e \in DriftEvent :
       /\ e.level \in 1..4
       /\ e.failure \in {"KITCHEN_SINK", "WRONG_ABSTRACTION", "OPTIMISTIC_PATH", "RUNAWAY_REFACTOR"}
  /\ \A changes \in Change : \A i \in DOMAIN changes :
       {changes[i], Module[changes[i]]} \subseteq Inside[changes[i]]

VARIABLES
  events,     \* sequence of the events recorded
  healing,    \* what the last call, if it composed primitives, made of a plan and its criteria
  decision    \* what it answered, if it was one of the gate

driftVars == <<events, healing, decision>>

Unhealed(failure, scope, changes) ==
  [failure |-> failure, scope |-> scope, changes |-> changes, tightened |-> FALSE, frozen |-> FALSE, negative |-> FALSE]

DriftInit ==
  /\ events = <<>> /\ healing = Unhealed("none", {}, <<>>) /\ decision = "none"

Forget == healing' = Unhealed("none", {}, <<>>) /\ decision' = "none"

-----------------------------------------------------------------------------
\* The correlation graph.

Edge == <<[from |-> "B", to |-> "F"], [from |-> "C", to |-> "E"], [from |-> "D", to |-> "F"],
          [from |-> "E", to |-> "F"], [from |-> "F", to |-> "B"]>>

\* five hops back, by the first edge that leads to the wave: B and F lead to each other
TraceRootCause ==
  LET Back(w) == LET into == SelectSeq(Edge, LAMBDA e : e.to = w) IN
                 IF into = <<>> THEN w ELSE into[1].from
  IN [wave \in {"B", "C", "D", "E", "F"} |-> Back(Back(Back(Back(Back(wave)))))]

Related(f, g) == {f, g} \in {{"KITCHEN_SINK", "RUNAWAY_REFACTOR"}, {"OPTIMISTIC_PATH", "WRONG_ABSTRACTION"}}

\* the events an event is correlated with, itself among them
Correlated(i) ==
  {i} \union {j \in DOMAIN events :
                /\ \E k \in DOMAIN Edge : Edge[k] = [from |-> events[i].wave, to |-> events[j].wave]
                /\ \/ Related(events[i].failure, events[j].failure)
                   \/ events[i].files \intersect events[j].files # {}}

\* the severity of a vector is the average of the levels, a quarter more for every further
\* wave; Weight(i) against Quarters(i, n) compares it with n quarters.  The levels add up
\* to as many as there are pairs of an event and one of its levels.
Levels(i) == Cardinality({p \in Correlated(i) \X (1..4) : p[2] <= events[p[1]].level})
Weight(i) == Levels(i) * (3 + Cardinality({events[j].wave : j \in Correlated(i)}))
Quarters(i, n) == 4 * n * Cardinality(Correlated(i))

\* Slip: one vector for each root cause, whatever failed.
RootKey(i) == <<TraceRootCause[events[i].wave]>>

Key(i) == <<TraceRootCause[events[i].wave], events[i].failure>>

\* every event has a vector, and of those with the same key the first stays
Vectors == {i \in DOMAIN events : \A j \in 1..(i - 1) : Key(j) # Key(i)}

\* a vector leaves out a root cause that is its own wave, so the two always differ and
\* the justification is always asked for
RecommendPrimitives(i) ==
  (CASE events[i].failure = "KITCHEN_SINK"      -> <<"shrink_scope", "tighten_criteria">>
     [] events[i].failure = "WRONG_ABSTRACTION" -> <<"require_abstraction_step">>
     [] events[i].failure = "OPTIMISTIC_PATH"   -> <<"inject_negative_tests">>
     [] events[i].failure = "RUNAWAY_REFACTOR"  -> <<"enforce_surgical_diff", "freeze_architecture">>)
  \o <<"require_dependency_justification">>

RecordEvent(e) ==
  /\ Len(events) < MaxEvents
  /\ events' = Append(events, e)
  /\ Forget

-----------------------------------------------------------------------------
\* The primitives.  Each gets the context the one before has left.

Unrelated(h) == h.scope # {} /\ \E i \in DOMAIN h.changes : Inside[h.changes[i]] \intersect h.scope = {}

\* the abstraction step comes before the others and takes none of their scope, and the
\* justifications are a note in the criteria
ApplyPrimitive(h, primitive) ==
  CASE primitive = "shrink_scope" /\ h.changes # <<>> -> [h EXCEPT !.scope = {Module[h.changes[1]]}]
    [] primitive = "tighten_criteria" /\ Unrelated(h) -> [h EXCEPT !.tightened = TRUE]
    [] primitive = "inject_negative_tests" -> [h EXCEPT !.negative = TRUE]
    [] primitive = "enforce_surgical_diff" /\ Len(h.changes) > 1 -> [h EXCEPT !.scope = {h.changes[1]}]
    [] primitive = "freeze_architecture" -> [h EXCEPT !.frozen = TRUE]
    [] OTHER -> h

\* what each of them, in turn, makes of h
Compose(h, primitives) ==
  LET healed[n \in 0..Len(primitives)] ==
        IF n = 0 THEN h ELSE ApplyPrimitive(healed[n - 1], primitives[n])
  IN healed

Heal(i, scope, changes) ==
  LET primitives == RecommendPrimitives(i) IN
  /\ i \in Vectors
  /\ healing' = Compose(Unhealed(events[i].failure, scope, changes), primitives)[Len(primitives)]
  /\ decision' = "none"
  /\ UNCHANGED events

-----------------------------------------------------------------------------
\* The gate.

Hard == {"KITCHEN_SINK", "RUNAWAY_REFACTOR"}

\* tight: at most ten changes of files; inScope: no criterion names a file out of scope
Contradicted(vectors, r) ==
  LET rooted == {i \in vectors : TraceRootCause[events[i].wave] # events[i].wave} IN
  \/ ~ r.inScope
  \/ ~ r.tight /\ \E i \in vectors : Weight(i) > Quarters(i, 3)
  \/ Cardinality({events[i].failure : i \in vectors}) > 2
  \/ Cardinality({TraceRootCause[events[i].wave] : i \in rooted}) > 1

\* the criteria are complete only with negative tests among them
Allowed(vectors, r) ==
  /\ r.criteria /\ r.negative /\ r.justified /\ r.plan
  /\ vectors # {} => r.applied
  /\ \A i \in vectors : events[i].failure \notin Hard
  /\ \A i \in vectors : Weight(i) < Quarters(i, 2)
  /\ ~ Contradicted(vectors, r)

EvaluateGate(r) ==
  /\ decision' = IF Allowed(Vectors, r) THEN "resume" ELSE "halt"
  /\ healing' = Unhealed("none", {}, <<>>)
  /\ UNCHANGED events

\* the older healer: what it adds to a plan and its criteria is for the failure alone, and
\* the heading it gives each makes sure that neither is empty, not even when it was
Revised(failure) ==
  [plan |-> TRUE, criteria |-> TRUE,
   constraints |-> {"enforceInstincts", "haltOnViolation"}
                     \union (IF failure \in Hard THEN {"requireManualApprovalToResume"} ELSE {})]

DecideResume(failure) ==
  LET revised == Revised(failure) IN
  /\ failure \notin Hard
  /\ revised.plan /\ revised.criteria /\ revised.constraints # {}

DriftNext ==
  \/ \E e \in DriftEvent : RecordEvent(e)
  \/ \E i \in 1..MaxEvents, scope \in PlanScope, changes \in Change : Heal(i, scope, changes)
  \/ \E r \in Revision : EvaluateGate(r)

DriftSpec == DriftInit /\ [][DriftNext]_driftVars

-----------------------------------------------------------------------------
\* Properties.

\* A run with a hard drift never resumes by itself: when the gate lets it, none of the
\* events recorded by then failed hard, not even one whose vector was merged into that
\* of another, the older healer would have let each of them resume, and the vectors the
\* gate saw were of low severity (ResumeGate.ts:137-296, DriftCorrelationGraph.ts:346-360).
HardNeverResumes ==
  decision = "resume" =>
    /\ \A i \in DOMAIN events : events[i].failure \notin Hard /\ DecideResume(events[i].failure)
    /\ Cardinality({events[i].failure : i \in DOMAIN events}) <= 2

\* After the primitives of a hard drift have been applied no changed file is out of hand:
\* it is in the scope of the healed plan, or the criteria were tightened because of it or
\* the architecture frozen (HealingPrimitives.ts:347-396).
HealedFilesConfined ==
  healing.failure \in Hard =>
    \/ healing.tightened \/ healing.frozen
    \/ \A i \in DOMAIN healing.changes : Inside[healing.changes[i]] \intersect healing.scope # {}

\* What a hard drift asks for is done, by the gate and by the primitives.
HardDriftHandled == HardNeverResumes /\ HealedFilesConfined
=============================================================================
