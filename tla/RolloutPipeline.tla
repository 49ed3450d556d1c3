----------------------------- MODULE RolloutPipeline -----------------------------
(***************************************************************************)
(* A proposal from the review of phase 4 to the rollout of phase 5: the    *)
(* validator, the review, the canary and the promotion engine with their   *)
(* log (governance/proposal-validator.ts, governance-engine.ts,            *)
(* canary-engine.ts, promotion-engine.ts, governance-log.ts), and the      *)
(* rollout pipeline with the snapshots a rollback goes back to             *)
(* (multi-cohort-rollout-pipeline.ts, snapshot-capture.ts).  Calls come    *)
(* in any order: nothing makes a caller wait for phase 4.                  *)
(***************************************************************************)
EXTENDS Integers, Sequences, FiniteSets, Functions

CONSTANTS
  PProposal,    \* proposals
  Valid,        \* the proposals that pass the validator
  Batch,        \* batches: sequences of users, Blank a user that is no name
  Blank,
  Flag,         \* states of the feature flags
  Unset,        \* no config: the variant is not known
  ErrorRate,    \* rates of errors, in thousandths
  CostDelta,    \* deltas of cost, in thousandths
  Latency,      \* in milliseconds
  MaxEntries    \* bound: entries of each log

ASSUME PipelineConstants ==
  /\ Valid \subseteq PProposal /\ MaxEntries \in Nat /\ Unset \notin PProposal
  /\ ErrorRate \subseteq Nat /\ CostDelta \subseteq Int /\ Latency \subseteq Int
  /\ \A b \in Batch : b \in Seq(Range(b)) /\ b # <<>>

VARIABLES
  governanceLog,   \* entryList of phase 4
  variants,        \* the proposals that have a variant (its id follows from the proposal's)
  rolloutLog,      \* assignments, the log of phase 5
  pipelineState,   \* by proposal with a variant: the count of assignments and the status
  captured,        \* by proposal: the snapshot of its variant, if there is one
  decisionLog

pipelineVars == <<governanceLog, variants, rolloutLog, pipelineState, captured, decisionLog>>

PipelineInit ==
  /\ governanceLog = <<>> /\ variants = {} /\ rolloutLog = <<>>
  /\ pipelineState = [p \in {} |-> 0]
  /\ captured = [p \in {} |-> 0] /\ decisionLog = <<>>

-----------------------------------------------------------------------------
\* Phase 4.

\* the canary: every metric passes, or it rolls back
DetermineDecision(m) ==
  IF m.error < 20 /\ m.cost < 2 /\ m.latency < 500 THEN "promote" ELSE "rollback"

Magnitude(n) == IF n < 0 THEN -n ELSE n

\* the promotion engine: costs are in thousandths here, so 0.2 % is 2 and 0.5 % is 5
EvaluateMetrics(m) ==
  IF m.error >= 50 \/ m.cost >= 5 \/ Magnitude(m.latency) >= 500 THEN "rollback"
  ELSE IF m.error < 20 /\ m.cost < 2 /\ Magnitude(m.latency) < 100 THEN "promote" ELSE "hold"

NextPhase(decision) == IF decision = "promote" THEN 5 ELSE 4

\* the older engine goes by the verdict of the canary first
LegacyPromote(m) ==
  IF DetermineDecision(m) = "promote" THEN "promoted"
  ELSE IF m.error > 50 THEN "rolled_back" ELSE "held"

Govern(p, approved, m) ==
  /\ p \in Valid /\ Len(governanceLog) < MaxEntries
  /\ LET heal == IF approved THEN EvaluateMetrics(m) ELSE "hold" IN
       governanceLog' = Append(governanceLog,
         [proposal |-> p, approved |-> approved, canary |-> DetermineDecision(m),
          legacy |-> LegacyPromote(m), heal |-> heal, to |-> NextPhase(heal)])
  /\ UNCHANGED <<variants, rolloutLog, pipelineState, captured, decisionLog>>

-----------------------------------------------------------------------------
\* Phase 5.

ConvertProposalToVariant(p) ==
  /\ p \notin variants
  /\ variants' = variants \union {p}
  /\ pipelineState' = [q \in DOMAIN pipelineState \union {p} |->
                         IF q = p THEN [count |-> 0, status |-> "variant_created"]
                                  ELSE pipelineState[q]]
  /\ UNCHANGED <<governanceLog, rolloutLog, captured, decisionLog>>

\* the users of a batch that are names, in order
Named(batch) ==
  LET kept == {i \in DOMAIN batch : batch[i] # Blank} IN
  [n \in 1..Cardinality(kept) |->
     batch[CHOOSE i \in kept : Cardinality({j \in kept : j <= i}) = n]]

\* p is the proposal of the request and v the one its variant is of; users that are no
\* name are left out, and what is left is appended as it is, repeated users too
BatchAllocate(p, v, batch) ==
  LET named == Named(batch) IN
  /\ v \in variants /\ v = p
  /\ named # <<>>
  /\ Len(rolloutLog) + Len(named) <= MaxEntries
  /\ rolloutLog' = rolloutLog \o [i \in DOMAIN named |-> [proposal |-> p, user |-> named[i]]]
  /\ pipelineState' = [pipelineState EXCEPT ![p].count = @ + Len(named), ![p].status = "assigned"]
  /\ UNCHANGED <<governanceLog, variants, captured, decisionLog>>

Promotion == {"promote_cohort", "promote_all"}

\* a snapshot replaces the one before it; the config is the variant's, if it is known
Capture(p, flags) ==
  captured' = [q \in DOMAIN captured \union {p} |->
                 IF q = p THEN [config |-> IF p \in variants THEN p ELSE Unset, flags |-> flags]
                          ELSE captured[q]]

\* Slip: only the promotion of a cohort takes a snapshot.
RecordWithoutSnapshot(p, decision, flags) ==
  /\ Len(decisionLog) < MaxEntries
  /\ IF decision = "promote_cohort" THEN Capture(p, flags) ELSE captured' = captured
  /\ decisionLog' = Append(decisionLog, [proposal |-> p, decision |-> decision, flags |-> flags,
                                         known |-> p \in variants])
  /\ UNCHANGED <<governanceLog, variants, rolloutLog, pipelineState>>

RecordRolloutDecision(p, decision, flags) ==
  /\ Len(decisionLog) < MaxEntries
  /\ IF decision \in Promotion THEN Capture(p, flags) ELSE captured' = captured
  /\ decisionLog' = Append(decisionLog, [proposal |-> p, decision |-> decision, flags |-> flags,
                                         known |-> p \in variants])
  /\ UNCHANGED <<governanceLog, variants, rolloutLog, pipelineState>>

RolloutDecision == Promotion \union {"continue_observing", "rollback"}

PipelineNext ==
  \/ \E p \in PProposal, approved \in BOOLEAN, e \in ErrorRate, c \in CostDelta, l \in Latency :
       Govern(p, approved, [error |-> e, cost |-> c, latency |-> l])
  \/ \E p \in PProposal : ConvertProposalToVariant(p)
  \/ \E p, v \in PProposal, batch \in Batch : BatchAllocate(p, v, batch)
  \/ \E p \in PProposal, decision \in RolloutDecision, flags \in Flag :
       RecordRolloutDecision(p, decision, flags)

PipelineSpec == PipelineInit /\ [][PipelineNext]_pipelineVars

ValidateLineage(p) ==
  p \in variants /\ \E i \in DOMAIN rolloutLog : rolloutLog[i].proposal = p

-----------------------------------------------------------------------------
\* Properties.

EntriesOf(p)  == {i \in DOMAIN rolloutLog : rolloutLog[i].proposal = p}
Promotions(p) == {i \in DOMAIN decisionLog :
                    decisionLog[i].proposal = p /\ decisionLog[i].decision \in Promotion}

\* What the pipeline keeps of a proposal says what its logs hold, whatever the batches
\* contained and in whatever order proposals are converted, allocated and decided on: the
\* count is the number of its entries, its lineage is valid exactly when its status is
\* "assigned" (multi-cohort-rollout-pipeline.ts:325-333, 463-492), and what phase 6 goes
\* back to is the snapshot of its latest promotion, with the config of the variant if it
\* was known by then, not one of a later decision that promotes nothing (370-388).
StateMatchesLogs ==
  /\ DOMAIN pipelineState = variants
  /\ \A i \in DOMAIN rolloutLog : rolloutLog[i].proposal \in variants
  /\ \A p \in variants :
       /\ pipelineState[p].count = Cardinality(EntriesOf(p))
       /\ ValidateLineage(p) <=> pipelineState[p].status = "assigned"
  /\ \A p \in PProposal :
       /\ Promotions(p) # {} <=> p \in DOMAIN captured
       /\ \A i \in Promotions(p) : (\A j \in Promotions(p) : j <= i) =>
            captured[p] = [config |-> IF decisionLog[i].known THEN p ELSE Unset,
                           flags |-> decisionLog[i].flags]
=============================================================================
