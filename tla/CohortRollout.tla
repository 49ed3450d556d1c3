------------------------------ MODULE CohortRollout ------------------------------
(***************************************************************************)
(* The engines of a rollout by cohorts: assignments and their progress     *)
(* (governance/multi-cohort-engine.ts), the observations of the custom     *)
(* metrics (custom-metrics-engine.ts) and the decisions on cohorts         *)
(* (cohort-promotion-engine.ts).  The engines know nothing of each other:  *)
(* a caller may make any call of any of them at any time, and hands the    *)
(* promotion engine what the metrics engine has recorded.  A proposal has  *)
(* one variant.                                                            *)
(***************************************************************************)
EXTENDS Integers, FiniteSets, SequencesExt

CONSTANTS
  Cohort,       \* cohorts that may be registered
  CohortSize,   \* by cohort: its size in thousandths
  Proposal,
  User,         \* users an assignment may be made for
  NoUser,       \* an assignment without a user
  Target,       \* the sizes asked for, in thousandths
  Metric,       \* the registered metrics, each a record [name, op, threshold]
  Value,        \* values that may be observed
  MaxAssigned,  \* bound: assignments
  MaxProgressed, \* bound: progressions
  MaxObserved,  \* bound: observations
  MaxDecided    \* bound: records in the list of decisions

ASSUME CohortConstants ==
  /\ CohortSize \in [Cohort -> 1..1000] /\ Target \subseteq 0..1000
  /\ MaxAssigned \in Nat /\ MaxProgressed \in Nat
  /\ MaxObserved \in Nat /\ MaxDecided \in Nat /\ Value \subseteq Int
  /\ \A m \in Metric : m.op \in {"<", ">", "<=", ">=", "==", "!="} /\ m.threshold \in Int

VARIABLES
  cohorts,        \* the cohorts in the order of their registration
  assignments,    \* sequence of assignments
  progressions,   \* sequence of progression records
  snapshots,      \* by metric, proposal and cohort: what was observed
  decisions,      \* the cohorts the promotion engine has a decision of in its map
  decisionList    \* sequence of decisions

rolloutVars == <<cohorts, assignments, progressions, snapshots,
                 decisions, decisionList>>

Nothing == [n |-> 0, sum |-> 0]

CohortInit ==
  /\ cohorts = <<>> /\ assignments = <<>> /\ progressions = <<>>
  /\ snapshots = [o \in Metric \X (Proposal \X Cohort) |-> Nothing]
  /\ decisions = {} /\ decisionList = <<>>

-----------------------------------------------------------------------------
\* Assignments.

RegisterCohort(c) ==
  /\ c \notin ToSet(cohorts)
  /\ cohorts' = Append(cohorts, c)
  /\ UNCHANGED <<assignments, progressions, snapshots, decisions, decisionList>>

\* no cohort is registered twice
Registration(c) == CHOOSE n \in DOMAIN cohorts : cohorts[n] = c

\* the sort by size is stable: equal sizes stay in the order of registration
Precedes(c, d) ==
  \/ CohortSize[c] < CohortSize[d]
  \/ CohortSize[c] = CohortSize[d] /\ Registration(c) < Registration(d)

NextCohorts(c) ==
  {d \in ToSet(cohorts) : /\ Precedes(c, d)
                          /\ \A e \in ToSet(cohorts) : ~ (Precedes(c, e) /\ Precedes(e, d))}

Absolute(n) == IF n < 0 THEN -n ELSE n
Larger(a, b) == IF a < b THEN b ELSE a

\* within 1.5 %, or 0.0015
Matches(c, size) ==
  1000 * Absolute(CohortSize[c] - size) < Larger(15 * CohortSize[c], 1500)

\* the first cohort that matches
Allocate(p, u, size) ==
  /\ Len(assignments) < MaxAssigned
  /\ \A i \in DOMAIN assignments : <<assignments[i].proposal, assignments[i].user>> # <<p, u>>
  /\ \E n \in DOMAIN cohorts :
       /\ Matches(cohorts[n], size) /\ \A m \in 1..(n - 1) : ~ Matches(cohorts[m], size)
       /\ assignments' = Append(assignments, [proposal |-> p, user |-> u, cohort |-> cohorts[n],
                                              size |-> CohortSize[cohorts[n]], stage |-> 0])
  /\ UNCHANGED <<cohorts, progressions, snapshots, decisions, decisionList>>

Moved(assignment, c) ==
  [assignment EXCEPT !.cohort = c, !.size = CohortSize[c], !.stage = assignment.stage + 1]

\* Slip: the record names the cohort that was reached as the one that was left.
ProgressUnlogged(i) ==
  \E next \in NextCohorts(assignments[i].cohort) :
    /\ Len(progressions) < MaxProgressed
    /\ progressions' = Append(progressions, [assignment |-> i, from |-> next,
                                             to |-> next, stage |-> assignments[i].stage + 1])
    /\ assignments' = [assignments EXCEPT ![i] = Moved(assignments[i], next)]
    /\ UNCHANGED <<cohorts, snapshots, decisions, decisionList>>

Progress(i) ==
  \E next \in NextCohorts(assignments[i].cohort) :
    /\ Len(progressions) < MaxProgressed
    /\ progressions' = Append(progressions, [assignment |-> i, from |-> assignments[i].cohort,
                                             to |-> next, stage |-> assignments[i].stage + 1])
    /\ assignments' = [assignments EXCEPT ![i] = Moved(assignments[i], next)]
    /\ UNCHANGED <<cohorts, snapshots, decisions, decisionList>>

-----------------------------------------------------------------------------
\* Metrics.

\* kept as the number and the sum of the values, which is all the average needs; an
\* observation older than the last one is refused, which is a call that was not made
Observe(m, k, v) ==
  /\ FoldSet(LAMBDA o, n : n + snapshots[o].n, 0, DOMAIN snapshots) < MaxObserved
  /\ snapshots' = [snapshots EXCEPT ![<<m, k>>] = [n |-> @.n + 1, sum |-> @.sum + v]]
  /\ UNCHANGED <<cohorts, assignments, progressions, decisions, decisionList>>

Observed(m, k) == snapshots[<<m, k>>].n > 0

ClearObservations(k) ==
  /\ \E m \in Metric : Observed(m, k)
  /\ snapshots' = [o \in DOMAIN snapshots |-> IF o[2] = k THEN Nothing ELSE snapshots[o]]
  /\ UNCHANGED <<cohorts, assignments, progressions, decisions, decisionList>>

\* the average of the observations against the threshold, both times their number
Passes(m, k) ==
  LET sum == snapshots[<<m, k>>].sum  bar == m.threshold * snapshots[<<m, k>>].n IN
  CASE m.op = "<"  -> sum < bar   [] m.op = ">"  -> sum > bar
    [] m.op = "<=" -> sum <= bar  [] m.op = ">=" -> sum >= bar
    [] m.op = "==" -> sum = bar   [] m.op = "!=" -> sum # bar

-----------------------------------------------------------------------------
\* Decisions.

Status(m, k) ==
  IF ~ Observed(m, k) THEN "incomplete" ELSE IF Passes(m, k) THEN "pass" ELSE "fail"

Verdict(k, complete) ==
  LET statuses == {Status(m, k) : m \in Metric} IN
  IF "fail" \in statuses THEN "rollback"
  ELSE IF complete /\ statuses = {"pass"} THEN "promote" ELSE "hold"

Decision(i, c, p, verdict) == [assignment |-> i, cohort |-> c, proposal |-> p, decision |-> verdict]

\* the map of decisions is by cohort: the first proposal that is decided on in it stays
Evaluate(i, complete) ==
  LET own == assignments[i] IN
  /\ own.cohort \notin decisions
  /\ decisions' = decisions \union {own.cohort}
  /\ decisionList' = Append(decisionList,
       Decision(i, own.cohort, own.proposal, Verdict(<<own.proposal, own.cohort>>, complete)))
  /\ UNCHANGED <<cohorts, assignments, progressions, snapshots>>

\* where in the list the decisions of a proposal are that are no rollbacks
Standing(p) ==
  {n \in DOMAIN decisionList : decisionList[n].proposal = p /\ decisionList[n].decision # "rollback"}

\* the one list that goes through a set of places from the first to the last
InOrder(places) ==
  {list \in [1..Cardinality(places) -> places] :
     \A i, j \in DOMAIN list : i < j => list[i] < list[j]}

Overturned(d) == Decision(d.assignment, d.cohort, d.proposal, "rollback")

\* Slip: only the first decision of the proposal is rolled back.
RollBackFirst(p) ==
  \E n \in Standing(p) :
     /\ \A m \in Standing(p) : n <= m
     /\ Len(decisionList) < MaxDecided
     /\ decisionList' = Append(decisionList, Overturned(decisionList[n]))
     /\ UNCHANGED <<cohorts, assignments, progressions, snapshots, decisions>>

\* appends to the list and leaves the map; what a rollback overturned is found by the
\* next one again, and its records repeat
AtomicRollback(p) ==
  /\ Standing(p) # {}
  /\ Len(decisionList) + Cardinality(Standing(p)) <= MaxDecided
  /\ \E list \in InOrder(Standing(p)) :
       decisionList' = decisionList \o [j \in DOMAIN list |-> Overturned(decisionList[list[j]])]
  /\ UNCHANGED <<cohorts, assignments, progressions, snapshots, decisions>>

CohortNext ==
  \/ \E c \in Cohort : RegisterCohort(c)
  \/ \E p \in Proposal, u \in User \union {NoUser}, size \in Target : Allocate(p, u, size)
  \/ \E i \in DOMAIN assignments : Progress(i) \/ \E complete \in BOOLEAN : Evaluate(i, complete)
  \/ \E m \in Metric, a \in ToSet(assignments), v \in Value :
       Observe(m, <<a.proposal, a.cohort>>, v)
  \/ \E k \in Proposal \X Cohort : ClearObservations(k)
  \/ \E p \in Proposal : AtomicRollback(p)

CohortSpec == CohortInit /\ [][CohortNext]_rolloutVars

-----------------------------------------------------------------------------
\* Properties.

Of(i) == {n \in DOMAIN progressions : progressions[n].assignment = i}

\* The log of progressions explains every assignment: its records form one chain to
\* the cohort it is in, stage by stage, that never goes to a smaller cohort and never
\* to one it has been in, also when cohorts of the same size or between two others
\* are registered while it moves (multi-cohort-engine.ts:13 "No backtrack").
StagesChain ==
  \A i \in DOMAIN assignments :
    /\ Cardinality(Of(i)) = assignments[i].stage
    /\ \A n \in Of(i) :
         LET r == progressions[n]  earlier == {m \in Of(i) : m < n} IN
         /\ r.stage = Cardinality(earlier) + 1
         /\ CohortSize[r.from] <= CohortSize[r.to]
         /\ r.stage = assignments[i].stage => r.to = assignments[i].cohort
         /\ \A m \in earlier : progressions[m].stage = r.stage - 1 => r.from = progressions[m].to
         /\ \A m \in earlier \union {n} : progressions[m].from # r.to

On(c, list) == {n \in DOMAIN list : list[n].cohort = c}

\* its last decision is a rollback
RolledBack(c, list) ==
  /\ On(c, list) # {}
  /\ \A n \in On(c, list) : (\A m \in On(c, list) : m <= n) => list[n].decision = "rollback"

\* An atomic rollback reaches every cohort its proposal was decided in, and a cohort
\* that was rolled back stays so: whatever is decided, rolled back or moved later, a
\* reader of the list never sees it promoted again
\* (cohort-promotion-engine.ts:162-168, 272-321).
RollbackStands ==
  [][decisionList' # decisionList => \A c \in Cohort :
       \/ RolledBack(c, decisionList)
       \/ \E p \in Proposal : /\ AtomicRollback(p)
                              /\ \E d \in ToSet(decisionList) : d.proposal = p /\ d.cohort = c
       => RolledBack(c, decisionList')]_rolloutVars

Member(i) == <<assignments[i].proposal, assignments[i].user>>
Members   == {Member(i) : i \in DOMAIN assignments}
Judged    == {decisionList[n].cohort : n \in DOMAIN decisionList}

\* where a member is, and the cohorts the log says it has left
Journey(m) ==
  LET own == CHOOSE i \in DOMAIN assignments : Member(i) = m IN
  [at |-> assignments[own].cohort, left |-> {progressions[n].from : n \in Of(own)}]

\* what a reader of the list finds last about a cohort
Fate(c) ==
  LET last == CHOOSE n \in On(c, decisionList) : \A m \in On(c, decisionList) : m <= n IN
  [proposal |-> decisionList[last].proposal, decision |-> decisionList[last].decision]

Promise == INSTANCE RolloutPromise WITH
  journey <- [m \in Members |-> Journey(m)],
  fate    <- [c \in Judged |-> Fate(c)]

\* The engines keep their lists as if they were one: a user enters the rollout of a
\* proposal once and never comes back to a cohort, a cohort is decided on once, while a
\* user of the proposal is in it, and after that is only rolled back; and an atomic
\* rollback is the rollback of every cohort of its proposal, of nothing less and of
\* nothing else, whatever was rolled back before and decided since
\* (multi-cohort-engine.ts:13, cohort-promotion-engine.ts:162-168, 272-321).
KeepsPromise ==
  /\ Promise!Spec
  /\ [][\A p \in Proposal : AtomicRollback(p) => Promise!RollBack(p)]_rolloutVars

\* traceDecisionToProposal for the assignment buildLineageReport finds: the first of the
\* proposal that is in the cohort of the decision now
Traces(d, p) ==
  /\ \E i \in DOMAIN assignments : assignments[i].proposal = p /\ assignments[i].cohort = d.cohort
  /\ d.proposal = p

\* buildLineageReport of a proposal, its own assignments and its own decisions: the
\* decisions with a chain, and whether the trail holds, which is append-only and frozen
BuildLineageReport(p) ==
  LET own == {j \in DOMAIN decisionList : decisionList[j].proposal = p} IN
  [chains |-> {j \in own : Traces(decisionList[j], p)}, total |-> own]

\* The verifier and the engines tell one story: a decision has a chain to its proposal as
\* long as an assignment of the proposal is in the cohort it was taken on, and the only
\* thing that breaks one is a progression of the assignment it was about, which the log
\* records; a rollback that comes later is no more traceable than what it overturns, and a
\* decision on a small cohort is lost to the report once its users have moved on
\* (phase-4-5-lineage.ts:320-373, multi-cohort-engine.ts:274-283).
TracesBreakByProgress ==
  \A p \in Proposal :
    LET report == BuildLineageReport(p) IN
    \A j \in report.total :
      LET d == decisionList[j]
          left == \E n \in Of(d.assignment) : progressions[n].from = d.cohort
      IN /\ j \notin report.chains => left
         /\ left => \/ j \notin report.chains
                    \/ \E i \in DOMAIN assignments : /\ i # d.assignment
                                                    /\ assignments[i].proposal = p
                                                    /\ assignments[i].cohort = d.cohort

\* The log of progressions, the assignments and the lineage of the decisions agree.
ProgressionsChain == StagesChain /\ TracesBreakByProgress
=============================================================================
