-------------------------------- MODULE Maal --------------------------------
(***************************************************************************)
(* Proposals of phase 4 from their text to the canary: the parser, the     *)
(* validator and the review (core/maal/codesign, core/maal/governance),    *)
(* the canary gate and its cohort controller (core/maal/canary), and the   *)
(* flow that runs them one after the other (BridgeOrchestrator.ts).  Flows *)
(* overlap at the awaits.  The metrics the gate decides by are constants   *)
(* in the code, and nothing in it sets the baseline of its controller; a   *)
(* controller of its own stands for the callers that do.                   *)
(*                                                                         *)
(* Rates, weights and costs are in thousandths, sizes of cohorts and caps  *)
(* in hundredths of a percent; a cap has one decimal, and a size is        *)
(* rounded down where a float of the code is not.                          *)
(***************************************************************************)
EXTENDS Integers, FiniteSets, SequencesExt

CONSTANTS
  Dsl,         \* texts of proposals
  Absent,      \* a number a delta does not state
  Cap, Curve,  \* caps and growth curves of the configs the free controller may be given
  Seen,        \* metrics and baselines the free controller may be given
  MaxFlows     \* bound: flows

OnePercent == 100
Whole == 100 * OnePercent

ASSUME MaalConstants ==
  /\ \A n \in Cap : n \in 0..Whole /\ n % 10 = 0
  /\ Curve \subseteq {"linear", "exponential", "adaptive"}
  /\ MaxFlows \in Nat

VARIABLES
  flows,       \* the calls of executeFullFlow: text, step reached, outcome
  points,      \* telemetry points, by flow
  gate,        \* the cohort controller of the canary gate: size, baseline
  free,        \* a controller of a caller: size, baseline
  latest       \* its latest decision since it was reset: the config it was given, the action,
               \*   and how often it has grown since that config came

maalVars == <<flows, points, gate, free, latest>>

-----------------------------------------------------------------------------
\* Parser.

InUnit(n) == n # Absent => n \in 0..1000

ParseDelta(d) ==
  /\ d.type \in {"regime", "constraint", "fallback", "reward", "simulator"}
  /\ d.id
  /\ d.type = "constraint" => d.action
  /\ d.type = "reward" => InUnit(d.weight)

Parse(text) == text.named /\ text.deltas # <<>> /\ \A d \in ToSet(text.deltas) : ParseDelta(d)

-----------------------------------------------------------------------------
\* Validator and review.

MaxCostPerTask == 100
MaxLatencyPerTask == 5000 * 1000

Over(n, ceiling) == n # Absent /\ n > ceiling

\* a bound is held against both ceilings, whatever the constraint is about; the validator
\* looks again at all the parser refuses, and a distribution that does not add up only warns
DeltaError(d) ==
  \/ ~ d.id
  \/ d.type = "constraint" /\ (~ d.action \/ Over(d.max, MaxCostPerTask) \/ Over(d.max, MaxLatencyPerTask))
  \/ d.type = "fallback" /\ ~ InUnit(d.weight)
  \/ d.type = "reward" /\ ~ (InUnit(d.weight) /\ InUnit(d.threshold))
  \/ d.type = "simulator" /\ (Over(d.cost, MaxCostPerTask) \/ Over(d.latency, MaxLatencyPerTask))

Validate(deltas) == \A d \in ToSet(deltas) : ~ DeltaError(d)

MaxDeltaMagnitude == 250

Distance(m, n) == IF m < n THEN n - m ELSE m - n

\* Slip: the distance of a weight from the middle of its range is not doubled.
PlainMagnitude(d) ==
  CASE d.type = "regime" -> 500 [] d.type = "constraint" -> 300 [] d.type = "fallback" -> 400
    [] d.type = "reward" -> Distance(IF d.weight = Absent THEN 0 ELSE d.weight, 500)
    [] d.type = "simulator" -> 200

\* a weight of a reward that is not stated counts as 0
EstimateMagnitude(d) ==
  CASE d.type = "regime" -> 500 [] d.type = "constraint" -> 300 [] d.type = "fallback" -> 400
    [] d.type = "reward" -> 2 * Distance(IF d.weight = Absent THEN 0 ELSE d.weight, 500)
    [] d.type = "simulator" -> 200

CheckCaps(deltas) == \A d \in ToSet(deltas) : EstimateMagnitude(d) <= MaxDeltaMagnitude

IsStructural(deltas) == \E d \in ToSet(deltas) : d.type \in {"regime", "fallback"}

Review(deltas) ==
  LET approved == Validate(deltas) /\ ~ IsStructural(deltas) /\ CheckCaps(deltas)
  IN [approved |-> approved, manual |-> Validate(deltas) /\ ~ approved]

-----------------------------------------------------------------------------
\* Cohort controller.

Lesser(m, n) == IF m < n THEN m ELSE n
Greater(m, n) == IF m < n THEN n ELSE m

\* a relative change against no baseline counts as a whole
Changed(actual, baseline, limit) ==
  IF baseline = 0 THEN actual > 0
                  ELSE 1000 * Distance(actual, baseline) > limit * baseline

CalculateStepSize(cap) == Greater(OnePercent, cap \div 10)

ApplyGrowthCurve(size, config) ==
  LET step == CalculateStepSize(config.cap) IN
  CASE config.curve = "linear" -> size + step
    [] config.curve = "exponential" -> (size * (OnePercent + step)) \div OnePercent
    [] config.curve = "adaptive" -> size + (3 * step) \div 4

\* success at least 98 %, drift at most 10 %, cost within 10 %, latency within 15 %
DecideCohortGrowth(metrics, controller, config) ==
  LET capped == Lesser(ApplyGrowthCurve(controller.size, config), config.cap)
  IN IF metrics.success < 980 \/ metrics.drift > 100 THEN "rollback_hard"
     ELSE IF \/ Changed(metrics.cost, controller.baseline.cost, 100)
             \/ Changed(metrics.latency, controller.baseline.latency, 150)
             \/ capped = controller.size
          THEN "pause"
     ELSE "grow"

\* Slip: the decision looks at the cap and the new size does not.
ResizedPast(action, controller, config) ==
  IF action = "grow" THEN [controller EXCEPT !.size = ApplyGrowthCurve(@, config)] ELSE controller

Resized(action, controller, config) ==
  IF action = "grow"
  THEN [controller EXCEPT !.size = Lesser(ApplyGrowthCurve(@, config), config.cap)]
  ELSE controller

NoBaseline == [cost |-> 0, latency |-> 0]
Fresh == [size |-> OnePercent, baseline |-> NoBaseline]

NoDecision == [config |-> [cap |-> 0, curve |-> "linear"], action |-> "none", grown |-> 0]

SetBaseline(b) ==
  /\ free' = [free EXCEPT !.baseline = b]
  /\ UNCHANGED <<flows, points, gate, latest>>

\* every decision is given a config, the latest one of the store
Decide(metrics, config) ==
  LET action == DecideCohortGrowth(metrics, free, config)
      before == IF config = latest.config THEN latest.grown ELSE 0
  IN /\ free' = Resized(action, free, config)
     /\ latest' = [config |-> config, action |-> action,
                   grown |-> before + (IF action = "grow" THEN 1 ELSE 0)]
     /\ UNCHANGED <<flows, points, gate>>

Reset ==
  /\ free' = Fresh /\ latest' = NoDecision
  /\ UNCHANGED <<flows, points, gate>>

-----------------------------------------------------------------------------
\* The flow.

MaalInit ==
  /\ flows = <<>> /\ points = <<>>
  /\ gate = Fresh /\ free = Fresh /\ latest = NoDecision

\* submitProposal, validateProposal and governanceReview: of their errors only that of the
\* parser occurs.  The flow stops where the review asks for a hand, and only there: what did
\* not pass the validator goes on.
Hooks(text) ==
  LET review == Review(text.deltas) IN
  IF ~ Parse(text) THEN "submit failed"
  ELSE IF review.manual /\ ~ review.approved THEN "approval required" ELSE "canary"

\* They run in one turn.
ExecuteFullFlow(text) ==
  /\ Len(flows) < MaxFlows
  /\ flows' = Append(flows, [text |-> text, step |-> Hooks(text)])
  /\ UNCHANGED <<points, gate, free, latest>>

\* the gate's own metrics: one percent of the traffic, and constants for the rest
Sample == [latency |-> 1200 * 1000, cost |-> 80, success |-> 980, drift |-> 50]
CanaryConfig == [cap |-> 50 * OnePercent, curve |-> "linear"]

ExecuteCanary(i) ==
  LET action == DecideCohortGrowth(Sample, gate, CanaryConfig) IN
  /\ flows[i].step = "canary"
  /\ points' = Append(points, i)
  /\ gate' = Resized(action, gate, CanaryConfig)
  /\ flows' = [flows EXCEPT ![i].step = CASE action = "rollback_hard" -> "to roll back"
                                          [] action = "pause" -> "to pause"
                                          [] action = "grow" -> "to promote"]
  /\ UNCHANGED <<free, latest>>

PromoteOrRollback(i) ==
  /\ flows[i].step \in {"to roll back", "to pause", "to promote"}
  /\ flows' = [flows EXCEPT ![i].step = CASE @ = "to roll back" -> "rolled_back"
                                          [] @ = "to pause" -> "paused"
                                          [] @ = "to promote" -> "promoted"]
  /\ UNCHANGED <<points, gate, free, latest>>

FlowNext ==
  \/ \E text \in Dsl : ExecuteFullFlow(text)
  \/ \E i \in DOMAIN flows : ExecuteCanary(i) \/ PromoteOrRollback(i)

ControllerNext ==
  \/ \E seen \in Seen :
       \/ SetBaseline([cost |-> seen.cost, latency |-> seen.latency])
       \/ \E config \in [cap : Cap, curve : Curve] : Decide(seen, config)
  \/ Reset

MaalNext == FlowNext \/ ControllerNext

MaalSpec == MaalInit /\ [][MaalNext]_maalVars

-----------------------------------------------------------------------------
\* Properties.

\* What a flow of valid deltas may do without a hand: rewards near the middle of their
\* range and simulators.
Harmless(d) ==
  \/ d.type = "simulator"
  \/ d.type = "reward" /\ d.weight # Absent /\ d.weight \in 375..625

\* Only three kinds of proposals have a point of telemetry, each exactly one: those whose
\* deltas are all harmless, and those the validator refused, structural ones among them,
\* which nobody was asked about; and since no baseline is ever set, no proposal is promoted
\* or rolled back and the gate's cohort keeps its one percent, whatever flows overlap
\* (BridgeOrchestrator.ts:205-247, GovernanceReview.ts:41-88,
\* CanaryCohortController.ts:39-100).
GateHolds ==
  /\ gate = Fresh
  /\ \A i \in DOMAIN flows :
       LET deltas == ToSet(flows[i].text.deltas)
           traces == Cardinality({n \in DOMAIN points : points[n] = i})
       IN /\ flows[i].step \notin {"promoted", "rolled_back", "to promote", "to roll back"}
          /\ traces = (IF flows[i].step \in {"to pause", "paused"} THEN 1 ELSE 0)
          /\ traces = 1 => \/ \A d \in deltas : Harmless(d)
                           \/ \E d \in deltas : DeltaError(d)

\* A config that has made the cohort grow holds it at or below its cap until another one
\* comes, and makes it grow at most ten times, on the adaptive curve at most fourteen,
\* from whatever size earlier configs, raised or lowered, have left it at and whatever pauses,
\* baselines and hard violations come between (CanaryCohortController.ts:39-125, "Target 10
\* steps to cap"; CanaryGrowthConfig.ts:23, "uses latest config from DB").  A cap that is
\* lowered below the size takes hold only with the next growth: as long as soft violations
\* make every decision a pause, the size they name stays above the cap, though
\* LINT_RULES.md:237 asserts newSize <= config.cohortCapPercent of every decision and rule 8
\* of CI_GATE_RULES.md:87 that the size never exceeds it.
CapReachedInSteps ==
  /\ latest.grown > 0 => free.size <= latest.config.cap
  /\ latest.grown <= (IF latest.config.curve = "adaptive" THEN 14 ELSE 10)
=============================================================================
