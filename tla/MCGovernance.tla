---------------------------- MODULE MCGovernance ----------------------------
(***************************************************************************)
(* Values for the governance modules.  They share no state in the code:    *)
(* part chooses which of them a behaviour is about, so that one run checks *)
(* each and not their product.                                             *)
(***************************************************************************)
EXTENDS CohortRollout, RolloutPipeline, EnvelopeCache, Rollback, Maal, TLC

CONSTANTS a, b, c, p, q, u, v, blank, d1, d2, x1, x2, k1, k2

VARIABLE part

MCSize    == [x \in Cohort |-> IF x = c THEN 250 ELSE 100]
MCMetric  == {[name |-> "errors", op |-> "<", threshold |-> 1]}
MCBatch   == {<<u>>, <<v, blank, u>>, <<blank>>}
MCLatency == {50, -600}

-----------------------------------------------------------------------------
(* Rollback: two deployments that share the flag g (the second captured      *)
(* what the first had set), a table with its snapshot and a cache key they    *)
(* set to different versions, and have one id for their two state stores.    *)
(* Plans in order, in the wrong order, with the state store last, and with a *)
(* cycle beside the config; everything at hand, or not the state of the      *)
(* second and not the captures of the first.                                 *)

Part(t, deps)  == [type |-> t, deps |-> deps]
Setting(n, x)  == [name |-> n, value |-> x]

Full   == <<Part("cache", <<"database">>), Part("feature_flag", <<"config">>),
            Part("config", <<"cache">>), Part("state_store", <<>>),
            Part("database", <<"state_store">>)>>
Late   == <<Part("database", <<>>), Part("cache", <<"database">>), Part("config", <<"cache">>),
            Part("feature_flag", <<"config">>), Part("state_store", <<"feature_flag">>)>>
Early  == <<Part("feature_flag", <<>>), Part("config", <<>>)>>
Cyclic == <<Part("cache", <<"database">>), Part("config", <<>>),
            Part("database", <<"cache">>)>>

MCPlans    == [d \in Deployment |-> IF d = d1 THEN {Full, Cyclic} ELSE {Full, Late, Early}]
MCStores   == [d \in Deployment |->
                 [state_store |-> Setting(IF d = d1 THEN "s1" ELSE "s2", 0),
                  database |-> Setting("table", 0),
                  cache |-> Setting("key", IF d = d1 THEN 0 ELSE 1)]]
MCStored   == [n \in {"s1", "s2", "table", "key"} |-> 2]
MCAll      == {MCStores[d][t] : d \in Deployment, t \in Local}
MCHeld     == {<<MCAll, Deployment>>, <<MCAll \ {MCStores[d2].state_store}, {d2}>>}
MCId       == [d \in Deployment |-> [t \in Type |-> IF t = "state_store" THEN <<t>> ELSE <<t, d>>]]
MCFlags    == [d \in Deployment |-> IF d = d1 THEN <<Setting("f", 0), Setting("g", 0)>>
                                                ELSE <<Setting("g", 1)>>]
MCDeployed == [n \in {"f", "g"} |-> 2]

-----------------------------------------------------------------------------
(* Phase 4: proposals on both sides of every ceiling, cap and range, mixed   *)
(* ones among them; metrics on both sides of every threshold.                *)

Delta(t, n) == [type |-> t, id |-> TRUE, action |-> TRUE, max |-> n, weight |-> n,
                threshold |-> Absent, cost |-> n, latency |-> Absent]
Text(ds)    == [named |-> TRUE, deltas |-> ds]

MCDsl ==
  {Text(<<>>), [named |-> FALSE, deltas |-> <<Delta("simulator", 50)>>],
   Text(<<[Delta("regime", Absent) EXCEPT !.id = FALSE]>>),
   Text(<<Delta("simulator", 50), Delta("regime", Absent)>>),
   Text(<<Delta("constraint", 50)>>), Text(<<Delta("constraint", 200)>>),
   Text(<<Delta("fallback", 1200)>>), Text(<<Delta("simulator", 101)>>),
   Text(<<Delta("reward", 625), Delta("simulator", 100)>>), Text(<<Delta("reward", 626)>>),
   Text(<<Delta("reward", 1001)>>), Text(<<Delta("reward", Absent)>>),
   Text(<<[Delta("reward", 500) EXCEPT !.threshold = 1001]>>),
   Text(<<[Delta("simulator", 50) EXCEPT !.latency = 5000001]>>)}

Metrics(n, ok, d) == [latency |-> 10 * n, cost |-> n, success |-> ok, drift |-> d]

MCSeen == {Metrics(100, 980, 100), Metrics(111, 990, 0), Metrics(0, 990, 0),
           Metrics(100, 979, 0), Metrics(100, 980, 101)}

-----------------------------------------------------------------------------
\* A behaviour is about one part only: the parts can share their exchanges.
Exchange   == {[m \in {a, b, k1, k2, x1, x2} |-> m],
               x1 :> x2 @@ x2 :> x1 @@ k1 :> k2 @@ k2 :> k1 @@ a :> b @@ b :> a}
MCSymmetry == {f @@ g : f \in Exchange, g \in Permutations({p, q})}

vars == <<part, rolloutVars, pipelineVars, envelopeVars, rollbackVars, maalVars>>

Init ==
  /\ part \in {"cohorts", "pipeline", "envelopes", "rollback", "flows", "controller"}
  /\ CohortInit /\ PipelineInit /\ EnvelopeInit /\ RollbackInit /\ MaalInit
  /\ plan[d1] = Cyclic <=> plan[d2] = Early
  /\ plan[d2] = Late => gated /\ captures # Deployment
  /\ part # "rollback" => ~gated /\ captures = Deployment /\ \A d \in Deployment : plan[d] = Full

Others(mine) ==
  /\ mine # "cohorts" => UNCHANGED rolloutVars
  /\ mine # "pipeline" => UNCHANGED pipelineVars
  /\ mine # "envelopes" => UNCHANGED envelopeVars
  /\ mine # "rollback" => UNCHANGED rollbackVars
  /\ mine \notin {"flows", "controller"} => UNCHANGED maalVars

Next ==
  /\ \/ part = "cohorts" /\ CohortNext
     \/ part = "pipeline" /\ PipelineNext
     \/ part = "envelopes" /\ EnvelopeNext
     \/ part = "rollback" /\ RollbackNext
     \/ part = "flows" /\ FlowNext
     \/ part = "controller" /\ ControllerNext
  /\ Others(part)
  /\ UNCHANGED part

Spec == Init /\ [][Next]_vars
=============================================================================
