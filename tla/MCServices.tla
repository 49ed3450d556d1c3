----------------------------- MODULE MCServices -----------------------------
(***************************************************************************)
(* Values for the services around the pipeline.  They share no state in    *)
(* the code: part chooses which of them a behaviour is about, so that one  *)
(* run checks each and not their product.                                  *)
(***************************************************************************)
EXTENDS TaskPolicy, TelemetryStitcher, FireDrills, Aperture, SandboxEnv, WriteApply,
        FamilySearchClient, BrowserIngest, WarmPool, SloWebhook, DriftBatcher, ModelRouter,
        DocsManagerJob, RepairSixRules, TLC

CONSTANTS s, t, c1, c2, t1, t2, m1, m2

VARIABLE part

-----------------------------------------------------------------------------
(* Task policies: two tasks, one restarted in another mode.                *)

Asked(x, m, p, e) == [task |-> x, mode |-> m, preapproved |-> p, exit |-> e]

MCContext  == {Asked(s, "UNATTENDED", {"Deploy"}, TRUE), Asked(s, "UNATTENDED", {}, TRUE),
               Asked(t, "BATCH", {}, Unstated), Asked(t, "MAINTENANCE", {"Agent", "Edit"}, Unstated)}
MCSettings == [UNATTENDED |-> [preapproved |-> {"Deploy"}, exit |-> TRUE],
               BATCH |-> [preapproved |-> {"Deploy"}, exit |-> TRUE]]

-----------------------------------------------------------------------------
(* Drift: soft and hard events, two of them with one root cause.           *)

Seen(w, f, l, fs) == [wave |-> w, failure |-> f, level |-> l, files |-> fs]

MCDriftEvent ==
  {Seen("D", "WRONG_ABSTRACTION", 1, {}), Seen("D", "WRONG_ABSTRACTION", 4, {}),
   Seen("B", "KITCHEN_SINK", 1, {"x"}), Seen("F", "RUNAWAY_REFACTOR", 2, {"x"}),
   Seen("B", "OPTIMISTIC_PATH", 1, {"x"})}

MCFile     == {"src/a", "lib/b", "top"}
MCChange   == {<<>>, <<"src/a", "lib/b">>, <<"top", "src/a">>}
MCModule   == [f \in MCFile |-> CASE f = "src/a" -> "src" [] f = "lib/b" -> "lib" [] OTHER -> ""]
MCInside   == [f \in MCFile |-> {"", f, MCModule[f]}]
Condition  == {"criteria", "negative", "justified", "inScope", "plan", "tight", "applied"}
MCRevision == {[k \in Condition |-> k # missing] : missing \in {"none", "applied", "tight"}}
MCWaveD    == {[drift |-> a, quarantined |-> a] : a \in BOOLEAN}
MCWaveF    == {[passed |-> 1, failed |-> 0, status |-> "PASS"],
               [passed |-> 0, failed |-> 1, status |-> "FAIL"],
               [passed |-> 1, failed |-> 4, status |-> "PARTIAL"]}
MCHealed   == {[applied |-> 2, ok |-> 1, failed |-> 1]}

-----------------------------------------------------------------------------
(* Aperture: a policy that asks for approval, and one that takes its place  *)
(* with a higher limit and without approval, each as often as one likes.    *)

Policy(n, allowed, calls, approve) ==
  [name |-> n, allowed |-> allowed, calls |-> calls, approve |-> approve]

MCDefinition == {Policy("x", TRUE, 1, TRUE), Policy("x", TRUE, 2, FALSE)}

-----------------------------------------------------------------------------
(* FamilySearch: two births from one source, one of them again under the id  *)
(* and in the wording a regenerated extract gives it; others add a birth     *)
(* with its year alone.                                                      *)

Birth(i, text, year, day) ==
  [id |-> i, source |-> "census", url |-> "page", title |-> "census", kind |-> "birth",
   value |-> text, date |-> [text |-> text, year |-> year, day |-> day], place |-> {}, ok |-> TRUE]

MCBatch == {<<Birth("f2", "spring 1901", "1901", ""), Birth("f1", "1 Jan 1900", "1900", "1900-01-01")>>,
            <<Birth("f9", "1900-01-01", "1900", "1900-01-01")>>}
MCEdit  == {ConclusionOf(Birth("", "1900", "1900", ""))}

\* A behaviour is about one part only: the parts can share one exchange.
MCSymmetry == {IF exchange THEN c1 :> c2 @@ c2 :> c1 @@ t1 :> t2 @@ t2 :> t1 @@ m1 :> m2 @@ m2 :> m1
               ELSE [m \in {c1, c2, t1, t2, m1, m2} |-> m] : exchange \in BOOLEAN}

-----------------------------------------------------------------------------
(* Warm pool, webhook and router: three keys, two of them with one prefix;  *)
(* events one by one and two at once; a Google model, a cloud model and an  *)
(* Anthropic one before the fallbacks, with a bad model file and without.   *)

MCPrefix == {{"k1"}, {"k1", "k2"}}

MCEmission == {<<FALSE>>, <<TRUE>>, <<TRUE, FALSE>>}

ModelFile(n, ok) == [name |-> n, ok |-> ok]

MCDirectory == {<<ModelFile("claude", TRUE), ModelFile("gemini", ok), ModelFile("gpt", TRUE),
                  ModelFile("mock", TRUE)>> : ok \in BOOLEAN}
MCType      == [claude |-> "anthropic", gemini |-> "google", gpt |-> "openai-compatible",
                ox |-> "cloud-openai-compatible", mock |-> "mock"]
MCFallback  == <<"claude", "gpt", "mock">>
MCRequest   == [model : {"gemini", "ox", "claude"}, requires : {"nothing", "tools", "vision"}]

-----------------------------------------------------------------------------
(* Documentation events: a drift, two of which reach the cap, a             *)
(* synchronisation, and an audit that is not valid.                        *)

Happened(k, n, ok) == [kind |-> k, penalty |-> n, ok |-> ok]

MCDocEvent == {Happened("drift", 5, TRUE), Happened("success", 0, TRUE), Happened("audit", 0, FALSE)}

-----------------------------------------------------------------------------
(* Repairs: criteria that five of twelve lines violate, and bad ones; three   *)
(* of ten lines are not yet too many, with one torn line more they are.             *)

Accepting(most, least) == [max |-> most, min |-> least, timeout |-> 5000]

MCCriteria == {Accepting(40, 50), Accepting(-1, 50)}
MCManifest == {[valid |-> 7, lacking |-> 2, torn |-> 1]}

-----------------------------------------------------------------------------
vars == <<part, policyVars, stitchVars, drillVars, apertureVars, envVars, applyVars, clientVars,
          browserVars, warmVars, webhookVars, batcherVars, routerVars, docsVars, repairVars>>

Init ==
  /\ part \in {"policy", "drift", "drills", "aperture", "env", "writes", "client",
              "browser", "pool", "webhook", "batcher", "router", "docs", "repair"}
  /\ PolicyInit /\ StitchInit /\ DrillInit /\ ApertureInit /\ EnvInit /\ ApplyInit /\ ClientInit
  /\ BrowserInit /\ WarmInit /\ WebhookInit /\ BatcherInit /\ RouterInit /\ DocsInit /\ RepairInit
  /\ part # "router" => Sound
  /\ part # "docs" => cic.whole

Others(mine) ==
  /\ mine # "policy" => UNCHANGED policyVars
  /\ mine # "drift" => UNCHANGED stitchVars
  /\ mine # "drills" => UNCHANGED drillVars
  /\ mine # "aperture" => UNCHANGED apertureVars
  /\ mine # "env" => UNCHANGED envVars
  /\ mine # "writes" => UNCHANGED applyVars
  /\ mine # "client" => UNCHANGED clientVars
  /\ mine # "browser" => UNCHANGED browserVars
  /\ mine # "pool" => UNCHANGED warmVars
  /\ mine # "webhook" => UNCHANGED webhookVars
  /\ mine # "batcher" => UNCHANGED batcherVars
  /\ mine # "router" => UNCHANGED routerVars
  /\ mine # "docs" => UNCHANGED docsVars
  /\ mine # "repair" => UNCHANGED repairVars

Next ==
  /\ \/ part = "policy" /\ PolicyNext
     \/ part = "drift" /\ StitchNext
     \/ part = "drills" /\ DrillNext
     \/ part = "aperture" /\ ApertureNext
     \/ part = "env" /\ EnvNext
     \/ part = "writes" /\ ApplyNext
     \/ part = "client" /\ ClientNext
     \/ part = "browser" /\ BrowserNext
     \/ part = "pool" /\ WarmNext
     \/ part = "webhook" /\ WebhookNext
     \/ part = "batcher" /\ BatcherNext
     \/ part = "router" /\ RouterNext
     \/ part = "docs" /\ DocsNext
     \/ part = "repair" /\ RepairNext
  /\ Others(part)
  /\ UNCHANGED part

Spec == Init /\ [][Next]_vars
=============================================================================
