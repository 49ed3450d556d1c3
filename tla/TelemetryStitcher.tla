--------------------------- MODULE TelemetryStitcher ---------------------------
(***************************************************************************)
(* The report on a run, stitched together from its waves, the vectors of   *)
(* the correlation graph and the answer of the resume gate                 *)
(* (autonomy/MultiWaveTelemetryStitcher.ts).                               *)
(***************************************************************************)
EXTENDS DriftHealing

CONSTANTS
  WaveD,    \* what wave D may report: records [drift, quarantined]
  WaveF,    \* what wave F may: records [passed, failed, status]
  Healed    \* what stage G.1 may: records [applied, ok, failed], applied a number

ASSUME WaveConstants ==
  /\ \A f \in WaveF : f.passed \in Nat /\ f.failed \in Nat
  /\ \A g \in Healed : g.applied \in Nat /\ g.ok \in Nat /\ g.failed \in Nat

VARIABLE report   \* what the last call returned, if it was one of stitch

stitchVars == <<driftVars, report>>

NoReport == [entries |-> {}, ready |-> FALSE, recommended |-> {}, vectors |-> 0]

StitchInit == DriftInit /\ report = NoReport

\* an entry for each sign of drift; high: its severity is above 0.75
AnalyzeDriftProgression(d, f) ==
     {[wave |-> "D", high |-> FALSE, escalated |-> d.quarantined] : x \in {y \in {d} : y.drift}}
  \union {[wave |-> events[i].wave, high |-> Weight(i) > Quarters(i, 3),
           escalated |-> Weight(i) > Quarters(i, 3)] : i \in Vectors}
  \union {[wave |-> "F", high |-> 4 * f.failed > 3 * (f.passed + f.failed),
           escalated |-> f.status = "FAIL"] : x \in {y \in {f} : y.failed > 0}}

\* how many of the primitives are held to have helped: the share of those that did,
\* rounded half up
Successes(g) ==
  IF g.ok + g.failed = 0 THEN 0
  ELSE (2 * g.applied * g.ok + g.ok + g.failed) \div (2 * (g.ok + g.failed))

GenerateRecommendations(entries, vectors, g) ==
     {x \in {"ARCHITECTURE"} : Cardinality(vectors) > 2}
  \union {x \in {"TESTING"} : Successes(g) < g.applied}
  \union {x \in {"CONTRADICTION"} : \E i \in vectors : Cardinality(Correlated(i)) > 2}
  \union {x \in {"ESCALATION"} : \E e \in entries : e.high}
  \union {x \in {"DOCUMENT"} : g.applied > 0 /\ 10 * Successes(g) > 8 * g.applied}

\* Slip: what the gate says is not asked for.
PhaseReadyUnasked(vectors, r) == Cardinality(vectors) < 3

\* one chain of causes for each vector
PhaseReady(vectors, r) == Allowed(vectors, r) /\ Cardinality(vectors) < 3

\* the gate is asked for the same vectors, with the revision r
Stitch(d, f, g, r) ==
  LET entries == AnalyzeDriftProgression(d, f)  vectors == Vectors IN
  /\ report' = [entries |-> entries, ready |-> PhaseReady(vectors, r), vectors |-> Cardinality(vectors),
                recommended |-> GenerateRecommendations(entries, vectors, g)]
  /\ Forget /\ UNCHANGED events

StitchNext ==
  \/ DriftNext /\ report' = NoReport
  \/ \E d \in WaveD, f \in WaveF, g \in Healed, r \in Revision : Stitch(d, f, g, r)

StitchSpec == StitchInit /\ [][StitchNext]_stitchVars

-----------------------------------------------------------------------------
\* Property.

\* A report that calls the run ready for the next phase says nothing else that speaks
\* against it: none of the signs of drift but failing tests is severe, and no refactoring
\* is recommended.  One that recommends an escalation names a wave to escalate, except
\* when it is for tests that failed in a run held to have passed in part
\* (MultiWaveTelemetryStitcher.ts:282-324, 434-456, 477-541).
ReportCoherent ==
  /\ report.ready => /\ \A e \in report.entries : e.high => e.wave = "F"
                     /\ "ARCHITECTURE" \notin report.recommended
                     /\ report.vectors = 0 => "CONTRADICTION" \notin report.recommended
  /\ "ESCALATION" \in report.recommended =>
       \/ \E e \in report.entries : e.escalated
       \/ \E e \in report.entries : e.high /\ ~ e.escalated /\ e.wave = "F"
=============================================================================
