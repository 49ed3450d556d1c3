------------------------------- MODULE FireDrills -------------------------------
(***************************************************************************)
(* Fire drills: the manager (autonomy/FireDrillManager.ts) and its routes, *)
(* the harness with its list of results, and the mock provider with the    *)
(* mode it simulates (tests/d-phase/fire-drill-harness.ts,                 *)
(* tests/mocks/mockProvider.ts).  All runs share the one list and the one  *)
(* provider.  A run yields to others only at the two timers of its second  *)
(* drill: what lies between is one turn of the event loop.                 *)
(***************************************************************************)
EXTENDS Naturals, FiniteSets, SequencesExt

CONSTANT Run   \* runs of the drills, each of which is made once

VARIABLES
  mode,        \* what the provider simulates
  results,     \* of the harness: records [drill, passed]
  at,          \* by run: where it is
  crossed,     \* the runs that have been under way together with another
  scheduled,   \* whether the interval is set
  lastReport,  \* the list the last report was made of, empty before
  lastRun      \* the runs whose report that is

drillVars == <<mode, results, at, crossed, scheduled, lastReport, lastRun>>

Drill == 1..6

DrillInit ==
  /\ mode = "ok" /\ results = <<>> /\ at = [r \in Run |-> "idle"] /\ crossed = {}
  /\ scheduled = FALSE /\ lastReport = <<>> /\ lastRun = {}

UnderWay == {r \in Run : at[r] \in {"delayed", "hanging"}}

Outcome(d, passed) == [drill |-> d, passed |-> passed]

\* Slip: the list is emptied after the first drill.
FirstDrillLost(r) ==
  /\ at[r] = "idle"
  /\ results' = <<>>
  /\ mode' = "timeout"
  /\ at' = [at EXCEPT ![r] = "delayed"]
  /\ crossed' = IF UnderWay = {} THEN crossed ELSE crossed \union UnderWay \union {r}
  /\ UNCHANGED <<lastReport, lastRun>>

\* the list is emptied, the first drill throws at once, and the second waits for its delay
RunAll(r) ==
  /\ at[r] = "idle"
  /\ results' = <<Outcome(1, TRUE)>>
  /\ mode' = "timeout"
  /\ at' = [at EXCEPT ![r] = "delayed"]
  /\ crossed' = IF UnderWay = {} THEN crossed ELSE crossed \union UnderWay \union {r}
  /\ UNCHANGED <<lastReport, lastRun>>

RunDrills(r) == RunAll(r) /\ UNCHANGED scheduled

IntervalFires(r) == scheduled /\ RunAll(r) /\ UNCHANGED scheduled

LaterDrills(second) ==
  <<Outcome(2, second), Outcome(3, TRUE), Outcome(4, TRUE), Outcome(5, TRUE), Outcome(6, TRUE)>>

\* the drills after the second, none of which waits, and the report of the manager, which
\* is made of the list the harness has by then
Finish(r, second) ==
  LET list == results \o LaterDrills(second) IN
  /\ results' = list
  /\ mode' = "capability_mismatch"
  /\ at' = [at EXCEPT ![r] = "ended"]
  /\ lastReport' = list /\ lastRun' = {r}

\* after its delay the provider does what it simulates by then, which another run may
\* have changed: an answer where a timeout was due fails the drill
DelayOver(r) ==
  /\ at[r] = "delayed"
  /\ \/ mode = "timeout" /\ at' = [at EXCEPT ![r] = "hanging"]
        /\ UNCHANGED <<mode, results, lastReport, lastRun>>
     \/ mode # "timeout" /\ Finish(r, FALSE)
  /\ UNCHANGED <<crossed, scheduled>>

TimeoutFires(r) ==
  /\ at[r] = "hanging"
  /\ Finish(r, TRUE)
  /\ UNCHANGED <<crossed, scheduled>>

StartSchedule ==
  /\ scheduled' = TRUE
  /\ UNCHANGED <<mode, results, at, crossed, lastReport, lastRun>>

StopSchedule ==
  /\ scheduled' = FALSE
  /\ UNCHANGED <<mode, results, at, crossed, lastReport, lastRun>>

DrillNext ==
  \/ StartSchedule \/ StopSchedule
  \/ \E r \in Run : RunDrills(r) \/ IntervalFires(r) \/ DelayOver(r) \/ TimeoutFires(r)

DrillSpec == DrillInit /\ [][DrillNext]_drillVars

Healthy(list) == \A i \in DOMAIN list : list[i].passed

-----------------------------------------------------------------------------
\* Property.

\* Every report is made of all the six drills, also when runs that overlap empty the
\* list for each other and add to it together; the report of a run that no other
\* overlapped holds each of them once, and is healthy (FireDrillManager.ts:41-68,
\* fire-drill-harness.ts:37-70).
ReportsCoverDrills ==
  \A r \in lastRun :
    /\ \A d \in Drill : \E i \in DOMAIN lastReport : lastReport[i].drill = d
    /\ r \notin crossed => Len(lastReport) = 6 /\ Healthy(lastReport)
=============================================================================
