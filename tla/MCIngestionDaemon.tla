-------------------------- MODULE MCIngestionDaemon --------------------------
(***************************************************************************)
(* Values for IngestionDaemon: two keys, lines of every kind the cycle     *)
(* tells apart, two cycles that can overlap.                               *)
(***************************************************************************)
EXTENDS IngestionDaemon, TLC

CONSTANTS k1, k2, c1, c2

MCKey   == {k1, k2}
MCCycle == {c1, c2}

\* lines of one client, which gives them no ids of their own
Entry(k, slow, deep, skip) == [key |-> k, id |-> "none", slow |-> slow, deep |-> deep, skip |-> skip]

\* For the runs on the entries: one for the fast lane, one for the deep lane.
MCLogLineEntries == {Entry(k1, FALSE, FALSE, FALSE), Entry(k2, FALSE, TRUE, FALSE)}

\* For the run on the control state: a slow entry the operator wants skipped,
\* and a line that is no entry.
MCLogLineFew == {Entry(k1, TRUE, FALSE, TRUE), Entry(NoKey, FALSE, FALSE, FALSE)}

MCRequest ==
  {[kind |-> "add", category |-> "governance_chain_break", severity |-> "SEV-1"],
   [kind |-> "clear", category |-> "governance_chain_break"],
   [kind |-> "playbook", name |-> "governanceLockdown", active |-> TRUE],
   [kind |-> "freeze", active |-> TRUE, backend |-> TRUE],
   [kind |-> "lockdown", active |-> FALSE]}

\* Cycles are alike; for runs without liveness only.
CycleSymmetry == Permutations(MCCycle)

MCRequestNone == {}
=============================================================================
