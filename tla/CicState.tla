------------------------------- MODULE CicState -------------------------------
(***************************************************************************)
(* The persisted control state of the server (server/cicStateStore.ts) and *)
(* the rules that change it.  The store applies them to the file; the      *)
(* ingestion daemons apply the same rules, copied inline, to the copy they *)
(* loaded at the start of a cycle.                                         *)
(*                                                                         *)
(* drift stands for the drift scores: the documentation events whose       *)
(* penalty they contain.  Scores, SLA figures and timestamps are left out. *)
(***************************************************************************)
EXTENDS Naturals

Category == {"governance_chain_break", "routing_oscillation", "ingestion_backlog",
             "drift_spike"}
Severity == {"SEV-1", "SEV-2", "SEV-3"}
Playbook == {"driftSpike", "routingStability", "ingestionRecovery",
             "governanceLockdown"}

State == [governanceLockdown : BOOLEAN, promotionsFrozen : BOOLEAN,
          rollbacksFrozen : BOOLEAN, routingFrozen : BOOLEAN,
          frozenBackend : BOOLEAN,             \* a backend is pinned
          playbooks : SUBSET Playbook, violations : SUBSET Category,
          drift : SUBSET Nat]

DefaultState ==
  [governanceLockdown |-> FALSE, promotionsFrozen |-> FALSE,
   rollbacksFrozen |-> FALSE, routingFrozen |-> FALSE, frozenBackend |-> FALSE,
   playbooks |-> {}, violations |-> {}, drift |-> {}]

SetPlaybook(s, name, active) ==
  [s EXCEPT !.playbooks = IF active THEN @ \cup {name} ELSE @ \ {name}]

\* setGovernanceLockdown, and what a broken hash chain and the lockdown
\* playbook do.
Lockdown(s, active) ==
  [SetPlaybook(s, "governanceLockdown", active) EXCEPT
     !.governanceLockdown = active, !.promotionsFrozen = active,
     !.rollbacksFrozen = active]

\* A violation replaces an earlier one of its category; some pairs of
\* severity and category start a playbook.
AddViolation(s, category, severity) ==
  LET t == [s EXCEPT !.violations = @ \cup {category}]
  IN CASE severity = "SEV-1" /\ category = "governance_chain_break" ->
            Lockdown(t, TRUE)
       [] severity = "SEV-2" /\ category = "routing_oscillation" ->
            [SetPlaybook(t, "routingStability", TRUE) EXCEPT !.routingFrozen = TRUE]
       [] severity = "SEV-2" /\ category = "ingestion_backlog" ->
            SetPlaybook(t, "ingestionRecovery", TRUE)
       [] severity = "SEV-3" /\ category = "drift_spike" ->
            SetPlaybook(t, "driftSpike", TRUE)
       [] OTHER -> t

\* Clearing a category ends its playbook, whatever started it.
ClearViolation(s, category) ==
  LET t == [s EXCEPT !.violations = @ \ {category}]
  IN CASE category = "governance_chain_break" -> Lockdown(t, FALSE)
       [] category = "routing_oscillation" ->
            [SetPlaybook(t, "routingStability", FALSE) EXCEPT
               !.routingFrozen = FALSE, !.frozenBackend = FALSE]
       [] category = "ingestion_backlog" ->
            SetPlaybook(t, "ingestionRecovery", FALSE)
       [] category = "drift_spike" -> SetPlaybook(t, "driftSpike", FALSE)

TriggerPlaybook(s, name, active) ==
  CASE name = "governanceLockdown" -> Lockdown(s, active)
    [] name = "routingStability" ->
         [SetPlaybook(s, name, active) EXCEPT !.routingFrozen = active]
    [] OTHER -> SetPlaybook(s, name, active)

\* freezeRouting without a backend keeps the one pinned before.
FreezeRouting(s, frozen, backend) ==
  [s EXCEPT !.routingFrozen = frozen,
            !.frozenBackend = IF frozen THEN @ \/ backend ELSE FALSE]
=============================================================================
