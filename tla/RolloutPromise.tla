----------------------------- MODULE RolloutPromise -----------------------------
(***************************************************************************)
(* What the engines of a rollout by cohorts promise together, without      *)
(* their lists, maps, metrics and stages: where the members of a rollout   *)
(* are, and what has become of each cohort.  A member enters once and      *)
(* moves up, never back.  A cohort is decided on once, for the proposal of *)
(* a member who is in it; after that it can only be rolled back, and then  *)
(* with every other cohort of its proposal.  CohortRollout implements it   *)
(* (property KeepsPromise there).                                          *)
(***************************************************************************)
EXTENDS Integers

CONSTANTS
  Cohort,
  CohortSize    \* by cohort: its size

VARIABLES
  journey,      \* by member, a pair of a proposal and a user: the cohort it is at, and
                \*   the set of those it has left
  fate          \* by cohort that was decided on: for which proposal, and how

promiseVars == <<journey, fate>>

Init == journey = [m \in {} |-> 0] /\ fate = [c \in {} |-> 0]

Enter(m, c) ==
  /\ m \notin DOMAIN journey
  /\ journey' = [k \in DOMAIN journey \cup {m} |->
                   IF k = m THEN [at |-> c, left |-> {}] ELSE journey[k]]
  /\ UNCHANGED fate

\* To a cohort that is no smaller and that the member has not been in.
MoveUp(m, c) ==
  LET left == journey[m].left \cup {journey[m].at} IN
  /\ m \in DOMAIN journey /\ c \notin left
  /\ CohortSize[journey[m].at] <= CohortSize[c]
  /\ journey' = [k \in DOMAIN journey |-> IF k = m THEN [at |-> c, left |-> left] ELSE journey[k]]
  /\ UNCHANGED fate

Decide(m, decision) ==
  LET own == journey[m].at IN
  /\ m \in DOMAIN journey /\ own \notin DOMAIN fate
  /\ fate' = [c \in DOMAIN fate \cup {own} |->
                IF c = own THEN [proposal |-> m[1], decision |-> decision] ELSE fate[c]]
  /\ UNCHANGED journey

RollBack(p) ==
  /\ fate' = [c \in DOMAIN fate |->
                IF fate[c].proposal = p THEN [proposal |-> p, decision |-> "rollback"] ELSE fate[c]]
  /\ UNCHANGED journey

Next ==
  \/ \E m \in DOMAIN journey', c \in Cohort : Enter(m, c) \/ MoveUp(m, c)
  \/ \E m \in DOMAIN journey, decision \in {"promote", "hold", "rollback"} : Decide(m, decision)
  \/ \E c \in DOMAIN fate : RollBack(fate[c].proposal)

Spec == Init /\ [][Next]_promiseVars
=============================================================================
