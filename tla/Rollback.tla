-------------------------------- MODULE Rollback --------------------------------
(***************************************************************************)
(* The rollback executor (governance/rollback-executor.ts) with the        *)
(* handlers of config and feature flags (rollback/) and the health gate.   *)
(* A call takes the recorded targets of a deployment in dependency order   *)
(* and puts each back.  The executor keeps the steps executed and the      *)
(* deployment of the latest call in fields that all its calls share, and   *)
(* calls interleave at their awaits.                                       *)
(*                                                                         *)
(* A deployment has one target of each type at most, so a type stands for  *)
(* the target.  What tells targets apart in the code is target_id, which   *)
(* the callers choose: two deployments may use one id for different        *)
(* targets, name the same local store, and set the same flag.              *)
(***************************************************************************)
EXTENDS Places, SequencesExt

CONSTANTS
  Deployment,     \* pairs of a proposal and a variant
  NoDeployment,
  Call,           \* calls of executeRollback that may be under way together
  Plans,          \* by deployment: the target lists that may have been recorded,
                  \*   sequences of [type, deps]
  Id,             \* by deployment and type: the target_id the caller gave the target
  Stores,         \* by deployment and local type: the [name, value] a rollback puts
                  \*   back, the name with the kind of store it is in
  Stored,         \* by name of a local store: the value the deployments have left
  Held,           \* what may be at hand: pairs of values of versions and captures
  Flags,          \* by deployment: the sequence of [name, value] it captured
  Deployed,       \* by flag: the value the deployments have left
  MaxRollbacks    \* bound: calls in all

Local == {"state_store", "database", "cache"}
Expected == <<"state_store", "database", "cache", "config", "feature_flag">>
Type == ToSet(Expected)

ASSUME RollbackConstants ==
  /\ NoDeployment \notin Deployment /\ MaxRollbacks \in Nat
  \* a deployment has one target of each type at most
  /\ \A d \in Deployment : \A ts \in Plans[d] :
       /\ ts \in Seq([type : Type, deps : Seq(Type)])
       /\ \A i, j \in DOMAIN ts : ts[i].type = ts[j].type => i = j
  /\ \A d \in Deployment : \A t, u \in Type : Id[d][t] = Id[d][u] => t = u
  \* a store of one kind is no store of another, and a table has one snapshot,
  \* whatever version a target names (DatabaseRollback.rollbackToSnapshot)
  /\ \A d, e \in Deployment : \A t, u \in Local :
       /\ Stores[d][t].name \in DOMAIN Stored
       /\ Stores[d][t].name = Stores[e][u].name => t = u
       /\ Stores[d][t].name = Stores[e][t].name /\ t = "database" => Stores[d][t] = Stores[e][t]
  /\ \A h \in Held : h[2] \subseteq Deployment
  /\ Stored = [n \in DOMAIN Stored |-> Stored[n]]
  /\ Deployed = [n \in DOMAIN Deployed |-> Deployed[n]]
  \* a capture is an object: a flag is in it once
  /\ \A d \in Deployment :
       /\ Flags[d] \in Seq(ToSet(Flags[d])) /\ Flags[d] # <<>>
       /\ \A i \in DOMAIN Flags[d] : Flags[d][i].name \in DOMAIN Deployed
       /\ \A i, j \in DOMAIN Flags[d] : Flags[d][i].name = Flags[d][j].name => i = j

VARIABLES
  gated,      \* a health gate was injected
  plan,       \* by deployment: its recorded targets
  versions,   \* the [name, value] the local stores have in history or as a snapshot
  captures,   \* deployments with snapshots of config and flags
  reverted,   \* deployments whose config is put back in etcd, each under its own key
  store,      \* by name: the value of a local store
  flag,       \* by name: its value in Unleash
  log,        \* executedSteps: whose target, of which type, and success
  current,    \* currentProposalId and currentVariantId
  call,       \* by call: where it is; own are the types of the targets it was given
  alone,      \* calls no other call has overlapped
  begun       \* calls so far

given == <<gated, plan, versions, captures>>
rollbackVars  == <<given, reverted, store, flag, log, current, call, alone, begun>>

Idle == [at |-> "idle", dep |-> NoDeployment, own |-> {}, todo |-> <<>>, oks |-> {}, ok |-> FALSE,
         on |-> NoDeployment, left |-> <<>>, wait |-> {}]

RollbackInit ==
  /\ gated \in BOOLEAN
  /\ plan \in {p \in [Deployment -> UNION {Plans[d] : d \in Deployment}] :
                 \A d \in Deployment : p[d] \in Plans[d]}
  /\ \E h \in Held : versions = h[1] /\ captures = h[2]
  /\ reverted = {} /\ store = Stored /\ flag = Deployed
  /\ log = <<>> /\ current = NoDeployment
  /\ call = [c \in Call |-> Idle]
  /\ alone = {} /\ begun = 0

Running(c) == call[c].at \notin {"idle", "returned", "thrown"}

------------------------------------------------------------------------------
(* resolveDependencies *)

Types(ts) == [i \in DOMAIN ts |-> ts[i].type]

\* The keys of the two maps, in the order of their insertion.
Mentioned(ts) ==
  LET mentioned[n \in 0..Len(ts)] ==
        IF n = 0 THEN <<>> ELSE Append(mentioned[n - 1], ts[n].type) \o ts[n].deps
  IN  mentioned[Len(ts)]

Keys(ts) ==
  LET mentioned == Mentioned(ts) IN
  Picked(mentioned, {i \in DOMAIN mentioned : \A j \in 1..(i - 1) : mentioned[j] # mentioned[i]})

Needs(ts, k) == UNION {ToSet(ts[i].deps) : i \in {j \in DOMAIN ts : ts[j].type = k}}

\* Slip: dependent targets first, as the comment of the source has it.
AwaitedByDependents(ts, k) == {ts[i].type : i \in {j \in DOMAIN ts : k \in ToSet(ts[j].deps)}}

\* The keys that are counted in the in-degree of k.
Awaited(ts, k) == Needs(ts, k)

Shift(ts, s) ==
  LET k     == Head(s.queue)
      out   == Append(s.out, k)
      freed == {i \in DOMAIN ts : LET awaited == Awaited(ts, ts[i].type) IN
                                  k \in awaited /\ awaited \subseteq ToSet(out)}
  IN  [queue |-> Tail(s.queue) \o Picked(Types(ts), freed), out |-> out]

\* Kahn's algorithm; what is on a cycle, or needs what is, never gets out.
Sorted(ts) ==
  LET keys == Keys(ts)
      state[n \in 0..Len(keys)] ==
        IF n = 0 THEN [queue |-> Picked(keys, {i \in DOMAIN keys : Awaited(ts, keys[i]) = {}}), out |-> <<>>]
        ELSE IF state[n - 1].queue = <<>> THEN state[n - 1]
        ELSE Shift(ts, state[n - 1])
  IN  state[Len(keys)].out

Resolve(ts) ==
  LET sorted == Sorted(ts) IN
  Picked(sorted, {i \in DOMAIN sorted : sorted[i] \in ToSet(Types(ts))})

------------------------------------------------------------------------------
(* executeRollback *)

Awaits(r, at) == [r EXCEPT !.at = at]
Answers(r, ok) == [r EXCEPT !.at = "step", !.ok = ok, !.on = NoDeployment, !.left = <<>>]

\* What the local target at the head of todo goes back to is there or not.
Goal(r) == Stores[r.dep][Head(r.todo)]

PutBack(r) == Answers(r, Goal(r) \in versions)

\* Slip: without a snapshot there is nothing to do.
DispatchedLeniently(r, d) ==
  LET t == Head(r.todo) IN
  IF t \in Local THEN PutBack(r)
  ELSE IF d \notin captures THEN Answers(r, TRUE)
  ELSE IF t = "config" THEN [Awaits(r, "put") EXCEPT !.on = d]
  ELSE [Awaits(r, "update") EXCEPT !.on = d, !.left = Flags[d]]

\* executeRollbackStep up to its first await; the handlers are called for the
\* deployment d of the shared fields, not for that of the call.
Dispatched(r, d) ==
  LET t == Head(r.todo) IN
  IF t \in Local THEN PutBack(r)
  ELSE IF d \notin captures THEN Answers(r, FALSE)
  ELSE IF t = "config" THEN [Awaits(r, "put") EXCEPT !.on = d]
  ELSE [Awaits(r, "update") EXCEPT !.on = d, !.left = Flags[d]]

\* A step has only the id of its target, which a run for d looks up in its own
\* targets: it takes the step of another deployment for its own if the ids are equal.
Names(r, s, t) == t \in r.own /\ Id[r.dep][t] = Id[s.dep][s.type]

Position(r, l, t) == SelectInSeq(l, LAMBDA s : Names(r, s, t))

\* The flag step of the deployment comes before its config step.
Misordered(r, l) ==
  LET f == Position(r, l, "feature_flag") IN f # 0 /\ f < Position(r, l, "config")

\* checkLineage: the shared log begins with what passes for the call's five steps.
Lineage(r, l) ==
  /\ Len(l) >= Len(Expected)
  /\ \A i \in DOMAIN Expected : l[i].success /\ Names(r, l[i], Expected[i])

\* What follows the last step: an error, the gate, or the result.  The lineage
\* is checked before the first await of the gate.
Concluded(r, l) ==
  IF Misordered(r, l) \/ (gated /\ ~Lineage(r, l)) THEN Awaits(r, "thrown")
  ELSE IF ~gated THEN Awaits(r, "returned")
  ELSE [Awaits(r, "gate") EXCEPT !.left = Flags[r.dep], !.wait = {"config", "flags"}]

\* The loop over the targets goes on with record r, log l, shared deployment d.
Continue(c, r, l, d) ==
  /\ log' = l
  /\ call' = [call EXCEPT ![c] = IF r.todo = <<>> THEN Concluded(r, l) ELSE Dispatched(r, d)]
  /\ store' = IF r.todo # <<>> /\ Head(r.todo) \in Local /\ Goal(r) \in versions
              THEN [store EXCEPT ![Goal(r).name] = Goal(r).value] ELSE store
  /\ UNCHANGED reverted

StartRollback(c, d) ==
  LET targets == Resolve(plan[d]) IN
  /\ ~Running(c) /\ begun < MaxRollbacks
  /\ begun' = begun + 1
  /\ current' = d
  /\ alone' = IF \E o \in Call : Running(o) THEN {} ELSE {c}
  /\ Continue(c, [Idle EXCEPT !.dep = d, !.own = ToSet(targets), !.todo = targets], <<>>, d)
  /\ UNCHANGED <<given, flag>>

Advanced(r) == [r EXCEPT !.todo = Tail(r.todo), !.oks = r.oks \cup {r.ok}, !.ok = FALSE]

StepDone(c) ==
  LET r == call[c] IN
  /\ r.at = "step"
  /\ Continue(c, Advanced(r), Append(log, [dep |-> r.dep, type |-> Head(r.todo), success |-> r.ok]), current)
  /\ UNCHANGED <<given, flag, current, alone, begun>>

------------------------------------------------------------------------------
(* The handlers.  A client call that fails may have had its effect. *)

Becomes(c, r) ==
  /\ call' = [call EXCEPT ![c] = r]
  /\ UNCHANGED <<given, store, log, current, alone, begun>>

PutConfig(c) ==
  LET r == call[c]  done == reverted \cup {r.on} IN
  /\ r.at = "put"
  /\ \/ reverted' = done /\ Becomes(c, Awaits(r, "get"))
     \/ reverted' \in {reverted, done} /\ Becomes(c, Answers(r, FALSE))
  /\ UNCHANGED flag

\* The read may fail; otherwise the checksums are compared.
GetConfig(c) ==
  LET r == call[c] IN
  /\ r.at = "get"
  /\ \E ok \in {FALSE, (r.on \in reverted)} : Becomes(c, Answers(r, ok))
  /\ UNCHANGED <<reverted, flag>>

NextFlag(r) == [r EXCEPT !.left = Tail(r.left)]

\* After the last update the check begins with the first flag.
FlagsUpdated(r) ==
  IF Len(r.left) > 1 THEN NextFlag(r) ELSE [Awaits(r, "check") EXCEPT !.left = Flags[r.on]]

\* Flag by flag; the first failure ends the step and leaves the rest.
UpdateFlag(c) ==
  LET r == call[c]  f == Head(r.left)  done == [flag EXCEPT ![f.name] = f.value] IN
  /\ r.at = "update"
  /\ \/ flag' = done /\ Becomes(c, FlagsUpdated(r))
     \/ flag' \in {flag, done} /\ Becomes(c, Answers(r, FALSE))
  /\ UNCHANGED reverted

\* A read of the flag at the head of left: it matches, or not, or fails.
FlagMatches(r) == {FALSE, (flag[Head(r.left).name] = Head(r.left).value)}

CheckFlag(c) ==
  LET r == call[c] IN
  /\ r.at = "check"
  /\ \E ok \in FlagMatches(r) :
       Becomes(c, IF ok /\ Len(r.left) > 1 THEN NextFlag(r) ELSE Answers(r, ok))
  /\ UNCHANGED <<reverted, flag>>

------------------------------------------------------------------------------
(* validateRollback: the two checks run side by side, late is failed.  The
   first that fails decides: what the other one still reads changes nothing. *)

Ended(r, at) == [r EXCEPT !.at = at, !.wait = {}, !.left = <<>>]

Gate(c, check, ok) ==
  LET r == [call[c] EXCEPT !.wait = call[c].wait \ {check}]
  IN  Becomes(c, IF ~ok THEN Ended(r, "thrown") ELSE IF r.wait = {} THEN Ended(r, "returned") ELSE r)

Gating(c, check) == call[c].at = "gate" /\ check \in call[c].wait

GateConfig(c) ==
  LET d == call[c].dep IN
  /\ Gating(c, "config")
  /\ \E ok \in {FALSE, (d \in captures /\ d \in reverted)} : Gate(c, "config", ok)
  /\ UNCHANGED <<reverted, flag>>

GateFlag(c) ==
  LET r == call[c] IN
  /\ Gating(c, "flags")
  /\ \/ r.dep \notin captures /\ Gate(c, "flags", FALSE)
     \/ /\ r.dep \in captures
        /\ \E ok \in FlagMatches(r) :
             IF ok /\ Len(r.left) > 1
             THEN Becomes(c, NextFlag(r))
             ELSE Gate(c, "flags", ok)
  /\ UNCHANGED <<reverted, flag>>

Step(c) ==
  \/ StepDone(c) \/ PutConfig(c) \/ GetConfig(c) \/ UpdateFlag(c) \/ CheckFlag(c)
  \/ GateConfig(c) \/ GateFlag(c)

RollbackNext == \E c \in Call : Step(c) \/ \E d \in Deployment : StartRollback(c, d)

RollbackSpec == RollbackInit /\ [][RollbackNext]_rollbackVars

------------------------------------------------------------------------------
(* Properties *)

\* With the configs rev put back, the stores st and the flags fl, target t of d is.
Restored(d, t, rev, st, fl) ==
  CASE t = "feature_flag" -> \A f \in ToSet(Flags[d]) : fl[f.name] = f.value
    [] t = "config" -> d \in rev
    [] OTHER -> st[Stores[d][t].name] = Stores[d][t].value

Returns(c) == call'[c].at = "returned" /\ call'[c] # call[c]

\* Keys from which dependencies lead on without end, which is into a cycle: each of some
\* keys has one of them to wait for.
Endless(ts) == UNION {U \in SUBSET ToSet(Keys(ts)) : \A k \in U : Needs(ts, k) \cap U # {}}

Reachable(ts) == ToSet(Types(ts)) \ Endless(ts)

\* "Rollback completed successfully. Variant reverted." (rollback-executor.ts:419)
\* is true of a call that nothing has overlapped: each recorded target outside the
\* dependency cycles is at its earlier version when it returns.
AloneSuccessReverts ==
  [][\A c \in alone' : Returns(c) /\ FALSE \notin call'[c].oks =>
       \A t \in Reachable(plan[call'[c].dep]) : Restored(call'[c].dep, t, reverted', store', flag')]_rollbackVars

\* While a call runs alone, the log it fills has no step before the steps of
\* the recorded targets it depends on (rollback-executor.ts:83-119, 354-360).
\* The comment in rollback-executor.ts:82 says the opposite, "ensure dependent
\* targets are reverted first": the loops count the dependencies of a target, and the
\* test phase6-rollback-execution-e2e.test.ts:91-113 expects them first, as here.
DependenciesFirst ==
  \A c \in alone : Running(c) =>
    \A i \in DOMAIN log :
      LET ts == plan[log[i].dep] IN
      \A t \in Needs(ts, log[i].type) \cap {ts[k].type : k \in DOMAIN ts} :
        \E j \in 1..(i - 1) : log[j].type = t

\* Another deployment has set the flag too.
Shared(d, n) == \E e \in Deployment \ {d} : \E g \in ToSet(Flags[e]) : g.name = n

Recorded(d) == ToSet(Types(plan[d]))

\* Another deployment goes back to another version of the same store.
Contested(d, t) ==
  \E e \in Deployment :
    t \in Recorded(e) /\ Stores[e][t].name = Stores[d][t].name /\ Stores[e][t].value # Stores[d][t].value

\* The id of the target is also that of a target for which something else is put back.
Ambiguous(d, t) ==
  \E e \in Deployment : \E u \in Recorded(e) :
    Id[e][u] = Id[d][t] /\ (u \notin Local \/ Stores[e][u] # Stores[d][t])

\* With the gate, a call that returns has its deployment reverted however calls
\* overlap, its configuration always, but for flags another deployment has set too,
\* local stores another one has another version of, and local targets whose id
\* another one uses for something else: a step of that run then passes for their
\* own (health-check-gate.ts:4-6, the gate blocks if any check fails;
\* rollback-executor.ts:393-408, steps are told apart by target_id).
GatedReturnReverts ==
  [][gated => \A c \in Call : Returns(c) =>
       LET d == call'[c].dep IN
       /\ d \in reverted'
       /\ \A t \in Local : Contested(d, t) \/ Ambiguous(d, t)
                           \/ store'[Stores[d][t].name] = Stores[d][t].value
       /\ \A f \in ToSet(Flags[d]) : Shared(d, f.name) \/ flag'[f.name] = f.value]_rollbackVars

\* What a caller is told of a rollback is so, alone or with the gate.
ReturnReverts == AloneSuccessReverts /\ GatedReturnReverts
==============================================================================
