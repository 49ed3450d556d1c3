------------------------------ MODULE WarmPool ------------------------------
(***************************************************************************)
(* services/WarmPoolManager.ts: the pool of hydrated inputs, whose misses  *)
(* build an entry across an await, and the pool of warm executors.  Both   *)
(* are swept by one interval, and nothing but the sweep looks at an age or *)
(* at the size.                                                            *)
(*                                                                         *)
(* Time goes in intervals of the sweep: an entry has its age in them, and  *)
(* due says that the sweep of this interval has not run yet.  The sweep is *)
(* taken to run in time, and not while a build waits: what builds a state  *)
(* awaits nothing of its own yet.                                          *)
(***************************************************************************)
EXTENDS Naturals, FiniteSets

CONSTANTS
  InputKey,          \* keys of inputs
  Prefix,       \* sets of keys that share a prefix
  Executable,   \* tools
  TTL, ContainerTTL,          \* in intervals
  MaxPoolSize, WarmPoolSize,
  MaxHits, MaxBuilds          \* bounds: hits counted of an entry; builds in flight

ASSUME WarmConstants ==
  /\ {TTL, ContainerTTL, MaxPoolSize, WarmPoolSize, MaxHits, MaxBuilds} \subseteq Nat
  /\ Prefix \subseteq SUBSET InputKey

VARIABLES
  pool,         \* by key: age and hits of its entry
  building,     \* by key: hydrations that wait for their state
  added,        \* keys added since the last sweep
  executors,    \* by tool: time since the last use of its warm container
  due           \* the sweep of this interval is still to run

warmVars == <<pool, building, added, executors, due>>

WarmInit ==
  /\ pool = [k \in {} |-> 0] /\ building = [k \in InputKey |-> 0] /\ added = {}
  /\ executors = [t \in {} |-> 0] /\ due = FALSE

InFlight == {k \in InputKey : building[k] > 0}

Hydrate(k) ==
  /\ \/ /\ k \in DOMAIN pool
        /\ pool[k].hits < MaxHits
        /\ pool' = [pool EXCEPT ![k].hits = @ + 1]
        /\ UNCHANGED building
     \/ /\ k \notin DOMAIN pool
        /\ building[k] < MaxBuilds
        /\ building' = [building EXCEPT ![k] = @ + 1]
        /\ UNCHANGED pool
  /\ UNCHANGED <<added, executors, due>>

\* the entry is set whatever was set, invalidated or cleared meanwhile
Built(k) ==
  /\ building[k] > 0
  /\ building' = [building EXCEPT ![k] = @ - 1]
  /\ pool' = [j \in DOMAIN pool \union {k} |-> IF j = k THEN [age |-> 0, hits |-> 0] ELSE pool[j]]
  /\ added' = added \union {k}
  /\ UNCHANGED <<executors, due>>

Without(f, gone) == [x \in DOMAIN f \ gone |-> f[x]]

\* invalidate, invalidateByPrefix and clear
Invalidate(keys) ==
  /\ keys \intersect DOMAIN pool # {}
  /\ pool' = Without(pool, keys)
  /\ UNCHANGED <<building, added, executors, due>>

\* the container of the tool if the pool has one, in use or not; else a new one, which is
\* put into the pool if there is room
GetWarmExecutor(t) ==
  /\ t \in DOMAIN executors \/ Cardinality(DOMAIN executors) < WarmPoolSize
  /\ executors' = [s \in DOMAIN executors \union {t} |-> IF s = t THEN 0 ELSE executors[s]]
  /\ UNCHANGED <<pool, building, added, due>>

Tick ==
  /\ ~ due /\ InFlight = {}
  /\ due' = TRUE
  /\ pool' = [k \in DOMAIN pool |-> [pool[k] EXCEPT !.age = @ + 1]]
  /\ executors' = [t \in DOMAIN executors |-> executors[t] + 1]
  /\ UNCHANGED <<building, added>>

\* fewer hits first, then the older one
GoesFirst(e, f) == e.hits < f.hits \/ (e.hits = f.hits /\ e.age >= f.age)

\* Slip: a pool that is one over its maximum is left alone.
SweepOneOver ==
  LET old == {k \in DOMAIN pool : pool[k].age > TTL}
      left == DOMAIN pool \ old
  IN /\ due /\ InFlight = {} /\ due' = FALSE /\ added' = {}
     /\ \E surplus \in SUBSET left :
          /\ Cardinality(surplus) = IF Cardinality(left) > MaxPoolSize + 1
                                    THEN Cardinality(left) - MaxPoolSize ELSE 0
          /\ pool' = Without(pool, old \union surplus)
     /\ executors' = Without(executors, {t \in DOMAIN executors : executors[t] > ContainerTTL})
     /\ UNCHANGED building

\* startCleanupInterval; between entries that compare alike the order of the map decides
Sweep ==
  LET old == {k \in DOMAIN pool : pool[k].age > TTL}
      left == DOMAIN pool \ old
  IN /\ due /\ InFlight = {} /\ due' = FALSE /\ added' = {}
     /\ \E surplus \in SUBSET left :
          /\ Cardinality(surplus) = IF Cardinality(left) > MaxPoolSize
                                    THEN Cardinality(left) - MaxPoolSize ELSE 0
          /\ \A k \in surplus, j \in left \ surplus : GoesFirst(pool[k], pool[j])
          /\ pool' = Without(pool, old \union surplus)
     /\ executors' = Without(executors, {t \in DOMAIN executors : executors[t] > ContainerTTL})
     /\ UNCHANGED building

WarmNext ==
  \/ \E k \in InputKey : Hydrate(k) \/ Built(k)
  \/ \E keys \in Prefix : Invalidate(keys)
  \/ \E t \in Executable : GetWarmExecutor(t)
  \/ Tick \/ Sweep

WarmSpec == WarmInit /\ [][WarmNext]_warmVars

-----------------------------------------------------------------------------
(* Between sweeps the pool grows past its maximum only by what was added    *)
(* since the last one, also by builds that end after the entry they miss    *)
(* was invalidated, and no entry is served more than one interval past its  *)
(* time to live (WarmPoolManager.ts:77-120, 227-268).                       *)
PoolBounded ==
  /\ Cardinality(DOMAIN pool) <= MaxPoolSize + Cardinality(added)
  /\ \A k \in DOMAIN pool : pool[k].age <= TTL + (IF due THEN 1 ELSE 0)
  /\ Cardinality(DOMAIN executors) <= WarmPoolSize
  /\ \A t \in DOMAIN executors : executors[t] <= ContainerTTL + (IF due THEN 1 ELSE 0)
=============================================================================
