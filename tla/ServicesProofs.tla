--------------------------- MODULE ServicesProofs ---------------------------
(***************************************************************************)
(* Theorems about services around the pipeline: the batcher, the warm pool, *)
(* the webhook, the six-rules repair, the browser, the model router, and the *)
(* FamilySearch adapter.                                                   *)
(***************************************************************************)
EXTENDS DriftBatcher, WarmPool, RepairSixRules, SloWebhook, BrowserIngest, ModelRouter,
        FamilySearchClient, WriteApply, DocsManagerJob, SequenceProofs

-----------------------------------------------------------------------------
(* The batcher, for any size of a batch and any interval.                  *)

BatcherTypeOK == requests \in Seq(Nat) /\ flushTimer \in 0 .. NoTimer

BatcherInv == BatcherTypeOK /\ TimerIsOfOldest

\* What flush leaves of a queue that is no longer than a batch is nothing, and
\* the batch it cuts off is within its bounds.
LEMMA FlushEmpties ==
  ASSUME NEW waiting \in Seq(Nat), Len(waiting) <= MaxBatchSize,
         waiting # <<>> => waiting[1] <= Interval,
         \A b \in handed : b.size <= MaxBatchSize /\ b.age <= Interval,
         Flush(waiting)
  PROVE  BatcherInv'
<1>1. Len(waiting) \in Nat /\ MaxBatchSize \in Nat
  BY BatcherConstants
<1>2. SubSeq(waiting, MaxBatchSize + 1, Len(waiting)) = <<>>
  BY <1>1, SubSeqEmpty
<1>3. requests' = <<>> /\ flushTimer' = NoTimer
  BY <1>2 DEF Flush
<1>4. \A b \in handed' : b.size <= MaxBatchSize /\ b.age <= Interval
  BY DEF Flush
<1>5. BatcherTypeOK'
  BY <1>3, BatcherConstants DEF BatcherTypeOK, NoTimer
<1>6. Len(requests') < MaxBatchSize
  BY <1>3, BatcherConstants
<1> QED BY <1>3, <1>4, <1>5, <1>6 DEF BatcherInv, TimerIsOfOldest

\* A timer that runs has at most the interval left, and that of a queue does run.
LEMMA OldestAge ==
  ASSUME BatcherInv, requests # <<>>
  PROVE  /\ requests[1] \in Nat /\ requests[1] <= Interval
         /\ flushTimer \in 0 .. Interval
<1>1. requests[1] \in Nat /\ Len(requests) >= 1
  BY EmptySeq DEF BatcherInv, BatcherTypeOK
<1>2. requests[1] + flushTimer = Interval /\ flushTimer \in Nat
  BY BatcherConstants DEF BatcherInv, BatcherTypeOK, TimerIsOfOldest, NoTimer
<1> QED BY <1>1, <1>2, BatcherConstants

\* No request of the queue waits without a timer or past the interval, and no
\* batch is larger than its size, whichever way the batches before it went
\* (driftBatcher.ts:33-71).
THEOREM OldestTimed == BatcherSpec => []TimerIsOfOldest
<1>1. BatcherInit => BatcherInv
  BY BatcherConstants DEF BatcherInit, BatcherInv, BatcherTypeOK, TimerIsOfOldest, NoTimer
<1>2. BatcherInv /\ [BatcherNext]_batcherVars => BatcherInv'
  <2> SUFFICES ASSUME BatcherInv, [BatcherNext]_batcherVars PROVE BatcherInv'
    OBVIOUS
  <2>1. CASE UNCHANGED batcherVars
    BY <2>1 DEF batcherVars, BatcherInv, BatcherTypeOK, TimerIsOfOldest
  <2>2. CASE Add
    <3> DEFINE waiting == Append(requests, 0)
    <3>1. /\ waiting \in Seq(Nat) /\ Len(waiting) = Len(requests) + 1
          /\ Len(requests) \in Nat /\ waiting # <<>>
          /\ waiting[1] = IF requests = <<>> THEN 0 ELSE requests[1]
      BY DEF BatcherInv, BatcherTypeOK
    <3>2. waiting[1] \in Nat /\ waiting[1] <= Interval
      BY <3>1, OldestAge, BatcherConstants
    <3>3. CASE Len(waiting) >= MaxBatchSize
      <4>1. Flush(waiting)
        BY <2>2, <3>3 DEF Add
      <4>2. Len(waiting) <= MaxBatchSize
        BY <3>1, BatcherConstants DEF BatcherInv, TimerIsOfOldest
      <4>3. \A b \in handed : b.size <= MaxBatchSize /\ b.age <= Interval
        BY DEF BatcherInv, TimerIsOfOldest
      <4> QED BY <3>1, <3>2, <4>1, <4>2, <4>3, FlushEmpties
    <3>4. CASE ~ Len(waiting) >= MaxBatchSize
      <4>1. /\ requests' = waiting /\ handed' = handed
            /\ flushTimer' = IF flushTimer = NoTimer THEN Interval ELSE flushTimer
        BY <2>2, <3>4 DEF Add
      <4>2. CASE requests = <<>>
        <5>1. flushTimer' = Interval /\ requests'[1] = 0
          BY <3>1, <4>1, <4>2 DEF BatcherInv, TimerIsOfOldest
        <5> QED BY <3>1, <3>4, <4>1, <5>1, BatcherConstants, SMTT(90)
                DEF BatcherInv, BatcherTypeOK, TimerIsOfOldest, NoTimer
      <4>3. CASE requests # <<>>
        <5>1. flushTimer' = flushTimer /\ requests'[1] = requests[1]
          BY <3>1, <4>1, <4>3, OldestAge, BatcherConstants DEF NoTimer
        <5> QED BY <3>1, <3>4, <4>1, <4>3, <5>1, BatcherConstants, SMTT(90)
                DEF BatcherInv, BatcherTypeOK, TimerIsOfOldest, NoTimer
      <4> QED BY <4>2, <4>3
    <3> QED BY <3>3, <3>4
  <2>3. CASE Execute \/ FlushTimerFires
    <3>1. Flush(requests)
      BY <2>3 DEF Execute, FlushTimerFires
    <3>2. requests \in Seq(Nat) /\ Len(requests) <= MaxBatchSize
      BY BatcherConstants DEF BatcherInv, BatcherTypeOK, TimerIsOfOldest
    <3>3. \A b \in handed : b.size <= MaxBatchSize /\ b.age <= Interval
      BY DEF BatcherInv, TimerIsOfOldest
    <3> QED BY <3>1, <3>2, <3>3, OldestAge, FlushEmpties
  <2>4. CASE Clear
    BY <2>4, BatcherConstants
       DEF Clear, BatcherInv, BatcherTypeOK, TimerIsOfOldest, NoTimer
  <2>5. CASE Elapse
    <3>1. requests # <<>>
      BY <2>5, BatcherConstants DEF Elapse, BatcherInv, TimerIsOfOldest, NoTimer
    <3>2. PICK n \in Nat \ {0} : n = Len(requests) /\ DOMAIN requests = 1 .. n
      BY <3>1, EmptySeq DEF BatcherInv, BatcherTypeOK
    <3>3. \A i \in 1 .. n : requests[i] \in Nat
      BY <3>2 DEF BatcherInv, BatcherTypeOK
    <3>4. requests' = [i \in 1 .. n |-> requests[i] + 1] /\ flushTimer' = flushTimer - 1
          /\ handed' = handed /\ flushTimer \in 1 .. Interval
      BY <2>5, <3>2 DEF Elapse
    <3>5. requests' \in Seq(Nat) /\ Len(requests') = n /\ requests'[1] = requests[1] + 1
      BY <3>2, <3>3, <3>4, IsASeq
    <3>6. requests' # <<>> /\ requests'[1] + flushTimer' = Interval
      <4>1. requests[1] + flushTimer = Interval /\ requests[1] \in Nat
        BY <3>1, OldestAge DEF BatcherInv, TimerIsOfOldest
      <4>2. requests' # <<>>
        BY <3>2, <3>5, EmptySeq
      <4>3. flushTimer' = flushTimer - 1 /\ flushTimer \in Int /\ requests'[1] = requests[1] + 1
        BY <3>4, <3>5, BatcherConstants
      <4>4. requests'[1] + flushTimer' = requests[1] + flushTimer
        BY <4>1, <4>3
      <4> QED BY <4>1, <4>2, <4>4
    <3>7. BatcherTypeOK'
      BY <3>4, <3>5, BatcherConstants DEF BatcherTypeOK, NoTimer
    <3> QED BY <3>2, <3>4, <3>5, <3>6, <3>7 DEF BatcherInv, TimerIsOfOldest
  <2> QED BY <2>1, <2>2, <2>3, <2>4, <2>5 DEF BatcherNext
<1>3. BatcherInv => TimerIsOfOldest
  BY DEF BatcherInv
<1> QED
  BY <1>1, <1>2, <1>3, PTL DEF BatcherSpec

-----------------------------------------------------------------------------
(* The pool, for any keys, tools, sizes and times to live.                 *)

Keys == DOMAIN pool
Warm == DOMAIN executors

\* How much older than its time to live something may be: the sweep is due.
Grace == IF due THEN 1 ELSE 0

PoolTypeOK ==
  /\ pool \in [Keys -> [age : Nat, hits : Nat]] /\ IsFiniteSet(Keys)
  /\ IsFiniteSet(added)
  /\ executors \in [Warm -> Nat] /\ IsFiniteSet(Warm)
  /\ due \in BOOLEAN

\* What was there at the last sweep fits into the pool, also after what was
\* added since has been invalidated and built again.
OldEntriesFit == Cardinality(Keys \ added) <= MaxPoolSize

AgesBounded == \A k \in Keys : pool[k].age <= TTL + Grace

ExecutorsBounded ==
  Cardinality(Warm) <= WarmPoolSize /\ \A t \in Warm : executors[t] <= ContainerTTL + Grace

PoolInv == PoolTypeOK /\ OldEntriesFit /\ AgesBounded /\ ExecutorsBounded

\* The entries of before the sweep are the fewer the more goes or is added.
LEMMA FewerOld ==
  ASSUME NEW K, NEW A, NEW L, NEW B, IsFiniteSet(K), L \ B \subseteq K \ A,
         NEW n \in Nat, Cardinality(K \ A) <= n
  PROVE  Cardinality(L \ B) <= n
<1>1. IsFiniteSet(K \ A) /\ IsFiniteSet(L \ B)
  BY FS_Subset
<1>2. Cardinality(L \ B) <= Cardinality(K \ A)
  BY <1>1, FS_Subset
<1> QED BY <1>1, <1>2, FS_CardinalityType

\* What a sweep leaves of a set is no more than it may be.
LEMMA SurplusGoes ==
  ASSUME NEW L, IsFiniteSet(L), NEW R \in SUBSET L, NEW n \in Nat,
         Cardinality(R) = IF Cardinality(L) > n THEN Cardinality(L) - n ELSE 0
  PROVE  Cardinality(L \ R) <= n
<1>1. IsFiniteSet(R) /\ L \intersect R = R
  BY FS_Subset
<1>2. Cardinality(L \ R) = Cardinality(L) - Cardinality(R)
  BY <1>1, FS_Difference
<1> QED BY <1>1, <1>2, FS_CardinalityType

\* Between sweeps the pool grows past its maximum by no more than what was
\* added since the last one, and nothing stays past its time to live for longer
\* than an interval (WarmPoolManager.ts:77-120, 227-268).
THEOREM Bounded == WarmSpec => []PoolBounded
<1> USE DEF Keys, Warm
<1>1. WarmInit => PoolInv
  <2> SUFFICES ASSUME WarmInit PROVE PoolInv
    OBVIOUS
  <2>1. Keys = {} /\ Warm = {} /\ added = {} /\ due = FALSE
    BY DEF WarmInit
  <2>2. pool \in [Keys -> [age : Nat, hits : Nat]] /\ executors \in [Warm -> Nat]
    BY DEF WarmInit
  <2>3. Keys \ added = {}
    BY <2>1
  <2>4. PoolTypeOK
    BY <2>1, <2>2, FS_EmptySet DEF PoolTypeOK
  <2>5. OldEntriesFit
    BY <2>3, FS_EmptySet, WarmConstants DEF OldEntriesFit
  <2>6. ExecutorsBounded /\ AgesBounded
    BY <2>1, FS_EmptySet, WarmConstants DEF ExecutorsBounded, AgesBounded
  <2> QED BY <2>4, <2>5, <2>6 DEF PoolInv
<1>2. PoolInv /\ [WarmNext]_warmVars => PoolInv'
  <2> SUFFICES ASSUME PoolInv, [WarmNext]_warmVars PROVE PoolInv'
    OBVIOUS
  <2>1. CASE UNCHANGED warmVars
    BY <2>1 DEF warmVars, PoolInv, PoolTypeOK, OldEntriesFit, AgesBounded, ExecutorsBounded, Grace
  <2>2. ASSUME NEW k \in InputKey, Hydrate(k) PROVE PoolInv'
    <3>1. Keys' = Keys /\ UNCHANGED <<added, executors, due>>
      BY <2>2 DEF Hydrate, PoolInv, PoolTypeOK
    <3>2. /\ pool' \in [Keys -> [age : Nat, hits : Nat]]
          /\ \A j \in Keys : pool'[j].age = pool[j].age
      BY <2>2 DEF Hydrate, PoolInv, PoolTypeOK
    <3>3. Grace' = Grace
      BY <3>1 DEF Grace
    <3>4. PoolTypeOK' /\ OldEntriesFit'
      BY <3>1, <3>2 DEF PoolInv, PoolTypeOK, OldEntriesFit
    <3>5. AgesBounded' /\ ExecutorsBounded'
      BY <3>1, <3>2, <3>3 DEF PoolInv, AgesBounded, ExecutorsBounded
    <3> QED BY <3>4, <3>5 DEF PoolInv
  <2>3. ASSUME NEW k \in InputKey, Built(k) PROVE PoolInv'
    <3>1. Keys' = Keys \union {k} /\ added' = added \union {k} /\ UNCHANGED <<executors, due>>
      BY <2>3 DEF Built
    <3>2. /\ pool' \in [Keys' -> [age : Nat, hits : Nat]]
          /\ \A j \in Keys' : pool'[j].age = 0 \/ (j \in Keys /\ pool'[j] = pool[j])
      BY <2>3 DEF Built, PoolInv, PoolTypeOK
    <3>3. IsFiniteSet(Keys') /\ IsFiniteSet(added')
      <4>1. IsFiniteSet(Keys) /\ IsFiniteSet(added)
        BY DEF PoolInv, PoolTypeOK
      <4> HIDE DEF Keys
      <4>2. IsFiniteSet(Keys \union {k}) /\ IsFiniteSet(added \union {k})
        BY ONLY <4>1, FS_AddElement
      <4> QED BY ONLY <3>1, <4>2
    <3>4. OldEntriesFit'
      <4>1. IsFiniteSet(Keys) /\ Cardinality(Keys \ added) <= MaxPoolSize /\ MaxPoolSize \in Nat
        BY WarmConstants DEF PoolInv, PoolTypeOK, OldEntriesFit
      <4> HIDE DEF Keys
      <4>2. (Keys \union {k}) \ (added \union {k}) \subseteq Keys \ added
        OBVIOUS
      <4>3. Cardinality((Keys \union {k}) \ (added \union {k})) <= MaxPoolSize
        BY ONLY <4>1, <4>2, FewerOld
      <4> QED BY <3>1, <4>3 DEF OldEntriesFit
    <3>5. Grace' = Grace /\ Grace \in Nat /\ TTL \in Nat
      BY <3>1, WarmConstants DEF Grace
    <3>6. AgesBounded'
      <4> SUFFICES ASSUME NEW j \in Keys' PROVE pool'[j].age <= TTL + Grace'
        BY DEF AgesBounded
      <4>1. CASE pool'[j].age = 0
        BY ONLY <3>5, <4>1
      <4>2. CASE j \in Keys /\ pool'[j] = pool[j]
        BY <3>5, <4>2 DEF PoolInv, AgesBounded
      <4> QED BY <3>2, <4>1, <4>2
    <3>7. PoolTypeOK'
      BY <3>1, <3>2, <3>3 DEF PoolInv, PoolTypeOK
    <3>8. ExecutorsBounded'
      BY <3>1, <3>5 DEF PoolInv, ExecutorsBounded
    <3> QED BY <3>4, <3>6, <3>7, <3>8 DEF PoolInv
  <2>4. ASSUME NEW keys \in Prefix, Invalidate(keys) PROVE PoolInv'
    <3>1. pool' = Without(pool, keys) /\ UNCHANGED <<added, executors, due>>
      BY <2>4 DEF Invalidate
    <3>2. /\ Keys' = Keys \ keys /\ pool' \in [Keys' -> [age : Nat, hits : Nat]]
          /\ \A j \in Keys' : pool'[j] = pool[j]
      <4>1. pool \in [Keys -> [age : Nat, hits : Nat]]
        BY DEF PoolInv, PoolTypeOK
      <4> HIDE DEF Keys
      <4>2. /\ DOMAIN Without(pool, keys) = Keys \ keys
            /\ Without(pool, keys) \in [Keys \ keys -> [age : Nat, hits : Nat]]
            /\ \A j \in Keys \ keys : Without(pool, keys)[j] = pool[j]
        BY <4>1 DEF Without
      <4>3. Keys' = Keys \ keys
        BY <3>1, <4>2 DEF Keys
      <4> QED BY <3>1, <4>2, <4>3
    <3>3. IsFiniteSet(Keys')
      BY <3>2, FS_Subset DEF PoolInv, PoolTypeOK
    <3>4. OldEntriesFit'
      <4>1. IsFiniteSet(Keys) /\ Cardinality(Keys \ added) <= MaxPoolSize /\ MaxPoolSize \in Nat
        BY WarmConstants DEF PoolInv, PoolTypeOK, OldEntriesFit
      <4> HIDE DEF Keys
      <4>2. (Keys \ keys) \ added \subseteq Keys \ added
        OBVIOUS
      <4>3. Cardinality((Keys \ keys) \ added) <= MaxPoolSize
        BY ONLY <4>1, <4>2, FewerOld
      <4> QED BY <3>1, <3>2, <4>3 DEF OldEntriesFit
    <3>5. Grace' = Grace
      BY <3>1 DEF Grace
    <3>6. AgesBounded'
      BY <3>2, <3>5 DEF PoolInv, AgesBounded
    <3>7. PoolTypeOK'
      BY <3>1, <3>2, <3>3 DEF PoolInv, PoolTypeOK
    <3>8. ExecutorsBounded'
      BY <3>1, <3>5 DEF PoolInv, ExecutorsBounded
    <3> QED BY <3>4, <3>6, <3>7, <3>8 DEF PoolInv
  <2>5. ASSUME NEW t \in Executable, GetWarmExecutor(t) PROVE PoolInv'
    <3>1. UNCHANGED <<pool, added, due>> /\ Warm' = Warm \union {t}
      BY <2>5 DEF GetWarmExecutor
    <3>2. executors' \in [Warm' -> Nat] /\ \A s \in Warm' : executors'[s] = 0 \/ (s \in Warm /\ executors'[s] = executors[s])
      BY <2>5 DEF GetWarmExecutor, PoolInv, PoolTypeOK
    <3>3. IsFiniteSet(Warm') /\ Cardinality(Warm') <= WarmPoolSize
      <4>1. CASE t \in Warm
        BY <3>1, <4>1 DEF PoolInv, PoolTypeOK, ExecutorsBounded
      <4>2. CASE t \notin Warm
        <5>1. Cardinality(Warm) < WarmPoolSize /\ IsFiniteSet(Warm)
          BY <2>5, <4>2 DEF GetWarmExecutor, PoolInv, PoolTypeOK
        <5>2. IsFiniteSet(Warm') /\ Cardinality(Warm') = Cardinality(Warm) + 1
          BY <3>1, <4>2, <5>1, FS_AddElement
        <5> QED BY <5>1, <5>2, FS_CardinalityType, WarmConstants
      <4> QED BY <4>1, <4>2
    <3>4. \A s \in Warm' : executors'[s] <= ContainerTTL + Grace
      BY <3>1, <3>2, WarmConstants DEF PoolInv, ExecutorsBounded, Grace
    <3>5. Grace' = Grace
      BY <3>1 DEF Grace
    <3>6. PoolTypeOK' /\ OldEntriesFit'
      BY <3>1, <3>2, <3>3 DEF PoolInv, PoolTypeOK, OldEntriesFit
    <3>7. AgesBounded' /\ ExecutorsBounded'
      BY <3>1, <3>3, <3>4, <3>5 DEF PoolInv, AgesBounded, ExecutorsBounded
    <3> QED BY <3>6, <3>7 DEF PoolInv
  <2>6. CASE Tick
    <3>1. Keys' = Keys /\ Warm' = Warm /\ added' = added /\ ~ due /\ due' = TRUE
      BY <2>6 DEF Tick
    <3>2. \A k \in Keys : pool'[k] = [pool[k] EXCEPT !.age = @ + 1]
      BY <2>6 DEF Tick
    <3>3. \A k \in Keys : pool'[k] \in [age : Nat, hits : Nat] /\ pool'[k].age = pool[k].age + 1
      <4> SUFFICES ASSUME NEW k \in Keys
                   PROVE  pool'[k] \in [age : Nat, hits : Nat] /\ pool'[k].age = pool[k].age + 1
        OBVIOUS
      <4>1. pool[k] \in [age : Nat, hits : Nat]
        BY DEF PoolInv, PoolTypeOK
      <4>2. pool'[k] = [pool[k] EXCEPT !.age = @ + 1]
        BY <3>2
      <4> QED BY <4>1, <4>2
    <3>4. pool' \in [Keys' -> [age : Nat, hits : Nat]]
      BY <2>6, <3>1, <3>3 DEF Tick
    <3>5. executors' \in [Warm' -> Nat] /\ \A t \in Warm : executors'[t] = executors[t] + 1
      BY <2>6, <3>1 DEF Tick, PoolInv, PoolTypeOK
    <3>6. AgesBounded'
      <4>1. \A k \in Keys : pool[k].age \in Nat /\ pool[k].age <= TTL
        BY <3>1, WarmConstants DEF PoolInv, PoolTypeOK, AgesBounded, Grace
      <4> QED BY <3>1, <3>3, <4>1, WarmConstants DEF AgesBounded, Grace
    <3>7. ExecutorsBounded'
      <4>1. \A t \in Warm : executors[t] \in Nat /\ executors[t] <= ContainerTTL
        BY <3>1, WarmConstants, SMTT(90) DEF PoolInv, PoolTypeOK, ExecutorsBounded, Grace
      <4> QED BY <3>1, <3>5, <4>1, WarmConstants DEF PoolInv, ExecutorsBounded, Grace
    <3> QED BY <3>1, <3>4, <3>5, <3>6, <3>7 DEF PoolInv, PoolTypeOK, OldEntriesFit
  <2>7. CASE Sweep
    <3> DEFINE old == {k \in DOMAIN pool : pool[k].age > TTL}
               left == DOMAIN pool \ old
               idle == {t \in DOMAIN executors : executors[t] > ContainerTTL}
    <3>1. PICK surplus \in SUBSET left :
            /\ Cardinality(surplus) = IF Cardinality(left) > MaxPoolSize
                                      THEN Cardinality(left) - MaxPoolSize ELSE 0
            /\ pool' = Without(pool, old \union surplus)
      BY <2>7 DEF Sweep
    <3>2. due' = FALSE /\ added' = {} /\ executors' = Without(executors, idle)
      BY <2>7 DEF Sweep
    <3>3. /\ Keys' = left \ surplus /\ pool' \in [Keys' -> [age : Nat, hits : Nat]]
          /\ \A j \in Keys' : pool'[j] = pool[j]
      <4> DEFINE gone == old \union surplus
      <4>1. pool \in [Keys -> [age : Nat, hits : Nat]] /\ Keys \ gone = left \ surplus
        BY DEF PoolInv, PoolTypeOK
      <4> HIDE DEF Keys, gone
      <4>2. /\ DOMAIN Without(pool, gone) = Keys \ gone
            /\ Without(pool, gone) \in [Keys \ gone -> [age : Nat, hits : Nat]]
            /\ \A j \in Keys \ gone : Without(pool, gone)[j] = pool[j]
        BY <4>1 DEF Without
      <4>3. pool' = Without(pool, gone) /\ Keys' = Keys \ gone
        BY <3>1, <4>2 DEF Keys, gone
      <4> HIDE DEF left
      <4> QED BY <4>1, <4>2, <4>3
    <3>4. /\ Warm' = Warm \ idle /\ executors' \in [Warm' -> Nat]
          /\ \A t \in Warm' : executors'[t] = executors[t]
      <4>1. executors \in [Warm -> Nat]
        BY DEF PoolInv, PoolTypeOK
      <4> HIDE DEF Warm, idle
      <4>2. /\ DOMAIN Without(executors, idle) = Warm \ idle
            /\ Without(executors, idle) \in [Warm \ idle -> Nat]
            /\ \A t \in Warm \ idle : Without(executors, idle)[t] = executors[t]
        BY <4>1 DEF Without
      <4>3. Warm' = Warm \ idle
        BY <3>2, <4>2 DEF Warm
      <4> QED BY <3>2, <4>2, <4>3
    <3>5. IsFiniteSet(left) /\ IsFiniteSet(Keys') /\ IsFiniteSet(Warm') /\ IsFiniteSet(added')
      BY <3>2, <3>3, <3>4, FS_Subset, FS_EmptySet DEF PoolInv, PoolTypeOK
    <3>6. OldEntriesFit'
      <4>1. Cardinality(left \ surplus) <= MaxPoolSize
        BY <3>1, <3>5, SurplusGoes, WarmConstants
      <4>2. Keys' \ added' = left \ surplus
        BY <3>2, <3>3
      <4> QED BY <4>1, <4>2 DEF OldEntriesFit
    <3>7. AgesBounded'
      <4>1. \A j \in Keys' : pool[j].age \in Nat /\ ~ pool[j].age > TTL
        BY <3>3 DEF PoolInv, PoolTypeOK
      <4> QED BY <3>2, <3>3, <4>1, WarmConstants DEF AgesBounded, Grace
    <3>8. Cardinality(Warm') <= WarmPoolSize
      <4>1. Cardinality(Warm') <= Cardinality(Warm)
        BY <3>4, FS_Subset DEF PoolInv, PoolTypeOK
      <4> QED BY <3>5, <4>1, FS_CardinalityType, WarmConstants, SMTT(90)
                 DEF PoolInv, PoolTypeOK, ExecutorsBounded
    <3>9. \A t \in Warm' : executors'[t] <= ContainerTTL + Grace'
      <4>1. \A t \in Warm' : executors[t] \in Nat /\ ~ executors[t] > ContainerTTL
        BY <3>4 DEF PoolInv, PoolTypeOK
      <4> QED BY <3>2, <3>4, <4>1, WarmConstants DEF Grace
    <3> QED BY <3>2, <3>3, <3>4, <3>5, <3>6, <3>7, <3>8, <3>9
               DEF PoolInv, PoolTypeOK, ExecutorsBounded
  <2> QED BY <2>1, <2>2, <2>3, <2>4, <2>5, <2>6, <2>7 DEF WarmNext
<1>3. PoolInv => PoolBounded
  <2> SUFFICES ASSUME PoolInv PROVE PoolBounded
    OBVIOUS
  <2>1. Cardinality(Keys) <= Cardinality(Keys \ added) + Cardinality(added)
    <3>1. IsFiniteSet(Keys) /\ IsFiniteSet(added) /\ IsFiniteSet(Keys \ added)
      BY FS_Subset DEF PoolInv, PoolTypeOK
    <3>2. IsFiniteSet(Keys \intersect added) /\ Cardinality(Keys \intersect added) <= Cardinality(added)
      BY <3>1, FS_Subset
    <3>3. Cardinality(Keys \ added) = Cardinality(Keys) - Cardinality(Keys \intersect added)
      BY <3>1, FS_Difference
    <3> QED BY <3>1, <3>2, <3>3, FS_CardinalityType
  <2>2. /\ Cardinality(Keys) \in Nat /\ Cardinality(added) \in Nat
        /\ Cardinality(Keys \ added) \in Nat
    BY FS_Subset, FS_CardinalityType DEF PoolInv, PoolTypeOK
  <2>3. Cardinality(Keys) <= MaxPoolSize + Cardinality(added)
    BY <2>1, <2>2, WarmConstants DEF PoolInv, OldEntriesFit
  <2> QED BY <2>3 DEF PoolInv, AgesBounded, ExecutorsBounded, Grace, PoolBounded
<1> QED
  BY <1>1, <1>2, <1>3, PTL DEF WarmSpec

-----------------------------------------------------------------------------
(* The repair, for any wrappers, criteria and manifests.                   *)

LineCounts == [valid : Nat, lacking : Nat, torn : Nat]

\* What the manifest is, or will be when the file is written again.
Effective == IF Unlocked THEN lines ELSE rewrite.left

LinesTyping ==
  /\ lines \in LineCounts
  /\ rewrite.left \in LineCounts
  /\ ~ Unlocked => lines = Emptied

\* What the count and the lines the repair finds have to do with each other.
Compared(own, found) ==
  /\ "shrunk" \notin own.crossed => Total(own.before) =< Total(found)
  /\ own.crossed \cap {"grown", "blind"} = {} => Total(found) =< Total(own.before)

Sentence(own) ==
  /\ own.drift <=> DetectRepairDrift(own.before, own.stats)
  /\ own.success => CheckCriteria(own.criteria, own.stats) /\ ~ own.drift

Repairing ==
  [at : {"idle", "refused", "counted", "repairing", "failed", "judged"},
   criteria : Criteria \cup {[max |-> 0, min |-> 0, timeout |-> 0]},
   before : LineCounts, stats : LineCounts, drift : BOOLEAN, success : BOOLEAN,
   crossed : SUBSET {"shrunk", "grown", "blind"}]

\* Where a process of the repair is with its counts, m being the manifest.
Underway(own, m) ==
  /\ own \in Repairing
  /\ own.at = "counted" => Compared(own, m)
  /\ own.at \in {"repairing", "judged"} => Compared(own, own.stats)
  /\ own.at = "judged" => Sentence(own)

RepairInv ==
  /\ LinesTyping
  /\ DOMAIN wrapper = Wrapper
  /\ \A w \in Wrapper : /\ Underway(wrapper[w], Effective)
                        /\ rewrite.by = w => wrapper[w].at = "repairing"

\* The numbers of lines are numbers.
LEMMA Totals ==
  \A m \in LineCounts : Total(m) \in Nat /\ Corrupted(m) \in Nat /\ m.valid \in Nat
                    /\ Total(m) = m.valid + Corrupted(m)
BY DEF LineCounts, Total, Corrupted

\* A verdict on counts that are compared is what RepairJudged says.
LEMMA Judged ==
  ASSUME NEW own, own.before \in LineCounts, own.stats \in LineCounts, own.criteria.max \in Int,
         own.criteria.min \in Int, Compared(own, own.stats), Sentence(own)
  PROVE  LET taken == Corrupted(own.stats)
             tooMuch == Total(own.stats) >= 10 /\ 10 * taken > 3 * Total(own.stats)
         IN /\ own.drift /\ ~ tooMuch => "shrunk" \in own.crossed
            /\ tooMuch /\ ~ own.drift => own.crossed \intersect {"grown", "blind"} # {}
            /\ own.success => /\ 100 * taken <= own.criteria.max * Total(own.stats)
                              /\ tooMuch => own.crossed # {}
<1> DEFINE taken == Corrupted(own.stats)
           tooMuch == Total(own.stats) >= 10 /\ 10 * taken > 3 * Total(own.stats)
<1>1. /\ Total(own.before) \in Nat /\ Total(own.stats) \in Nat /\ taken \in Nat
      /\ own.stats.valid \in Nat /\ Total(own.stats) = own.stats.valid + taken
  BY Totals
<1>2. own.drift /\ ~ tooMuch => "shrunk" \in own.crossed
  BY <1>1 DEF Compared, Sentence, DetectRepairDrift
<1>3. tooMuch /\ ~ own.drift => own.crossed \intersect {"grown", "blind"} # {}
  BY <1>1 DEF Compared, Sentence, DetectRepairDrift
<1>4. ASSUME own.success PROVE 100 * taken <= own.criteria.max * Total(own.stats)
  <2>1. CASE Total(own.stats) = 0
    BY <1>1, <2>1
  <2>2. CASE Total(own.stats) # 0
    BY <1>1, <1>4, <2>2 DEF Sentence, CheckCriteria
  <2> QED BY <2>1, <2>2
<1> QED BY <1>2, <1>3, <1>4 DEF Sentence

\* A process that has counted notes what others do to the manifest after it.
LEMMA CrossedStays ==
  ASSUME NEW own, NEW m \in LineCounts, NEW n \in LineCounts, Underway(own, m),
         NEW how \in {"shrunk", "grown"},
         how = "shrunk" => Total(n) =< Total(m),
         how = "grown" => Total(n) >= Total(m)
  PROVE  LET new == IF own.at = "counted" THEN [own EXCEPT !.crossed = @ \union {how}] ELSE own
         IN Underway(new, n) /\ new.at = own.at
<1>1. CASE own.at = "counted"
  <2> DEFINE new == [own EXCEPT !.crossed = @ \union {how}]
  <2>1. /\ new \in Repairing /\ new.at = own.at /\ new.before = own.before
        /\ new.crossed = own.crossed \union {how}
    BY DEF Underway, Repairing
  <2>2. Compared(own, m) /\ Total(m) \in Nat /\ Total(n) \in Nat /\ Total(own.before) \in Nat
    BY <1>1, Totals DEF Underway, Repairing
  <2> HIDE DEF new
  <2>3. Compared(new, n)
    BY <2>1, <2>2 DEF Compared
  <2>4. Underway(new, n)
    BY <2>1, <2>3, <1>1 DEF Underway
  <2> QED BY <2>1, <2>4, <1>1 DEF new
<1>2. CASE own.at # "counted"
  BY <1>2 DEF Underway
<1> QED BY <1>1, <1>2

\* A manifest of the same length is compared with the counts as the one before.
LEMMA SameLength ==
  ASSUME NEW own, NEW m, NEW n, Underway(own, m), Total(n) = Total(m)
  PROVE  Underway(own, n)
BY DEF Underway, Compared

\* The judgement of a repair under the six rules is of that repair.
THEOREM RepairsJudged == RepairSpec => []RepairJudged
<1> USE RepairConstants
<1>1. RepairInit => RepairInv
  <2> SUFFICES ASSUME RepairInit PROVE RepairInv
    OBVIOUS
  <2>1. lines \in LineCounts /\ rewrite = NoRewrite /\ Emptied \in LineCounts
    BY DEF RepairInit, LineCounts, Emptied
  <2>2. Unrepaired \in Repairing /\ Unrepaired.at = "idle"
    BY <2>1 DEF Unrepaired, Repairing
  <2> QED
    BY <2>1, <2>2 DEF RepairInit, RepairInv, LinesTyping, NoRewrite, Underway, Unlocked
<1>2. RepairInv /\ [RepairNext]_repairVars => RepairInv'
  <2> SUFFICES ASSUME RepairInv, [RepairNext]_repairVars PROVE RepairInv'
    OBVIOUS
  <2>1. /\ lines \in LineCounts /\ rewrite.left \in LineCounts /\ Effective \in LineCounts
        /\ Emptied \in LineCounts /\ Total(Emptied) = 0
    BY DEF RepairInv, LinesTyping, Effective, LineCounts, Emptied, Total
  <2>2. ASSUME NEW torn \in BOOLEAN, RecordLine(torn) PROVE RepairInv'
    <3>1. lines' \in LineCounts /\ Total(lines') = Total(lines) + 1 /\ Effective = lines
          /\ Effective' = lines' /\ rewrite' = rewrite /\ Unlocked
      BY <2>2, <2>1 DEF RecordLine, Unlocked, Effective, LineCounts, Total
    <3>2. ASSUME NEW w \in Wrapper
          PROVE  Underway(wrapper'[w], Effective') /\ wrapper'[w].at = wrapper[w].at
      <4>1. Underway(wrapper[w], lines)
        BY <3>1 DEF RepairInv
      <4>2. wrapper'[w] = IF wrapper[w].at = "counted"
                          THEN [wrapper[w] EXCEPT !.crossed = @ \union {"grown"}] ELSE wrapper[w]
        BY <2>2 DEF RecordLine, Crossed
      <4>3. Total(lines') >= Total(lines)
        BY <3>1, <2>1, Totals
      <4>4. LET new == IF wrapper[w].at = "counted"
                       THEN [wrapper[w] EXCEPT !.crossed = @ \union {"grown"}] ELSE wrapper[w]
            IN Underway(new, lines') /\ new.at = wrapper[w].at
        BY <4>1, <4>3, <3>1, <2>1, CrossedStays
      <4> QED BY <4>2, <4>4, <3>1
    <3>3. DOMAIN wrapper' = Wrapper
      BY <2>2 DEF RecordLine, Crossed
    <3> QED BY <3>1, <3>2, <3>3, <2>1 DEF RepairInv, LinesTyping, Unlocked
  <2>3. ASSUME NEW left \in LineCounts, NEW w \in Wrapper, Unlocked, Total(left) =< Total(lines)
        PROVE  Underway(Cut(left)[w], left) /\ Cut(left)[w].at = wrapper[w].at
    <3>1. Underway(wrapper[w], lines)
      BY <2>3 DEF RepairInv, Effective
    <3>2. CASE Total(left) < Total(lines)
      <4>1. Cut(left)[w] = IF wrapper[w].at = "counted"
                           THEN [wrapper[w] EXCEPT !.crossed = @ \union {"shrunk"}] ELSE wrapper[w]
        BY <3>2 DEF Cut, Crossed
      <4>2. LET new == IF wrapper[w].at = "counted"
                       THEN [wrapper[w] EXCEPT !.crossed = @ \union {"shrunk"}] ELSE wrapper[w]
            IN Underway(new, left) /\ new.at = wrapper[w].at
        BY <3>1, <2>1, <2>3, CrossedStays
      <4> QED BY <4>1, <4>2
    <3>3. CASE ~ (Total(left) < Total(lines))
      <4>1. Cut(left)[w] = wrapper[w] /\ Total(left) = Total(lines)
        BY <3>3, <2>1, <2>3, Totals DEF Cut
      <4> QED BY <4>1, <3>1, SameLength
    <3> QED BY <3>2, <3>3
  <2>4. ASSUME NEW left PROVE DOMAIN Cut(left) = Wrapper
    BY DEF Cut, Crossed, RepairInv
  <2>5. ASSUME NEW v \in 0..MaxArchived, NEW l \in 0..MaxArchived, PruneLines(v, l) PROVE RepairInv'
    <3>1. /\ rewrite'.left \in LineCounts /\ Total(rewrite'.left) =< Total(lines)
          /\ rewrite'.by = "prune" /\ lines' = Emptied
      BY <2>5, <2>1 DEF PruneLines, LineCounts, Total
    <3>2. wrapper' = Cut(rewrite'.left) /\ Unlocked
      BY <2>5 DEF PruneLines
    <3>3. Effective' = rewrite'.left /\ ~ Unlocked'
      BY <3>1 DEF Effective, Unlocked, NoRewrite
    <3>4. \A w \in Wrapper : Underway(wrapper'[w], Effective')
      BY <3>1, <3>2, <3>3, <2>3
    <3> QED BY <3>1, <3>2, <3>3, <3>4, <2>1, <2>4 DEF RepairInv, LinesTyping
  <2>6. CASE PruneWrites
    <3>1. Effective' = Effective /\ lines' \in LineCounts /\ rewrite' = NoRewrite /\ wrapper' = wrapper
      BY <2>6, <2>1 DEF PruneWrites, Effective, Unlocked, NoRewrite
    <3> QED BY <3>1, <2>1 DEF RepairInv, LinesTyping, NoRewrite, Unlocked
  <2>7. ASSUME NEW w \in Wrapper, NEW new, wrapper' = [wrapper EXCEPT ![w] = new],
               Underway(new, Effective'), Total(Effective') = Total(Effective), LinesTyping',
               \A u \in Wrapper \ {w} : rewrite'.by = u => rewrite.by = u,
               rewrite'.by = w => new.at = "repairing"
        PROVE  RepairInv'
    <3>1. \A u \in Wrapper \ {w} : wrapper'[u] = wrapper[u]
      BY <2>7 DEF RepairInv
    <3>2. wrapper'[w] = new /\ DOMAIN wrapper' = Wrapper
      BY <2>7 DEF RepairInv
    <3>3. \A u \in Wrapper : Underway(wrapper'[u], Effective')
      BY <3>1, <3>2, <2>7, SameLength DEF RepairInv
    <3> QED BY <3>1, <3>2, <3>3, <2>7 DEF RepairInv
  <2>8. ASSUME NEW w \in Wrapper, NEW c \in Criteria, RefuseCriteria(w, c) \/ GetRepairStats(w, c)
        PROVE  RepairInv'
    <3>1. /\ LinesTyping' /\ Effective' = Effective /\ rewrite' = rewrite
          /\ rewrite.by # w
      BY <2>8 DEF RefuseCriteria, GetRepairStats, RepairInv, LinesTyping, Effective, Unlocked
    <3>2. Unrepaired \in Repairing /\ DOMAIN Unrepaired = {"at", "criteria", "before", "stats",
                                                          "drift", "success", "crossed"}
      BY <2>1 DEF Unrepaired, Repairing
    <3>3. CASE RefuseCriteria(w, c)
      <4> DEFINE new == [Unrepaired EXCEPT !.at = "refused", !.criteria = c, !.drift = TRUE]
      <4>1. Underway(new, Effective')
        BY <3>2 DEF Underway, Repairing
      <4> HIDE DEF new
      <4>2. wrapper' = [wrapper EXCEPT ![w] = new]
        BY <3>3 DEF RefuseCriteria, new
      <4> QED BY <4>1, <4>2, <3>1, <2>7
    <3>4. CASE GetRepairStats(w, c)
      <4> DEFINE new == [Unrepaired EXCEPT !.at = "counted", !.criteria = c, !.before = lines,
                                          !.crossed = IF Unlocked THEN {} ELSE {"blind"}]
      <4>1. /\ new \in Repairing /\ new.at = "counted" /\ new.before = lines
            /\ Unlocked => new.crossed = {} 
            /\ ~ Unlocked => new.crossed = {"blind"}
        BY <3>2, <2>1, ZenonT(90) DEF Repairing
      <4> HIDE DEF new
      <4>2. Compared(new, Effective)
        <5>1. CASE Unlocked
          BY <5>1, <4>1, <2>1, Totals DEF Compared, Effective
        <5>2. CASE ~ Unlocked
          <6>1. lines = Emptied /\ Total(Effective) \in Nat
            BY <5>2, <2>1, Totals DEF RepairInv, LinesTyping
          <6> QED BY <5>2, <6>1, <4>1, <2>1 DEF Compared
        <5> QED BY <5>1, <5>2
      <4>3. Underway(new, Effective')
        BY <4>1, <4>2, <3>1 DEF Underway
      <4>4. wrapper' = [wrapper EXCEPT ![w] = new]
        BY <3>4 DEF GetRepairStats, new
      <4> QED BY <4>3, <4>4, <3>1, <2>7
    <3> QED BY <2>8, <3>3, <3>4
  <2>9. ASSUME NEW w \in Wrapper, RepairManifest(w) PROVE RepairInv'
    <3> DEFINE new == [wrapper[w] EXCEPT !.at = "repairing", !.stats = lines]
               left == rewrite'.left
    <3>1. /\ left \in LineCounts /\ Total(left) =< Total(lines) /\ rewrite'.by = w /\ lines' = Emptied
      <4>1. rewrite' = [by |-> w, left |-> [lines EXCEPT !.lacking = 0, !.torn = 0]] /\ lines' = Emptied
        BY <2>9 DEF RepairManifest
      <4>2. left = [lines EXCEPT !.lacking = 0, !.torn = 0] /\ rewrite'.by = w
        BY <4>1
      <4> HIDE DEF left, new
      <4>3. /\ left \in LineCounts /\ left.valid = lines.valid /\ left.lacking = 0 /\ left.torn = 0
            /\ lines.valid \in Nat /\ lines.lacking \in Nat /\ lines.torn \in Nat
        BY <4>2, <2>1 DEF LineCounts
      <4>4. Total(left) =< Total(lines)
        BY <4>3 DEF Total
      <4> QED BY <4>1, <4>2, <4>3, <4>4
    <3>2. Effective' = left /\ ~ Unlocked'
      <4>1. w # "nobody"
        OBVIOUS
      <4> QED BY <4>1, <3>1 DEF Effective, Unlocked, NoRewrite
    <3>3. Unlocked /\ wrapper[w].at = "counted" /\ Underway(wrapper[w], lines)
      BY <2>9 DEF RepairManifest, RepairInv, Effective
    <3>4. /\ new \in Repairing /\ new.at = "repairing" /\ new.stats = lines
          /\ new.before = wrapper[w].before /\ new.crossed = wrapper[w].crossed
      BY <3>3, <2>1 DEF Underway, Repairing
    <3>5. wrapper' = [Cut(left) EXCEPT ![w] = new]
      BY <2>9 DEF RepairManifest
    <3> HIDE DEF new, left
    <3>6. Underway(new, left)
      BY <3>3, <3>4 DEF Underway, Compared
    <3>7. \A u \in Wrapper \ {w} : wrapper'[u] = Cut(left)[u]
      BY <3>5, <2>4
    <3>8. wrapper'[w] = new /\ DOMAIN wrapper' = Wrapper
      BY <3>5, <2>4
    <3>9. \A u \in Wrapper : Underway(wrapper'[u], Effective')
      BY <3>1, <3>2, <3>3, <3>6, <3>7, <3>8, <2>3
    <3> QED BY <3>1, <3>2, <3>4, <3>8, <3>9, <2>1 DEF RepairInv, LinesTyping, left
  <2>10. ASSUME NEW w \in Wrapper, RepairFails(w) PROVE RepairInv'
    <3> DEFINE new == [wrapper[w] EXCEPT !.at = "failed", !.stats = wrapper[w].before, !.drift = TRUE]
    <3>1. /\ LinesTyping' /\ Effective' = Effective /\ rewrite' = rewrite
          /\ rewrite.by # w /\ wrapper' = [wrapper EXCEPT ![w] = new]
      BY <2>10 DEF RepairFails, RepairInv, LinesTyping, Effective, Unlocked
    <3>2. wrapper[w] \in Repairing
      BY DEF RepairInv, Underway
    <3>3. new \in Repairing /\ new.at = "failed"
      BY <3>2 DEF Repairing
    <3> HIDE DEF new
    <3>4. Underway(new, Effective')
      BY <3>3 DEF Underway
    <3> QED BY <3>1, <3>4, <2>7
  <2>11. ASSUME NEW w \in Wrapper, NEW slow \in BOOLEAN, RepairWithSixRules(w, slow) PROVE RepairInv'
    <3> DEFINE own == wrapper[w]
    <3>1. PICK d \in BOOLEAN : d = DetectRepairDrift(own.before, own.stats)
      BY DEF DetectRepairDrift
    <3>2. PICK s \in BOOLEAN : s = (/\ CheckCriteria(own.criteria, own.stats)
                                    /\ ~ DetectRepairDrift(own.before, own.stats)
                                    /\ ~ slow)
      OBVIOUS
    <3> DEFINE new == [own EXCEPT !.at = "judged", !.drift = d, !.success = s]
    <3>3. wrapper' = [wrapper EXCEPT ![w] = new]
      BY <2>11, <3>1, <3>2, ZenonT(90) DEF RepairWithSixRules
    <3>4. own \in Repairing /\ own.at = "repairing" /\ Compared(own, own.stats)
      BY <2>11 DEF RepairWithSixRules, RepairInv, Underway
    <3>5. /\ new \in Repairing /\ new.at = "judged" /\ new.stats = own.stats
          /\ new.before = own.before /\ new.crossed = own.crossed /\ new.criteria = own.criteria
          /\ new.drift = d /\ new.success = s
      BY <3>4, ZenonT(90) DEF Repairing
    <3> HIDE DEF new
    <3>6. Compared(new, new.stats)
      BY <3>4, <3>5 DEF Compared
    <3>7. Sentence(new)
      BY <3>1, <3>2, <3>5 DEF Sentence
    <3>8. Underway(new, Effective')
      BY <3>5, <3>6, <3>7 DEF Underway
    <3>9. rewrite' = NoRewrite /\ LinesTyping' /\ Effective' = Effective
      BY <2>11, <2>1 DEF RepairWithSixRules, LinesTyping, Effective, Unlocked, NoRewrite
    <3> QED BY <3>3, <3>8, <3>9, <2>7 DEF NoRewrite
  <2>12. CASE UNCHANGED repairVars
    BY <2>12 DEF repairVars, RepairInv, LinesTyping, Unlocked, Effective
  <2> QED BY <2>2, <2>5, <2>6, <2>8, <2>9, <2>10, <2>11, <2>12 DEF RepairNext
<1>3. RepairInv => RepairJudged
  <2> SUFFICES ASSUME RepairInv, NEW w \in Wrapper, wrapper[w].at = "judged"
               PROVE  LET own == wrapper[w]
                          taken == Corrupted(own.stats)
                          tooMuch == Total(own.stats) >= 10 /\ 10 * taken > 3 * Total(own.stats)
                      IN /\ own.drift /\ ~ tooMuch => "shrunk" \in own.crossed
                         /\ tooMuch /\ ~ own.drift => own.crossed \intersect {"grown", "blind"} # {}
                         /\ own.success => /\ 100 * taken <= own.criteria.max * Total(own.stats)
                                           /\ tooMuch => own.crossed # {}
    BY DEF RepairJudged
  <2>1. /\ wrapper[w].before \in LineCounts /\ wrapper[w].stats \in LineCounts
        /\ Compared(wrapper[w], wrapper[w].stats) /\ Sentence(wrapper[w])
        /\ wrapper[w].criteria \in Criteria \cup {[max |-> 0, min |-> 0, timeout |-> 0]}
    BY DEF RepairInv, Underway, Repairing
  <2>2. wrapper[w].criteria.max \in Int /\ wrapper[w].criteria.min \in Int
    BY <2>1
  <2> QED BY <2>1, <2>2, Judged
<1> QED BY <1>1, <1>2, <1>3, PTL DEF RepairSpec

-----------------------------------------------------------------------------
(* The webhook, for any targets, emissions and attempts.                   *)

PostRecord == [event : Nat, taken : BOOLEAN]
PlaceRecord == [failed : Nat, at : {"posting", "delayed", "settled"}]

WebhookTypeOK ==
  /\ emitted \in Seq(BOOLEAN) /\ dispatched \in 0..Len(emitted) /\ isProcessing \in BOOLEAN
  /\ posts \in [Target -> PlaceRecord]
  /\ log \in [Target -> Seq(PostRecord)]

ServedTo(t, e) == IF t \in TargetsOf(emitted[e]) THEN Tried(t, e) ELSE PostsOf(t, e) = {}

PostsOrdered ==
  \A t \in Target : \A i, j \in DOMAIN log[t] : i <= j => log[t][i].event <= log[t][j].event

\* The event in hand: a target that is done with it was served; another one has
\* taken none of the posts, of which there are as many as have failed.
InHand(t) ==
  IF posts[t].at = "settled" THEN ServedTo(t, dispatched)
  ELSE /\ t \in TargetsOf(emitted[dispatched])
       /\ \A i \in PostsOf(t, dispatched) : ~ log[t][i].taken
       /\ Cardinality(PostsOf(t, dispatched)) = posts[t].failed
       /\ IF posts[t].at = "posting" THEN posts[t].failed < MaxAttempts
                                     ELSE posts[t].failed \in 1..MaxAttempts

WebhookInv ==
  /\ WebhookTypeOK
  /\ dispatched < Len(emitted) => isProcessing
  /\ isProcessing => dispatched > 0
  /\ ~ isProcessing => \A t \in Target : posts[t].at = "settled"
  /\ \A t \in Target : \A i \in DOMAIN log[t] : log[t][i].event <= dispatched
  /\ \A t \in Target : \A e \in 1..dispatched : IF e = dispatched THEN InHand(t) ELSE ServedTo(t, e)
  /\ PostsOrdered

\* Posts already made are not touched: what was served stays so.
LEMMA ServedStays ==
  ASSUME NEW t, NEW e, PostsOf(t, e)' = PostsOf(t, e),
         \A i \in PostsOf(t, e) : log'[t][i] = log[t][i], emitted'[e] = emitted[e]
  PROVE  ServedTo(t, e)' <=> ServedTo(t, e)
<1>1. Tried(t, e)' <=> Tried(t, e)
  BY DEF Tried
<1> QED BY <1>1 DEF ServedTo

\* The loop takes the next event, or ends.
LEMMA LoopGoesOn ==
  ASSUME WebhookTypeOK, NEW events \in Seq(BOOLEAN), emitted' = events,
         Len(emitted) <= Len(events), \A e \in 1..Len(emitted) : events[e] = emitted[e],
         log' = log, ProcessQueue(events),
         \A t \in Target : \A i \in DOMAIN log[t] : log[t][i].event <= dispatched,
         \A t \in Target : \A e \in 1..dispatched : ServedTo(t, e),
         \A t \in Target : posts[t].at = "settled", PostsOrdered
  PROVE  WebhookInv'
<1>1. /\ dispatched \in Nat /\ dispatched <= Len(emitted) /\ Len(emitted) \in Nat /\ Len(events) \in Nat
  BY DEF WebhookTypeOK
<1>2. \A t : \A e : PostsOf(t, e)' = PostsOf(t, e)
  BY DEF PostsOf
<1>3. ASSUME NEW t \in Target, NEW e \in 1..dispatched PROVE ServedTo(t, e)'
  <2>1. emitted'[e] = emitted[e]
    BY <1>1
  <2> QED BY <1>2, <2>1, ServedStays
<1>4. PostsOrdered'
  BY DEF PostsOrdered
<1>5. CASE dispatched < Len(events)
  <2>1. /\ isProcessing' = TRUE /\ dispatched' = dispatched + 1 /\ Dispatch(events[dispatched + 1])
    BY <1>5 DEF ProcessQueue
  <2>2. \A t \in Target :
          /\ posts'[t].failed = 0
          /\ posts'[t].at = IF t \in TargetsOf(events[dispatched + 1]) THEN "posting" ELSE "settled"
    BY <2>1 DEF Dispatch
  <2>3. posts' \in [Target -> PlaceRecord]
    BY <2>1 DEF Dispatch, PlaceRecord
  <2>4. WebhookTypeOK'
    BY <1>1, <1>5, <2>1, <2>3 DEF WebhookTypeOK
  <2>5. ASSUME NEW t \in Target PROVE InHand(t)'
    <3>1. PICK d : d = dispatched + 1 /\ d = dispatched'
      BY <2>1
    <3>2. PostsOf(t, d) = {}
      <4>1. \A i \in DOMAIN log[t] : log[t][i].event # d
        <5> TAKE i \in DOMAIN log[t]
        <5>1. log[t] \in Seq(PostRecord)
          BY DEF WebhookTypeOK
        <5>2. log[t][i] \in PostRecord
          BY <5>1
        <5>3. log[t][i].event \in Nat /\ log[t][i].event <= dispatched
          BY <5>2 DEF PostRecord
        <5> QED BY <1>1, <3>1, <5>3
      <4> QED BY <4>1 DEF PostsOf
    <3>3. PostsOf(t, d)' = {} /\ Cardinality(PostsOf(t, d)') = 0
      BY <1>2, <3>2, FS_EmptySet
    <3>4. PostsOf(t, dispatched)' = PostsOf(t, d)'
      BY <3>1 DEF PostsOf
    <3>5. CASE t \in TargetsOf(events[d])
      <4>1. posts'[t].at = "posting" /\ posts'[t].failed = 0
        BY <2>2, <3>1, <3>5
      <4>2. 0 < MaxAttempts
        BY WebhookConstants
      <4>3. t \in TargetsOf(emitted'[dispatched'])
        BY <3>1, <3>5
      <4>4. Cardinality(PostsOf(t, dispatched)') = 0 /\ \A i \in PostsOf(t, dispatched)' : FALSE
        BY <3>3, <3>4
      <4> QED BY <4>1, <4>2, <4>3, <4>4 DEF InHand, TargetsOf
    <3>6. CASE t \notin TargetsOf(events[d])
      <4>1. posts'[t].at = "settled"
        BY <2>2, <3>1, <3>6
      <4>2. t \notin TargetsOf(emitted'[dispatched'])
        BY <3>1, <3>6
      <4>3. ServedTo(t, dispatched)'
        BY <3>3, <3>4, <4>2 DEF ServedTo, TargetsOf
      <4> QED BY <4>1, <4>3 DEF InHand
    <3> QED BY <3>5, <3>6
  <2>6. \A t \in Target : \A i \in DOMAIN log'[t] : log'[t][i].event <= dispatched'
    <3>1. ASSUME NEW t \in Target, NEW i \in DOMAIN log[t] PROVE log[t][i].event \in Nat
      <4>1. log[t] \in Seq(PostRecord)
        BY DEF WebhookTypeOK
      <4>2. log[t][i] \in PostRecord
        BY <4>1
      <4> QED BY <4>2 DEF PostRecord
    <3> QED BY <1>1, <2>1, <3>1
  <2>7. ASSUME NEW t \in Target, NEW e \in 1..dispatched', e # dispatched' PROVE ServedTo(t, e)'
    BY <1>1, <1>3, <2>1, <2>7
  <2> QED BY <1>1, <1>4, <2>1, <2>4, <2>5, <2>6, <2>7 DEF WebhookInv
<1>6. CASE ~ (dispatched < Len(events))
  <2>1. isProcessing' = FALSE /\ UNCHANGED <<dispatched, posts>>
    BY <1>6 DEF ProcessQueue
  <2>2. WebhookTypeOK'
    <3>1. dispatched' = dispatched /\ dispatched \in 0..Len(events)
      BY <1>1, <2>1
    <3>2. isProcessing' \in BOOLEAN
      BY <2>1
    <3> QED BY <2>1, <3>1, <3>2 DEF WebhookTypeOK
  <2>3. \A t \in Target : dispatched > 0 => InHand(t)'
    BY <1>1, <1>3, <2>1 DEF InHand
  <2>4. \A t \in Target : \A e \in 1..dispatched' : IF e = dispatched' THEN InHand(t)' ELSE ServedTo(t, e)'
    BY <1>1, <1>3, <2>1, <2>3
  <2> QED BY <1>1, <1>4, <1>6, <2>1, <2>2, <2>4 DEF WebhookInv
<1> QED BY <1>5, <1>6

\* A post is of the event in hand, to a target that has taken none of it yet.
LEMMA PostStep ==
  ASSUME WebhookInv, NEW t \in Target, NEW taken \in BOOLEAN, PostTo(t, taken)
  PROVE  WebhookInv'
<1> DEFINE n == Len(log[t]) + 1
<1>1. PICK s \in Seq(PostRecord) : s = log[t]
  BY DEF WebhookInv, WebhookTypeOK
<1>2. PICK p \in PostRecord : /\ p = [event |-> dispatched, taken |-> taken]
                              /\ p.event = dispatched /\ (p.taken <=> taken)
  <2>1. dispatched \in Nat
    BY DEF WebhookInv, WebhookTypeOK
  <2>2. [event |-> dispatched, taken |-> taken] \in PostRecord
    BY <2>1 DEF PostRecord
  <2> QED BY <2>2
<1>3. /\ posts[t].at = "posting" /\ UNCHANGED <<emitted, dispatched, isProcessing>>
      /\ log' = [log EXCEPT ![t] = Append(s, p)]
      /\ posts' = [posts EXCEPT ![t].failed = IF taken THEN @ ELSE @ + 1,
                                ![t].at = IF taken THEN "settled" ELSE "delayed"]
  BY <1>1, <1>2 DEF PostTo, WebhookInv, WebhookTypeOK
<1>4. /\ Append(s, p) \in Seq(PostRecord) /\ Len(s) \in Nat /\ DOMAIN s = 1..Len(s)
      /\ DOMAIN Append(s, p) = 1..(Len(s) + 1) /\ Append(s, p)[Len(s) + 1] = p
      /\ \A i \in 1..Len(s) : Append(s, p)[i] = s[i]
  OBVIOUS
<1>5. /\ log'[t] = Append(s, p) /\ \A u \in Target : u # t => log'[u] = log[u]
      /\ \A i \in DOMAIN log[t] : i \in DOMAIN log'[t] /\ log'[t][i] = log[t][i]
      /\ n \in DOMAIN log'[t] /\ log'[t][n] = p /\ n \notin DOMAIN log[t]
      /\ \A i \in DOMAIN log'[t] : i \in DOMAIN log[t] \/ i = n
      /\ \A i \in DOMAIN log'[t] : i \in Nat /\ i <= n
      /\ n \in Nat
  BY <1>1, <1>3, <1>4 DEF WebhookInv, WebhookTypeOK
<1>6. PICK r \in PlaceRecord : r = posts[t]
  BY DEF WebhookInv, WebhookTypeOK
<1>7. PICK f \in Nat : f = IF taken THEN r.failed ELSE r.failed + 1
  BY <1>6 DEF PlaceRecord
<1>8. PICK a \in {"settled", "delayed"} : a = IF taken THEN "settled" ELSE "delayed"
  OBVIOUS
<1>9. /\ posts' = [posts EXCEPT ![t] = [r EXCEPT !.failed = f, !.at = a]]
  BY <1>3, <1>6, <1>7, <1>8 DEF WebhookInv, WebhookTypeOK
<1>10. /\ [r EXCEPT !.failed = f, !.at = a] \in PlaceRecord
       /\ [r EXCEPT !.failed = f, !.at = a].failed = f /\ [r EXCEPT !.failed = f, !.at = a].at = a
  BY DEF PlaceRecord
<1>11. /\ posts'[t].failed = f /\ posts'[t].at = a
       /\ \A u \in Target : u # t => posts'[u] = posts[u]
       /\ posts' \in [Target -> PlaceRecord]
  BY <1>9, <1>10 DEF WebhookInv, WebhookTypeOK
<1>12. WebhookTypeOK'
  <2>1. log' \in [Target -> Seq(PostRecord)]
    BY <1>3, <1>4 DEF WebhookInv, WebhookTypeOK
  <2> QED BY <1>3, <1>11, <2>1 DEF WebhookInv, WebhookTypeOK
<1>13. dispatched \in Nat /\ dispatched > 0 /\ isProcessing
  BY <1>3 DEF WebhookInv, WebhookTypeOK
<1> HIDE DEF n
<1>14. PostsOf(t, dispatched)' = PostsOf(t, dispatched) \cup {n} /\ n \notin PostsOf(t, dispatched)
  BY <1>2, <1>3, <1>5 DEF PostsOf
<1>15. \A e : e # dispatched => PostsOf(t, e)' = PostsOf(t, e)
  BY <1>2, <1>3, <1>5 DEF PostsOf
<1>16. \A u \in Target : \A e : u # t => PostsOf(u, e)' = PostsOf(u, e)
  BY <1>5 DEF PostsOf
<1>17. ASSUME NEW u \in Target, NEW e, ServedTo(u, e), u # t \/ e # dispatched PROVE ServedTo(u, e)'
  <2>1. PostsOf(u, e)' = PostsOf(u, e)
    BY <1>15, <1>16, <1>17
  <2>2. \A i \in PostsOf(u, e) : log'[u][i] = log[u][i]
    BY <1>5 DEF PostsOf
  <2> QED BY <1>3, <1>17, <2>1, <2>2, ServedStays
<1>18. \A u \in Target : InHand(u)
  <2>1. dispatched \in 1..dispatched
    BY <1>13
  <2> QED BY <2>1 DEF WebhookInv
<1>19. /\ t \in TargetsOf(emitted[dispatched])
       /\ \A i \in PostsOf(t, dispatched) : ~ log[t][i].taken
       /\ Cardinality(PostsOf(t, dispatched)) = r.failed /\ r.failed < MaxAttempts
  BY <1>3, <1>6, <1>18 DEF InHand
<1>20. Cardinality(PostsOf(t, dispatched)') = r.failed + 1
  <2>1. IsFiniteSet(1..Len(s))
    <3>1. 1 \in Int /\ Len(s) \in Int
      BY <1>4
    <3> QED BY ONLY <3>1, FS_Interval
  <2>2. PostsOf(t, dispatched) \subseteq 1..Len(s)
    <3>1. DOMAIN log[t] = 1..Len(s)
      BY <1>1, <1>4
    <3>2. PostsOf(t, dispatched) \subseteq DOMAIN log[t]
      BY DEF PostsOf
    <3> QED BY ONLY <3>1, <3>2
  <2>3. IsFiniteSet(PostsOf(t, dispatched))
    BY <2>1, <2>2, FS_Subset
  <2>4. Cardinality(PostsOf(t, dispatched) \cup {n}) = Cardinality(PostsOf(t, dispatched)) + 1
    BY <1>14, <2>3, FS_AddElement
  <2> QED BY <1>14, <1>19, <2>4
<1>21. InHand(t)'
  <2>1. CASE taken
    <3>1. posts'[t].at = "settled"
      BY <1>8, <1>11, <2>1
    <3>2. /\ n \in PostsOf(t, dispatched)' /\ log'[t][n].taken
          /\ \A i \in PostsOf(t, dispatched)' : log'[t][i].taken => i = n
          /\ \A i \in PostsOf(t, dispatched)' : i <= n
      BY <1>2, <1>5, <1>14, <1>19, <2>1 DEF PostsOf
    <3>3. r.failed + 1 <= MaxAttempts
      BY <1>6, <1>19, WebhookConstants DEF PlaceRecord
    <3>4. Tried(t, dispatched)'
      BY <1>3, <1>20, <3>2, <3>3 DEF Tried
    <3> QED BY <1>3, <1>19, <3>1, <3>4 DEF InHand, ServedTo
  <2>2. CASE ~ taken
    <3>1. posts'[t].at = "delayed" /\ posts'[t].failed = r.failed + 1
      BY <1>7, <1>8, <1>11, <2>2
    <3>2. \A i \in PostsOf(t, dispatched)' : ~ log'[t][i].taken
      BY <1>2, <1>5, <1>14, <1>19, <2>2 DEF PostsOf
    <3>3. r.failed + 1 \in 1..MaxAttempts
      BY <1>6, <1>19, WebhookConstants, SMTT(90) DEF PlaceRecord
    <3> QED BY <1>3, <1>19, <1>20, <3>1, <3>2, <3>3 DEF InHand
  <2> QED BY <2>1, <2>2
<1>22. ASSUME NEW u \in Target, u # t PROVE InHand(u)'
  <2>1. PICK d : d = dispatched /\ d = dispatched'
    BY <1>3
  <2>2. ServedTo(u, d) => ServedTo(u, d)'
    BY <1>17, <1>22
  <2>3. PostsOf(u, d)' = PostsOf(u, d) /\ log'[u] = log[u] /\ posts'[u] = posts[u]
    BY <1>5, <1>11, <1>16, <1>22
  <2>4. InHand(u)
    BY <1>18
  <2>5. PostsOf(u, dispatched)' = PostsOf(u, d) /\ PostsOf(u, dispatched) = PostsOf(u, d)
    BY <2>1, <2>3 DEF PostsOf
  <2>6. ServedTo(u, dispatched)' <=> ServedTo(u, d)'
    BY <2>1 DEF ServedTo, Tried, PostsOf
  <2>7. ServedTo(u, dispatched) <=> ServedTo(u, d)
    BY <2>1
  <2>8. CASE posts[u].at = "settled"
    <3>1. ServedTo(u, dispatched)'
      BY <2>2, <2>4, <2>6, <2>7, <2>8 DEF InHand
    <3> QED BY <2>3, <2>8, <3>1 DEF InHand
  <2>9. CASE posts[u].at # "settled"
    <3>1. /\ u \in TargetsOf(emitted[d])
          /\ \A i \in PostsOf(u, d) : ~ log[u][i].taken
          /\ Cardinality(PostsOf(u, d)) = posts[u].failed
          /\ IF posts[u].at = "posting" THEN posts[u].failed < MaxAttempts
                                        ELSE posts[u].failed \in 1..MaxAttempts
      BY <2>1, <2>4, <2>9 DEF InHand
    <3>2. u \in TargetsOf(emitted[dispatched])'
      BY <1>3, <2>1, <3>1 DEF TargetsOf
    <3> QED BY <2>3, <2>5, <2>9, <3>1, <3>2 DEF InHand, TargetsOf
  <2> QED BY <2>8, <2>9
<1>23. PostsOrdered'
  <2>1. ASSUME NEW i \in DOMAIN log'[t], NEW j \in DOMAIN log'[t], i <= j
        PROVE  log'[t][i].event <= log'[t][j].event
    <3>1. CASE j = n
      BY <1>2, <1>5, <1>13, <2>1, <3>1, SMTT(90) DEF WebhookInv
    <3>2. CASE j # n
      <4>1. i # n /\ j \in DOMAIN log[t]
        BY <1>1, <1>4, <1>5, <2>1, <3>2 DEF n
      <4> QED BY <1>5, <2>1, <4>1, SMTT(90) DEF WebhookInv, PostsOrdered
    <3> QED BY <3>1, <3>2
  <2>2. ASSUME NEW u \in Target, u # t, NEW i \in DOMAIN log'[u], NEW j \in DOMAIN log'[u], i <= j
        PROVE  log'[u][i].event <= log'[u][j].event
    <3>1. log'[u] = log[u]
      BY <1>5, <2>2
    <3> QED BY <2>2, <3>1 DEF WebhookInv, PostsOrdered
  <2>3. ASSUME NEW u \in Target, NEW i \in DOMAIN log'[u], NEW j \in DOMAIN log'[u], i <= j
        PROVE  log'[u][i].event <= log'[u][j].event
    <3>1. CASE u = t
      <4>1. i \in DOMAIN log'[t] /\ j \in DOMAIN log'[t]
        BY <2>3, <3>1
      <4> QED BY ONLY <2>1, <2>3, <3>1, <4>1
    <3>2. CASE u # t
      BY ONLY <2>2, <2>3, <3>2
    <3> QED BY ONLY <3>1, <3>2
  <2> QED BY ONLY <2>3 DEF PostsOrdered
<1>24. \A u \in Target : \A i \in DOMAIN log'[u] : log'[u][i].event <= dispatched'
  BY <1>2, <1>3, <1>5, <1>13 DEF WebhookInv
<1>25. \A u \in Target : \A e \in 1..dispatched' : IF e = dispatched' THEN InHand(u)' ELSE ServedTo(u, e)'
  BY <1>3, <1>17, <1>21, <1>22 DEF WebhookInv
<1> QED BY <1>3, <1>12, <1>13, <1>23, <1>24, <1>25 DEF WebhookInv

(* Every violation handed to the webhook is sent to each of its targets until *)
(* that one took it or has failed on it as often as allowed, in the order of  *)
(* the queue (SLOViolationWebhook.ts:78-136, 228-244), for any targets,       *)
(* emissions and number of attempts.                                          *)
THEOREM EventsServed == WebhookSpec => []EveryEventServed
<1>1. WebhookInit => WebhookInv
  <2> SUFFICES ASSUME WebhookInit PROVE WebhookInv
    OBVIOUS
  <2>1. WebhookTypeOK
    <3>1. [failed |-> 0, at |-> "settled"] \in PlaceRecord
      BY DEF PlaceRecord
    <3>2. posts \in [Target -> PlaceRecord] /\ log \in [Target -> Seq(PostRecord)]
      BY <3>1 DEF WebhookInit, NothingToPost
    <3>3. emitted \in Seq(BOOLEAN)
      BY DEF WebhookInit
    <3>5. isProcessing \in BOOLEAN
      BY DEF WebhookInit
    <3>4. dispatched \in 0..Len(emitted)
      BY DEF WebhookInit
    <3> QED BY <3>2, <3>3, <3>4, <3>5 DEF WebhookTypeOK
  <2> QED BY <2>1 DEF WebhookInit, WebhookInv, NothingToPost, PostsOrdered
<1>2. WebhookInv /\ [WebhookNext]_webhookVars => WebhookInv'
  <2> SUFFICES ASSUME WebhookInv, [WebhookNext]_webhookVars PROVE WebhookInv'
    OBVIOUS
  <2>1. CASE UNCHANGED webhookVars
    <3>1. UNCHANGED <<emitted, dispatched, isProcessing, posts, log>>
      BY <2>1 DEF webhookVars
    <3>2. WebhookTypeOK' /\ PostsOrdered'
      BY <3>1 DEF WebhookInv, WebhookTypeOK, PostsOrdered
    <3>3. \A t, e : (ServedTo(t, e)' <=> ServedTo(t, e)) /\ (InHand(t)' <=> InHand(t))
      BY <3>1 DEF ServedTo, InHand, Tried, PostsOf
    <3> QED BY <3>1, <3>2, <3>3 DEF WebhookInv
  <2>2. ASSUME NEW events \in Emission, Emit(events) PROVE WebhookInv'
    <3>1. events \in Seq(BOOLEAN) /\ events # <<>>
      BY WebhookConstants
    <3>2. PICK all \in Seq(BOOLEAN) : all = emitted \o events
      BY <3>1, ConcatProperties DEF WebhookInv, WebhookTypeOK
    <3>3. /\ Len(all) \in Nat /\ Len(emitted) \in Nat /\ Len(emitted) < Len(all)
          /\ \A e \in 1..Len(emitted) : all[e] = emitted[e]
      BY <3>1, <3>2 DEF WebhookInv, WebhookTypeOK
    <3>4. emitted' = all /\ log' = log
      BY <2>2, <3>2 DEF Emit
    <3>5. CASE isProcessing
      <4>1. UNCHANGED <<isProcessing, dispatched, posts>>
        BY <2>2, <3>5 DEF Emit
      <4>2. \A t, e : PostsOf(t, e)' = PostsOf(t, e)
        BY <3>4 DEF PostsOf
      <4>3. \A e \in 1..dispatched : emitted'[e] = emitted[e]
        BY <3>3, <3>4 DEF WebhookInv, WebhookTypeOK
      <4>4. \A t \in Target : \A e \in 1..dispatched : ServedTo(t, e)' <=> ServedTo(t, e)
        BY <3>4, <4>2, <4>3, ServedStays
      <4>5. dispatched \in 1..dispatched
        BY <3>5 DEF WebhookInv, WebhookTypeOK
      <4>6. \A t \in Target : InHand(t)' <=> InHand(t)
        <5> TAKE t \in Target
        <5>1. PICK d \in 1..dispatched : d = dispatched /\ d = dispatched'
          BY <4>1, <4>5
        <5>2. (ServedTo(t, d)' <=> ServedTo(t, d)) /\ PostsOf(t, d)' = PostsOf(t, d) /\ emitted'[d] = emitted[d]
          BY <4>2, <4>3, <4>4
        <5>3. ServedTo(t, dispatched)' <=> ServedTo(t, d)'
          BY <5>1 DEF ServedTo, Tried, PostsOf
        <5>4. PostsOf(t, dispatched)' = PostsOf(t, d)'
          BY <5>1 DEF PostsOf
        <5> QED BY <3>4, <4>1, <5>1, <5>2, <5>3, <5>4 DEF InHand
      <4>7. WebhookTypeOK'
        BY <3>3, <3>4, <4>1 DEF WebhookInv, WebhookTypeOK
      <4> QED BY <3>4, <3>5, <4>1, <4>4, <4>6, <4>7 DEF WebhookInv, PostsOrdered
    <3>6. CASE ~ isProcessing
      <4>1. ProcessQueue(all)
        BY <2>2, <3>4, <3>6 DEF Emit
      <4>2. \A t \in Target : posts[t].at = "settled"
        BY <3>6 DEF WebhookInv
      <4>3. \A t \in Target : \A e \in 1..dispatched : ServedTo(t, e)
        BY <4>2 DEF WebhookInv, InHand
      <4> QED BY <3>3, <3>4, <4>1, <4>2, <4>3, LoopGoesOn, SMTT(90) DEF WebhookInv
    <3> QED BY <3>5, <3>6
  <2>3. ASSUME NEW t \in Target, NEW taken \in BOOLEAN, PostTo(t, taken) PROVE WebhookInv'
    BY <2>3, PostStep
  <2>4. ASSUME NEW t \in Target, PostAgain(t) PROVE WebhookInv'
    <3>1. PICK r \in PlaceRecord : r = posts[t]
      BY DEF WebhookInv, WebhookTypeOK
    <3>2. PICK a \in {"posting", "settled"} : a = IF r.failed < MaxAttempts THEN "posting" ELSE "settled"
      OBVIOUS
    <3>3. /\ r.at = "delayed" /\ UNCHANGED <<emitted, dispatched, isProcessing, log>>
          /\ posts' = [posts EXCEPT ![t] = [r EXCEPT !.at = a]]
      BY <2>4, <3>1, <3>2 DEF PostAgain, WebhookInv, WebhookTypeOK
    <3>4. [r EXCEPT !.at = a] \in PlaceRecord /\ [r EXCEPT !.at = a].at = a
          /\ [r EXCEPT !.at = a].failed = r.failed
      BY DEF PlaceRecord
    <3>5. /\ posts'[t].at = a /\ posts'[t].failed = r.failed /\ \A u \in Target : u # t => posts'[u] = posts[u]
          /\ posts' \in [Target -> PlaceRecord]
      BY <3>3, <3>4 DEF WebhookInv, WebhookTypeOK
    <3>6. \A u, e : PostsOf(u, e)' = PostsOf(u, e) /\ (ServedTo(u, e)' <=> ServedTo(u, e))
      BY <3>3 DEF PostsOf, ServedTo, Tried
    <3>7. isProcessing /\ dispatched \in 1..dispatched
      BY <3>1, <3>3 DEF WebhookInv, WebhookTypeOK
    <3>8. \A u \in Target : InHand(u)
      BY <3>7 DEF WebhookInv
    <3>9. \A u \in Target : u # t => InHand(u)'
      BY <3>3, <3>5, <3>6, <3>8 DEF InHand
    <3>10. InHand(t)'
      <4>1. /\ t \in TargetsOf(emitted[dispatched])
            /\ \A i \in PostsOf(t, dispatched) : ~ log[t][i].taken
            /\ Cardinality(PostsOf(t, dispatched)) = r.failed /\ r.failed \in 1..MaxAttempts
        BY <3>1, <3>3, <3>8 DEF InHand
      <4>2. CASE r.failed < MaxAttempts
        BY <3>2, <3>3, <3>5, <3>6, <4>1, <4>2 DEF InHand
      <4>3. CASE ~ (r.failed < MaxAttempts)
        <5>1. r.failed = MaxAttempts /\ r.failed # 0
          BY <4>1, <4>3, WebhookConstants
        <5>2. PostsOf(t, dispatched) # {}
          BY <4>1, <5>1, FS_EmptySet
        <5>3. ServedTo(t, dispatched)
          BY <4>1, <5>1, <5>2, WebhookConstants DEF ServedTo, Tried
        <5> QED BY <3>2, <3>3, <3>5, <3>6, <4>3, <5>3 DEF InHand
      <4> QED BY <4>2, <4>3
    <3>11. WebhookTypeOK'
      BY <3>3, <3>5 DEF WebhookInv, WebhookTypeOK
    <3> QED BY <3>3, <3>6, <3>7, <3>9, <3>10, <3>11 DEF WebhookInv, PostsOrdered
  <2>5. CASE Settled
    <3>1. isProcessing /\ (\A t \in Target : posts[t].at = "settled") /\ ProcessQueue(emitted)
          /\ UNCHANGED <<emitted, log>>
      BY <2>5 DEF Settled
    <3>2. \A t \in Target : \A e \in 1..dispatched : ServedTo(t, e)
      BY <3>1 DEF WebhookInv, InHand
    <3>3. emitted \in Seq(BOOLEAN) /\ Len(emitted) <= Len(emitted)
      BY DEF WebhookInv, WebhookTypeOK
    <3> QED BY <3>1, <3>2, <3>3, LoopGoesOn DEF WebhookInv
  <2> QED BY <2>1, <2>2, <2>3, <2>4, <2>5 DEF WebhookNext
<1>3. WebhookInv => EveryEventServed
  <2> SUFFICES ASSUME WebhookInv, NEW e \in 1..Len(emitted), NEW t \in Target,
                      e < dispatched \/ (e = dispatched /\ ~ isProcessing)
               PROVE  ServedTo(t, e)
    BY DEF WebhookInv, EveryEventServed, ServedTo, PostsOrdered
  <2>1. e \in 1..dispatched
    BY DEF WebhookInv, WebhookTypeOK
  <2> QED BY <2>1 DEF WebhookInv, InHand
<1> QED BY <1>1, <1>2, <1>3, PTL DEF WebhookSpec

-----------------------------------------------------------------------------
(* The browser, for any visits, retries and cleanups.                      *)

Page == [browser : Nat, owner : Visit, number : Nat]
OnTheWay == {"open", "fetch", "launch", "page", "goto", "use", "close"}

BrowserTypeOK ==
  /\ visit \in [Visit -> [at : OnTheWay \cup {"new", "done"}, tries : Nat]]
  /\ attempts \in Nat /\ successes \in Nat /\ cleanups \in Nat /\ raced \in BOOLEAN
  /\ dlq \subseteq Visit /\ cleared \subseteq Visit
  /\ browser \in Nat /\ closing \in [1..MaxCleanups -> Nat] /\ launched \in Nat
  /\ open \subseteq Page

Begun == {v \in Visit : visit[v].at # "new"}
UnderWay == {v \in Visit : visit[v].at \notin {"new", "done"}}
Listed == dlq \cup cleared

\* Finitely many visits have begun; those on the list, or cleared from it, are over.
VisitsCounted ==
  /\ IsFiniteSet(Begun) /\ attempts = Cardinality(Begun)
  /\ attempts = successes + Cardinality(Listed) + Cardinality(UnderWay)
  /\ dlq \cap cleared = {}
  /\ \A v \in Listed : visit[v].at = "done"

\* At most one cleanup waits, and it does for this.browser.
OneWaits == \A j, k \in 1..MaxCleanups : ClosingNow(j) => closing[j] = browser /\ (ClosingNow(k) => j = k)

\* Open pages are of browsers that run; without a race the only one is this.browser.
BrowsersKnown ==
  /\ alive \subseteq 1..launched
  /\ \A p \in open : p.browser \in alive
  /\ ~ raced => alive \subseteq {browser} /\ OneWaits
  /\ \A k \in 1..MaxCleanups : ClosingNow(k) => cleanups > 0

\* An open page without a cause to be left behind is the one its visit will close.
InUse(p) == /\ p.owner \in DOMAIN pages /\ pages[p.owner] = p
            /\ visit[p.owner].at \in {"goto", "use", "close"}

PagesKnown == \A p \in open : p.owner \in tainted \/ (raced /\ cleanups > 0) \/ InUse(p)

BrowserInv == BrowserTypeOK /\ VisitsCounted /\ BrowsersKnown /\ PagesKnown

\* A step of one visit, of which the others are no part.
VisitGoes(v, from, to) ==
  /\ visit' \in [Visit -> [at : OnTheWay \cup {"new", "done"}, tries : Nat]]
  /\ visit[v].at \in from /\ visit'[v].at \in to
  /\ \A w \in Visit : w # v => visit'[w] = visit[w]

\* Where a visit goes is all that Go and RecordAttempt change of it.
LEMMA Going ==
  ASSUME BrowserTypeOK, NEW v \in Visit, NEW step \in OnTheWay \cup {"done"},
         Go(v, step) \/ RecordAttempt(v, step)
  PROVE  VisitGoes(v, {visit[v].at}, {step})
<1>1. PICK r \in [at : OnTheWay \cup {"new", "done"}, tries : Nat] : r = visit[v]
  BY DEF BrowserTypeOK
<1>2. PICK n \in Nat : visit' = [visit EXCEPT ![v] = [at |-> step, tries |-> n]]
  <2>1. CASE Go(v, step)
    <3>1. PICK n \in Nat : n = IF step = "goto" THEN r.tries ELSE 0
      BY <1>1
    <3>2. visit' = [visit EXCEPT ![v] = [at |-> step, tries |-> n]]
      BY <1>1, <2>1, <3>1 DEF Go, BrowserTypeOK
    <3> QED BY <3>2
  <2>2. CASE RecordAttempt(v, step)
    <3>1. PICK n \in Nat : n = r.tries + 1
      BY <1>1
    <3>2. visit' = [visit EXCEPT ![v] = [at |-> step, tries |-> n]]
      BY <1>1, <2>2, <3>1 DEF RecordAttempt, BrowserTypeOK
    <3> QED BY <3>2
  <2> QED BY <2>1, <2>2
<1>3. [at |-> step, tries |-> n] \in [at : OnTheWay \cup {"new", "done"}, tries : Nat]
  OBVIOUS
<1> QED BY <1>2, <1>3 DEF VisitGoes, BrowserTypeOK

\* A visit that only goes from one way to the next is counted as before.
LEMMA CountedOnTheWay ==
  ASSUME BrowserTypeOK, VisitsCounted, NEW v \in Visit, VisitGoes(v, OnTheWay, OnTheWay), UNCHANGED routed
  PROVE  VisitsCounted'
<1>1. Begun' = Begun /\ UnderWay' = UnderWay
  BY DEF VisitGoes, Begun, UnderWay, OnTheWay
<1>2. Listed' = Listed /\ UNCHANGED <<attempts, successes, dlq, cleared>>
  BY DEF Listed, routed
<1>3. \A w \in Listed : visit'[w].at = "done"
  BY DEF VisitsCounted, BrowserTypeOK, Listed, VisitGoes, OnTheWay
<1> QED BY <1>1, <1>2, <1>3 DEF VisitsCounted

\* A visit ends as one success more, or as one entry of the list more.
LEMMA CountedAtTheEnd ==
  ASSUME BrowserTypeOK, VisitsCounted, NEW v \in Visit, VisitGoes(v, OnTheWay, {"done"}),
         UNCHANGED <<attempts, cleared>>,
         \/ successes' = successes + 1 /\ dlq' = dlq
         \/ successes' = successes /\ dlq' = dlq \cup {v}
  PROVE  VisitsCounted'
<1>1. Begun' = Begun /\ v \in UnderWay /\ UnderWay' = UnderWay \ {v} /\ v \notin Listed
  BY DEF VisitGoes, Begun, UnderWay, OnTheWay, VisitsCounted
<1>2. /\ IsFiniteSet(UnderWay) /\ IsFiniteSet(Listed)
  <2>1. UnderWay \subseteq Begun /\ Listed \subseteq Begun
    BY DEF UnderWay, Begun, VisitsCounted, BrowserTypeOK, Listed
  <2> QED BY <2>1, FS_Subset DEF VisitsCounted
<1>3. /\ Cardinality(UnderWay \ {v}) = Cardinality(UnderWay) - 1
      /\ Cardinality(Listed \cup {v}) = Cardinality(Listed) + 1
      /\ Cardinality(UnderWay) \in Nat /\ Cardinality(Listed) \in Nat
  BY <1>1, <1>2, FS_RemoveElement, FS_AddElement, FS_CardinalityType
<1>4. \A w \in Listed \cup {v} : visit'[w].at = "done"
  BY DEF VisitsCounted, BrowserTypeOK, Listed, VisitGoes
<1>5. CASE successes' = successes + 1 /\ dlq' = dlq
  <2>1. Listed' = Listed
    BY <1>5 DEF Listed
  <2>2. attempts = successes + 1 + Cardinality(Listed) + (Cardinality(UnderWay) - 1)
    BY <1>3 DEF VisitsCounted, BrowserTypeOK
  <2> QED BY <1>1, <1>3, <1>4, <1>5, <2>1, <2>2 DEF VisitsCounted
<1>6. CASE successes' = successes /\ dlq' = dlq \cup {v}
  <2>1. Listed' = Listed \cup {v}
    BY <1>6 DEF Listed
  <2>2. attempts = successes + (Cardinality(Listed) + 1) + (Cardinality(UnderWay) - 1)
    BY <1>3 DEF VisitsCounted, BrowserTypeOK
  <2>3. (dlq \cup {v}) \cap cleared = {}
    BY <1>1 DEF VisitsCounted, Listed
  <2> QED BY <1>1, <1>3, <1>4, <1>6, <2>1, <2>2, <2>3 DEF VisitsCounted
<1> QED BY <1>5, <1>6

RoutedTypeOK == attempts \in Nat /\ successes \in Nat /\ dlq \subseteq Visit /\ cleared \subseteq Visit

\* A visit that is served, or goes to the way it has not tried, or to the list.
LEMMA Routing ==
  ASSUME BrowserTypeOK, VisitsCounted, NEW v \in Visit, visit[v].at \in OnTheWay,
         NEW other \in {"open", "fetch", "dlq"}, Serve(v) \/ FallBack(v, other)
  PROVE  /\ VisitGoes(v, {visit[v].at}, {"open", "fetch", "done"})
         /\ VisitsCounted' /\ RoutedTypeOK'
<1>1. CASE Serve(v)
  <2>1. Go(v, "done") /\ successes' = successes + 1 /\ UNCHANGED <<attempts, dlq, cleared>>
    BY <1>1 DEF Serve
  <2>2. VisitGoes(v, {visit[v].at}, {"done"})
    BY <2>1, Going DEF OnTheWay
  <2>3. VisitGoes(v, OnTheWay, {"done"})
    BY <2>2 DEF VisitGoes
  <2>4. VisitsCounted'
    BY <2>1, <2>3, CountedAtTheEnd
  <2> QED BY <2>1, <2>2, <2>4 DEF VisitGoes, RoutedTypeOK, BrowserTypeOK
<1>2. CASE other # "dlq" /\ Go(v, other) /\ UNCHANGED routed
  <2>1. other \in {"open", "fetch"}
    BY <1>2
  <2>2. VisitGoes(v, {visit[v].at}, {other})
    BY <1>2, <2>1, Going DEF OnTheWay
  <2>3. VisitGoes(v, OnTheWay, OnTheWay)
    BY <2>1, <2>2 DEF VisitGoes, OnTheWay
  <2>4. VisitsCounted'
    BY <1>2, <2>3, CountedOnTheWay
  <2> QED BY <1>2, <2>1, <2>2, <2>4 DEF VisitGoes, RoutedTypeOK, BrowserTypeOK, routed
<1>3. CASE /\ other = "dlq" /\ Go(v, "done")
           /\ dlq' = dlq \cup {v} /\ UNCHANGED <<attempts, successes, cleared>>
  <2>2. VisitGoes(v, {visit[v].at}, {"done"})
    BY <1>3, Going DEF OnTheWay
  <2>3. VisitGoes(v, OnTheWay, {"done"})
    BY <2>2 DEF VisitGoes
  <2>4. VisitsCounted'
    BY <1>3, <2>3, CountedAtTheEnd
  <2> QED BY <1>3, <2>2, <2>4 DEF VisitGoes, RoutedTypeOK, BrowserTypeOK
<1> QED BY <1>1, <1>2, <1>3 DEF FallBack

\* The way that a visit has not tried is the one its vertical asks for last.
LEMMA RoutingFromBrowser ==
  ASSUME BrowserTypeOK, VisitsCounted, NEW v \in Visit, visit[v].at \in OnTheWay, BrowserFails(v)
  PROVE  /\ VisitGoes(v, {visit[v].at}, {"open", "fetch", "done"})
         /\ VisitsCounted' /\ RoutedTypeOK'
<1>1. PICK other \in {"open", "fetch", "dlq"} : other = IF BrowserFirst(v) THEN "fetch" ELSE "dlq"
  OBVIOUS
<1>2. FallBack(v, other)
  BY <1>1 DEF BrowserFails
<1> QED BY <1>2, Routing

\* Pages nobody opens or closes stay known while a visit that does not hold them moves.
LEMMA PagesStay ==
  ASSUME BrowserTypeOK, PagesKnown, NEW v \in Visit,
         \A w \in Visit : w # v => visit'[w] = visit[w],
         UNCHANGED <<open, pages, cleanups>>, tainted \subseteq tainted', raced => raced',
         \/ v \in tainted'
         \/ visit[v].at \notin {"goto", "use", "close"}
         \/ visit'[v].at \in {"goto", "use", "close"}
  PROVE  PagesKnown'
<1> SUFFICES ASSUME NEW p \in open, p.owner \notin tainted', ~ (raced' /\ cleanups > 0)
             PROVE  InUse(p)'
  BY DEF PagesKnown
<1>1. InUse(p) /\ p.owner \in Visit
  BY DEF PagesKnown, BrowserTypeOK, Page
<1>2. p.owner = v => visit'[v].at \in {"goto", "use", "close"}
  BY <1>1 DEF InUse
<1> QED BY <1>1, <1>2 DEF InUse

\* The browsers are what they were when no action of the adapter touches them.
LEMMA BrowsersStay ==
  ASSUME BrowsersKnown, UNCHANGED <<browsers, open>> PROVE BrowsersKnown'
BY DEF BrowsersKnown, OneWaits, ClosingNow, browsers

\* A visit that is counted comes from new to the way its vertical prefers.
LEMMA IngestStep ==
  ASSUME BrowserInv, NEW v \in Visit, Ingest(v) PROVE BrowserInv'
<1>1. PICK step \in {"open", "fetch"} : step = IF BrowserFirst(v) THEN "open" ELSE "fetch"
  OBVIOUS
<1>2. /\ visit[v].at = "new" /\ Go(v, step) /\ attempts' = attempts + 1
      /\ UNCHANGED <<successes, dlq, cleared, browsers, pages, open, tainted>>
  BY <1>1 DEF Ingest, At
<1>3. VisitGoes(v, {"new"}, {"open", "fetch"})
  <2>1. VisitGoes(v, {visit[v].at}, {step})
    BY <1>2, Going DEF BrowserInv, OnTheWay
  <2> QED BY <1>2, <2>1 DEF VisitGoes
<1>4. BrowserTypeOK'
  BY <1>2, <1>3 DEF BrowserInv, BrowserTypeOK, VisitGoes, browsers
<1>5. VisitsCounted'
  <2>1. /\ v \notin Begun /\ v \notin UnderWay /\ Begun' = Begun \cup {v} /\ UnderWay' = UnderWay \cup {v}
        /\ UnderWay \subseteq Begun
    BY <1>3 DEF Begun, UnderWay, VisitGoes
  <2>2. IsFiniteSet(Begun) /\ IsFiniteSet(UnderWay) /\ Listed \subseteq Begun /\ IsFiniteSet(Listed)
    <3>1. Listed \subseteq Begun
      BY DEF BrowserInv, VisitsCounted, BrowserTypeOK, Listed, Begun
    <3> QED BY <2>1, <3>1, FS_Subset DEF BrowserInv, VisitsCounted
  <2>3. /\ IsFiniteSet(Begun \cup {v}) /\ Cardinality(Begun \cup {v}) = Cardinality(Begun) + 1
        /\ Cardinality(UnderWay \cup {v}) = Cardinality(UnderWay) + 1
        /\ Cardinality(UnderWay) \in Nat /\ Cardinality(Listed) \in Nat
    BY <2>1, <2>2, FS_AddElement, FS_CardinalityType, SMTT(90)
  <2>4. Listed' = Listed
    BY <1>2 DEF Listed
  <2>5. \A w \in Listed : visit'[w].at = "done"
    BY <1>3 DEF BrowserInv, VisitsCounted, BrowserTypeOK, Listed, VisitGoes
  <2>6. attempts + 1 = successes + Cardinality(Listed) + (Cardinality(UnderWay) + 1)
    BY <2>3 DEF BrowserInv, VisitsCounted, BrowserTypeOK
  <2> QED BY <1>2, <2>1, <2>3, <2>4, <2>5, <2>6 DEF BrowserInv, VisitsCounted
<1>6. BrowsersKnown'
  BY <1>2, BrowsersStay DEF BrowserInv
<1>7. PagesKnown'
  BY <1>2, <1>3, PagesStay DEF BrowserInv, VisitGoes, browsers
<1> QED BY <1>4, <1>5, <1>6, <1>7 DEF BrowserInv

\* A step of the sweeper or the adapter that only takes one visit on.
LEMMA VisitStep ==
  ASSUME BrowserInv, NEW v \in Visit, VisitGoes(v, {visit[v].at}, OnTheWay \cup {"done"}),
         VisitsCounted', RoutedTypeOK', UNCHANGED <<browsers, pages, open>>, tainted \subseteq tainted',
         \/ v \in tainted'
         \/ visit[v].at \notin {"goto", "use", "close"}
         \/ visit'[v].at \in {"goto", "use", "close"}
  PROVE  BrowserInv'
<1>1. BrowserTypeOK'
  BY DEF BrowserInv, BrowserTypeOK, VisitGoes, RoutedTypeOK, browsers
<1>2. BrowsersKnown'
  BY BrowsersStay DEF BrowserInv
<1>3. PagesKnown'
  BY PagesStay DEF BrowserInv, VisitGoes, browsers
<1> QED BY <1>1, <1>2, <1>3 DEF BrowserInv

\* The plain fetch serves the visit or hands it on.
LEMMA FetchStep ==
  ASSUME BrowserInv, NEW v \in Visit, FetchHTML(v) PROVE BrowserInv'
<1>1. PICK other \in {"open", "fetch", "dlq"} : other = IF BrowserFirst(v) THEN "dlq" ELSE "open"
  OBVIOUS
<1>2. /\ visit[v].at = "fetch" /\ (Serve(v) \/ FallBack(v, other))
      /\ UNCHANGED <<browsers, pages, open, tainted>>
  BY <1>1 DEF FetchHTML, At
<1>3. /\ VisitGoes(v, {visit[v].at}, {"open", "fetch", "done"})
      /\ VisitsCounted' /\ RoutedTypeOK'
  BY <1>2, Routing DEF BrowserInv, OnTheWay
<1>4. VisitGoes(v, {visit[v].at}, OnTheWay \cup {"done"})
  BY <1>3 DEF VisitGoes, OnTheWay
<1> QED BY <1>2, <1>3, <1>4, VisitStep

\* A step on the way that counts nothing.
LEMMA WayStep ==
  ASSUME BrowserTypeOK, VisitsCounted, NEW v \in Visit, NEW step \in OnTheWay,
         visit[v].at \in OnTheWay, Go(v, step) \/ RecordAttempt(v, step), UNCHANGED routed
  PROVE  /\ VisitGoes(v, {visit[v].at}, {step}) /\ VisitsCounted' /\ RoutedTypeOK'
<1>1. VisitGoes(v, {visit[v].at}, {step})
  BY Going
<1>2. VisitGoes(v, OnTheWay, OnTheWay)
  BY <1>1 DEF VisitGoes
<1> QED BY <1>1, <1>2, CountedOnTheWay DEF RoutedTypeOK, BrowserTypeOK, routed

\* A second first use while a launch is under way is a race.
LEMMA OpenStep ==
  ASSUME BrowserInv, NEW v \in Visit, Open(v) PROVE BrowserInv'
<1>1. PICK step \in {"launch", "page"} : step = IF browser = None THEN "launch" ELSE "page"
  OBVIOUS
<1>2. PICK r \in BOOLEAN : r <=> (raced \/ (browser = None /\ \E w \in Visit : At(w, "launch")))
  OBVIOUS
<1>3. /\ visit[v].at = "open" /\ Go(v, step) /\ (raced' <=> r) /\ raced' \in BOOLEAN
      /\ UNCHANGED <<routed, browser, alive, launched, closing, pages, open, tainted, cleanups>>
  BY <1>1, <1>2 DEF Open, At
<1>4. raced => raced'
  BY <1>2, <1>3
<1>5. VisitGoes(v, {visit[v].at}, {step}) /\ VisitsCounted' /\ RoutedTypeOK'
  BY <1>1, <1>3, WayStep DEF BrowserInv, OnTheWay
<1>6. BrowserTypeOK'
  BY <1>3, <1>5 DEF BrowserInv, BrowserTypeOK, VisitGoes, RoutedTypeOK
<1>7. BrowsersKnown'
  BY <1>3, <1>4 DEF BrowserInv, BrowsersKnown, OneWaits, ClosingNow
<1>8. PagesKnown'
  BY <1>3, <1>4, <1>5, PagesStay DEF BrowserInv, VisitGoes
<1> QED BY <1>5, <1>6, <1>7, <1>8 DEF BrowserInv

\* A launch that ends over another one is a race; otherwise no browser runs yet.
LEMMA LaunchedStep ==
  ASSUME BrowserInv, NEW v \in Visit, Launched(v) PROVE BrowserInv'
<1>1. visit[v].at = "launch" /\ UNCHANGED <<closing, pages, open, tainted, cleanups>>
  BY DEF Launched, At
<1>2. CASE /\ launched' = launched + 1 /\ browser' = launched' /\ alive' = alive \cup {launched'}
           /\ raced' = (raced \/ browser # None) /\ Go(v, "page") /\ UNCHANGED routed
  <2>1. VisitGoes(v, {visit[v].at}, {"page"}) /\ VisitsCounted' /\ RoutedTypeOK'
    BY <1>1, <1>2, WayStep DEF BrowserInv, OnTheWay
  <2>2. (raced => raced') /\ (~ raced' => ~ raced /\ browser = None)
    BY <1>2
  <2>3. BrowserTypeOK'
    <3>1. browser' \in Nat /\ launched' \in Nat
      BY <1>2 DEF BrowserInv, BrowserTypeOK
    <3>2. raced' \in BOOLEAN
      BY <1>2
    <3> QED BY <1>1, <2>1, <3>1, <3>2 DEF BrowserInv, BrowserTypeOK, VisitGoes, RoutedTypeOK
  <2>4. BrowsersKnown'
    <3>1. alive' \subseteq 1..launched'
      BY <1>2 DEF BrowserInv, BrowserTypeOK, BrowsersKnown
    <3>2. \A p \in open : p.browser \in alive'
      BY <1>2 DEF BrowserInv, BrowsersKnown
    <3>3. ~ raced' => alive = {} /\ \A k \in 1..MaxCleanups : ~ ClosingNow(k)
      <4>1. ~ raced' => alive \subseteq {None} /\ OneWaits /\ browser = None
        BY <2>2 DEF BrowserInv, BrowsersKnown
      <4>2. None \notin alive
        BY DEF BrowserInv, BrowsersKnown, None
      <4> QED BY <4>1, <4>2 DEF OneWaits, ClosingNow
    <3>4. ~ raced' => alive' \subseteq {browser'} /\ OneWaits'
      BY <1>1, <1>2, <3>3 DEF OneWaits, ClosingNow
    <3>5. \A k \in 1..MaxCleanups : ClosingNow(k)' => cleanups' > 0
      BY <1>1 DEF BrowserInv, BrowsersKnown, ClosingNow
    <3> QED BY <1>1, <3>1, <3>2, <3>4, <3>5 DEF BrowsersKnown
  <2>5. PagesKnown'
    BY <1>1, <2>1, <2>2, PagesStay DEF BrowserInv, VisitGoes
  <2> QED BY <2>1, <2>3, <2>4, <2>5 DEF BrowserInv
<1>3. CASE BrowserFails(v) /\ UNCHANGED <<browser, alive, launched, raced>>
  <2>1. /\ VisitGoes(v, {visit[v].at}, {"open", "fetch", "done"})
        /\ VisitsCounted' /\ RoutedTypeOK'
    BY <1>1, <1>3, RoutingFromBrowser DEF BrowserInv, OnTheWay
  <2>2. VisitGoes(v, {visit[v].at}, OnTheWay \cup {"done"})
    BY <2>1 DEF VisitGoes, OnTheWay
  <2> QED BY <1>1, <1>3, <2>1, <2>2, VisitStep DEF browsers
<1> QED BY <1>1, <1>2, <1>3 DEF Launched

\* A failed open is tried again, or leaves the page it may have.
LEMMA OpenFailsStep ==
  ASSUME BrowserInv, NEW v \in Visit, visit[v].at \in {"page", "goto"}, OpenFails(v),
         UNCHANGED <<browsers, pages, open>>
  PROVE  BrowserInv'
<1>1. v \in tainted' /\ tainted \subseteq tainted'
  BY DEF OpenFails
<1>2. CASE RecordAttempt(v, "page") /\ UNCHANGED routed
  <2>1. VisitGoes(v, {visit[v].at}, {"page"}) /\ VisitsCounted' /\ RoutedTypeOK'
    BY <1>2, WayStep DEF BrowserInv, OnTheWay
  <2>2. VisitGoes(v, {visit[v].at}, OnTheWay \cup {"done"})
    BY <2>1 DEF VisitGoes, OnTheWay
  <2> QED BY <1>1, <2>1, <2>2, VisitStep
<1>3. CASE BrowserFails(v)
  <2>1. /\ VisitGoes(v, {visit[v].at}, {"open", "fetch", "done"})
        /\ VisitsCounted' /\ RoutedTypeOK'
    BY <1>3, RoutingFromBrowser DEF BrowserInv, OnTheWay
  <2>2. VisitGoes(v, {visit[v].at}, OnTheWay \cup {"done"})
    BY <2>1 DEF VisitGoes, OnTheWay
  <2> QED BY <1>1, <2>1, <2>2, VisitStep
<1> QED BY <1>2, <1>3 DEF OpenFails

\* A new page is in the map for its visit, in place of one that has its cause.
LEMMA NewPageStep ==
  ASSUME BrowserInv, NEW v \in Visit, NewPage(v) PROVE BrowserInv'
<1>1. visit[v].at = "page" /\ UNCHANGED browsers
  BY DEF NewPage, At
<1>2. CASE OpenFails(v) /\ UNCHANGED <<pages, open>>
  BY <1>1, <1>2, OpenFailsStep
<1>3. ASSUME NEW page, page = [browser |-> browser, owner |-> v, number |-> visit[v].tries],
             browser \in alive, open' = open \cup {page},
             pages' = [w \in DOMAIN pages \cup {v} |-> IF w = v THEN page ELSE pages[w]],
             Go(v, "goto"), UNCHANGED <<routed, tainted>>
      PROVE  BrowserInv'
  <2>1. VisitGoes(v, {visit[v].at}, {"goto"}) /\ VisitsCounted' /\ RoutedTypeOK'
    BY <1>1, <1>3, WayStep DEF BrowserInv, OnTheWay
  <2>2. page \in Page /\ page.owner = v /\ page.browser = browser
    BY <1>3 DEF BrowserInv, BrowserTypeOK, Page
  <2>3. UNCHANGED <<browser, alive, launched, closing, raced, cleanups>>
    BY <1>1 DEF browsers
  <2>4. BrowserTypeOK'
    BY <1>3, <2>1, <2>2, <2>3 DEF BrowserInv, BrowserTypeOK, VisitGoes, RoutedTypeOK
  <2>5. BrowsersKnown'
    BY <1>3, <2>2, <2>3 DEF BrowserInv, BrowsersKnown, OneWaits, ClosingNow
  <2>6. ASSUME NEW p \in open', p.owner \notin tainted, ~ (raced /\ cleanups > 0) PROVE InUse(p)'
    <3>1. CASE p = page
      <4>1. v \in DOMAIN pages' /\ pages'[v] = page /\ visit'[v].at = "goto"
        BY <1>3, <2>1 DEF VisitGoes
      <4> QED BY <2>2, <3>1, <4>1 DEF InUse
    <3>2. CASE p \in open
      <4>1. InUse(p) /\ p.owner \in Visit
        BY <2>6, <3>2 DEF BrowserInv, PagesKnown, BrowserTypeOK, Page
      <4>2. p.owner # v
        BY <1>1, <4>1 DEF InUse
      <4>3. p.owner \in DOMAIN pages' /\ pages'[p.owner] = p
        BY <1>3, <4>1, <4>2 DEF InUse
      <4>4. visit'[p.owner] = visit[p.owner]
        BY <2>1, <4>1, <4>2 DEF VisitGoes
      <4> QED BY <4>1, <4>3, <4>4 DEF InUse
    <3> QED BY <1>3, <2>6, <3>1, <3>2
  <2>7. PagesKnown'
    BY <1>3, <2>3, <2>6 DEF PagesKnown
  <2> QED BY <2>1, <2>4, <2>5, <2>7 DEF BrowserInv
<1> QED BY <1>2, <1>3 DEF NewPage

\* A navigation succeeds, or fails like the opening of a page.
LEMMA GotoStep ==
  ASSUME BrowserInv, NEW v \in Visit, Goto(v) PROVE BrowserInv'
<1>1. visit[v].at = "goto" /\ UNCHANGED <<browsers, pages, open>>
  BY DEF Goto, At
<1>2. CASE OpenFails(v)
  BY <1>1, <1>2, OpenFailsStep
<1>3. CASE Go(v, "use") /\ UNCHANGED <<routed, tainted>>
  <2>1. VisitGoes(v, {visit[v].at}, {"use"}) /\ VisitsCounted' /\ RoutedTypeOK'
    BY <1>1, <1>3, WayStep DEF BrowserInv, OnTheWay
  <2>2. VisitGoes(v, {visit[v].at}, OnTheWay \cup {"done"}) /\ visit'[v].at = "use"
    BY <2>1 DEF VisitGoes, OnTheWay
  <2> QED BY <1>1, <1>3, <2>1, <2>2, VisitStep
<1> QED BY <1>2, <1>3 DEF Goto

\* A use that fails taints its visit.
LEMMA UseStep ==
  ASSUME BrowserInv, NEW v \in Visit, Use(v) PROVE BrowserInv'
<1>1. visit[v].at = "use" /\ UNCHANGED <<browsers, pages, open>>
  BY DEF Use, At
<1>2. CASE Go(v, "close") /\ UNCHANGED <<routed, tainted>>
  <2>1. VisitGoes(v, {visit[v].at}, {"close"}) /\ VisitsCounted' /\ RoutedTypeOK'
    BY <1>1, <1>2, WayStep DEF BrowserInv, OnTheWay
  <2>2. VisitGoes(v, {visit[v].at}, OnTheWay \cup {"done"}) /\ visit'[v].at = "close"
    BY <2>1 DEF VisitGoes, OnTheWay
  <2> QED BY <1>1, <1>2, <2>1, <2>2, VisitStep
<1>3. CASE BrowserFails(v) /\ tainted' = tainted \cup {v}
  <2>1. /\ VisitGoes(v, {visit[v].at}, {"open", "fetch", "done"})
        /\ VisitsCounted' /\ RoutedTypeOK'
    BY <1>1, <1>3, RoutingFromBrowser DEF BrowserInv, OnTheWay
  <2>2. VisitGoes(v, {visit[v].at}, OnTheWay \cup {"done"})
    BY <2>1 DEF VisitGoes, OnTheWay
  <2> QED BY <1>1, <1>3, <2>1, <2>2, VisitStep
<1> QED BY <1>2, <1>3 DEF Use

\* The page of a visit that ends is closed, has its cause, or left the map with a cleanup.
LEMMA CloseStep ==
  ASSUME BrowserInv, NEW v \in Visit, Close(v) PROVE BrowserInv'
<1>1. visit[v].at = "close" /\ Serve(v) /\ UNCHANGED browsers
  BY DEF Close, At
<1>2. /\ VisitGoes(v, {visit[v].at}, {"open", "fetch", "done"})
      /\ VisitsCounted' /\ RoutedTypeOK'
  BY <1>1, Routing DEF BrowserInv, OnTheWay
<1>3. VisitGoes(v, {visit[v].at}, OnTheWay \cup {"done"})
  BY <1>2 DEF VisitGoes, OnTheWay
<1>4. CASE tainted' = tainted \cup {v} /\ UNCHANGED <<pages, open>>
  BY <1>1, <1>2, <1>3, <1>4, VisitStep
<1>5. CASE /\ open' \subseteq open /\ \A w \in DOMAIN pages : w # v => w \in DOMAIN pages' /\ pages'[w] = pages[w]
           /\ v \in DOMAIN pages => pages[v] \notin open'
           /\ UNCHANGED tainted
  <2>1. UNCHANGED <<browser, alive, launched, closing, raced, cleanups>>
    BY <1>1 DEF browsers
  <2>2. BrowserTypeOK'
    BY <1>2, <1>5, <2>1 DEF BrowserInv, BrowserTypeOK, VisitGoes, RoutedTypeOK
  <2>3. BrowsersKnown'
    BY <1>5, <2>1 DEF BrowserInv, BrowsersKnown, OneWaits, ClosingNow
  <2>4. ASSUME NEW p \in open', p.owner \notin tainted, ~ (raced /\ cleanups > 0) PROVE InUse(p)'
    <3>1. InUse(p) /\ p.owner \in Visit
      BY <1>5, <2>4 DEF BrowserInv, PagesKnown, BrowserTypeOK, Page
    <3>2. p.owner # v
      BY <1>5, <2>4, <3>1 DEF InUse
    <3>3. p.owner \in DOMAIN pages' /\ pages'[p.owner] = p
      BY <1>5, <3>1, <3>2 DEF InUse
    <3>4. visit'[p.owner] = visit[p.owner]
      BY <1>2, <3>1, <3>2 DEF VisitGoes
    <3> QED BY <3>1, <3>3, <3>4 DEF InUse
  <2>5. PagesKnown'
    BY <1>5, <2>1, <2>4 DEF PagesKnown
  <2> QED BY <1>2, <2>2, <2>3, <2>5 DEF BrowserInv
<1>6. CASE v \in DOMAIN pages /\ open' = open \ {pages[v]} /\ LeaveAll(v) /\ UNCHANGED tainted
  <2>1. pages' = [w \in DOMAIN pages \ {v} |-> pages[w]]
    BY <1>6 DEF LeaveAll
  <2>2. \A w \in DOMAIN pages : w # v => w \in DOMAIN pages' /\ pages'[w] = pages[w]
    BY <2>1
  <2> QED BY <1>5, <1>6, <2>2
<1>7. CASE v \notin DOMAIN pages /\ UNCHANGED <<pages, open, tainted>>
  BY <1>5, <1>7
<1> QED BY <1>4, <1>6, <1>7 DEF Close

\* Entries that are cleared stay accounted for.
LEMMA ClearStep ==
  ASSUME BrowserInv, ClearDLQ PROVE BrowserInv'
<1>1. /\ cleared' = cleared \cup dlq /\ dlq' = {}
      /\ UNCHANGED <<visit, attempts, successes, browsers, pages, open, tainted>>
  BY DEF ClearDLQ
<1>2. Listed' = Listed /\ Begun' = Begun /\ UnderWay' = UnderWay
  BY <1>1 DEF Listed, Begun, UnderWay
<1>3. VisitsCounted'
  BY <1>1, <1>2 DEF BrowserInv, VisitsCounted
<1>4. BrowserTypeOK' /\ BrowsersKnown' /\ PagesKnown'
  BY <1>1
     DEF BrowserInv, BrowserTypeOK, BrowsersKnown, OneWaits, ClosingNow, PagesKnown, InUse,
     browsers
<1> QED BY <1>3, <1>4 DEF BrowserInv

\* A step that touches neither visits nor metrics changes no count.
LEMMA CountedStays ==
  ASSUME VisitsCounted, UNCHANGED <<visit, routed>> PROVE VisitsCounted'
<1>1. Listed' = Listed /\ Begun' = Begun /\ UnderWay' = UnderWay
  BY DEF Listed, Begun, UnderWay, routed
<1> QED BY <1>1 DEF VisitsCounted, routed

\* Where a cleanup starts or ends, the others wait as before.
LEMMA WaitingStays ==
  ASSUME BrowserTypeOK, NEW k \in 1..MaxCleanups, NEW b \in Nat, closing' = [closing EXCEPT ![k] = b]
  PROVE  /\ closing' \in [1..MaxCleanups -> Nat] /\ closing'[k] = b
         /\ \A j \in 1..MaxCleanups : j # k => closing'[j] = closing[j]
BY DEF BrowserTypeOK

\* A cleanup starts, alone or over another one, which is a race.
LEMMA CleanupStarts ==
  ASSUME BrowserInv, Cleanup PROVE BrowserInv'
<1>1. /\ UNCHANGED <<visit, attempts, successes, dlq, cleared, launched, browser, alive, pages, open, tainted>>
      /\ cleanups' = cleanups + 1 /\ closing' = [closing EXCEPT ![cleanups + 1] = browser]
      /\ raced' = (raced \/ \E k \in 1..MaxCleanups : ClosingNow(k))
  BY DEF Cleanup, routed
<1>2. cleanups + 1 \in 1..MaxCleanups /\ browser \in Nat /\ browser # None
  BY BrowserConstants DEF Cleanup, BrowserInv, BrowserTypeOK
<1>3. cleanups' > 0 /\ cleanups' \in Nat /\ raced' \in BOOLEAN
  BY <1>1 DEF BrowserInv, BrowserTypeOK
<1>4. /\ closing' \in [1..MaxCleanups -> Nat] /\ closing'[cleanups + 1] = browser
      /\ \A j \in 1..MaxCleanups : j # cleanups + 1 => closing'[j] = closing[j]
  BY <1>1, <1>2, WaitingStays DEF BrowserInv
<1>5. VisitsCounted'
  BY <1>1, CountedStays DEF BrowserInv, routed
<1>6. BrowserTypeOK'
  BY <1>1, <1>3, <1>4 DEF BrowserInv, BrowserTypeOK
<1>7. ~ raced' => alive' \subseteq {browser'} /\ OneWaits'
  <2> SUFFICES ASSUME ~ raced' PROVE alive' \subseteq {browser'} /\ OneWaits'
    OBVIOUS
  <2>1. ~ raced /\ \A k \in 1..MaxCleanups : closing[k] = None
    BY <1>1 DEF ClosingNow
  <2>2. \A j \in 1..MaxCleanups : j # cleanups + 1 => closing'[j] = None
    BY <1>4, <2>1
  <2> QED BY <1>1, <1>4, <2>1, <2>2 DEF BrowserInv, BrowsersKnown, OneWaits, ClosingNow
<1>8. BrowsersKnown'
  BY <1>1, <1>3, <1>7 DEF BrowserInv, BrowsersKnown
<1>9. PagesKnown'
  BY <1>1, <1>3 DEF BrowserInv, PagesKnown, InUse
<1> QED BY <1>5, <1>6, <1>8, <1>9 DEF BrowserInv

\* A cleanup that is over leaves no page open but those of another browser, which is a race.
LEMMA CleanupEnds ==
  ASSUME BrowserInv, NEW k \in 1..MaxCleanups, CleanupFails(k) \/ CleanedUp(k) PROVE BrowserInv'
<1>1. /\ UNCHANGED <<visit, attempts, successes, dlq, cleared, launched, raced, tainted, cleanups>>
      /\ closing' = [closing EXCEPT ![k] = None] /\ ClosingNow(k)
  BY DEF CleanupFails, CleanedUp, routed
<1>2. /\ closing' \in [1..MaxCleanups -> Nat] /\ closing'[k] = None
      /\ \A j \in 1..MaxCleanups : j # k => closing'[j] = closing[j]
  BY <1>1, WaitingStays DEF BrowserInv, None
<1>3. VisitsCounted'
  BY <1>1, CountedStays DEF BrowserInv, routed
<1>4. \A j \in 1..MaxCleanups : ClosingNow(j)' => ClosingNow(j) /\ j # k
  BY <1>2 DEF ClosingNow
<1>5. cleanups' > 0
  BY <1>1 DEF BrowserInv, BrowsersKnown
<1>6. ~ raced' => OneWaits /\ alive \subseteq {browser} /\ closing[k] = browser
  BY <1>1 DEF BrowserInv, BrowsersKnown, OneWaits
<1>7. ~ raced' => \A j \in 1..MaxCleanups : ~ ClosingNow(j)'
  BY <1>1, <1>4, <1>6 DEF OneWaits
<1>8. ~ raced' => OneWaits'
  BY <1>7 DEF OneWaits
<1>9. CASE CleanupFails(k)
  <2>1. UNCHANGED <<browser, alive, pages, open>>
    BY <1>9 DEF CleanupFails
  <2>2. BrowserTypeOK' /\ BrowsersKnown' /\ PagesKnown'
    BY <1>1, <1>2, <1>5, <1>8, <2>1
       DEF BrowserInv, BrowserTypeOK, BrowsersKnown, PagesKnown, InUse
  <2> QED BY <1>3, <2>2 DEF BrowserInv
<1>10. CASE CleanedUp(k)
  <2>1. /\ alive' = alive \ {closing[k]} /\ open' = {p \in open : p.browser # closing[k]}
        /\ browser' = None
    BY <1>10 DEF CleanedUp
  <2>2. BrowserTypeOK'
    BY <1>1, <1>2, <2>1 DEF BrowserInv, BrowserTypeOK, None
  <2>3. ~ raced' => alive' = {} /\ open' = {}
    BY <1>6, <2>1 DEF BrowserInv, BrowsersKnown
  <2>4. BrowsersKnown'
    <3>1. alive' \subseteq 1..launched' /\ \A p \in open' : p.browser \in alive'
      BY <1>1, <2>1 DEF BrowserInv, BrowsersKnown
    <3> QED BY <1>5, <1>8, <2>3, <3>1 DEF BrowsersKnown
  <2>5. PagesKnown'
    BY <1>1, <1>5, <2>3 DEF BrowserInv, BrowserTypeOK, PagesKnown
  <2> QED BY <1>3, <2>2, <2>4, <2>5 DEF BrowserInv
<1> QED BY <1>9, <1>10

(* Every visit that was counted ends in exactly one place, and a page or a    *)
(* browser that is left behind has its cause (SweeperFallbackRouter.ts:61-98, *)
(* 103-246, CloakBrowserAdapter.ts:75-150), for any number of visits,         *)
(* retries and cleanups that overlap at every await.                          *)
THEOREM VisitsEndOnce == BrowserSpec => []IngestAccounted
<1>1. BrowserInit => BrowserInv
  <2> SUFFICES ASSUME BrowserInit PROVE BrowserInv
    OBVIOUS
  <2>1. BrowserTypeOK
    <3>1. visit \in [Visit -> [at : OnTheWay \cup {"new", "done"}, tries : Nat]]
      BY DEF BrowserInit
    <3>2. raced \in BOOLEAN
      BY DEF BrowserInit
    <3> QED BY <3>1, <3>2 DEF BrowserInit, BrowserTypeOK, None
  <2>2. Begun = {} /\ UnderWay = {} /\ Listed = {}
    BY DEF BrowserInit, Begun, UnderWay, Listed
  <2>3. VisitsCounted
    BY <2>2, FS_EmptySet DEF BrowserInit, VisitsCounted
  <2>4. BrowsersKnown /\ PagesKnown
    BY DEF BrowserInit, BrowsersKnown, OneWaits, ClosingNow, PagesKnown
  <2> QED BY <2>1, <2>3, <2>4 DEF BrowserInv
<1>2. BrowserInv /\ [BrowserNext]_browserVars => BrowserInv'
  <2> SUFFICES ASSUME BrowserInv, [BrowserNext]_browserVars PROVE BrowserInv'
    OBVIOUS
  <2>1. CASE UNCHANGED browserVars
    <3>1. UNCHANGED <<visit, attempts, successes, dlq, cleared, browser, alive, launched, closing,
                      raced, cleanups, pages, open, tainted>>
      BY <2>1 DEF browserVars, routed, browsers
    <3>2. VisitsCounted'
      BY <3>1, CountedStays DEF BrowserInv, routed
    <3> QED BY <3>1, <3>2
               DEF BrowserInv, BrowserTypeOK, BrowsersKnown, OneWaits, ClosingNow, PagesKnown,
               InUse
  <2>2. ASSUME NEW v \in Visit,
               \/ Ingest(v) \/ FetchHTML(v) \/ Open(v) \/ Launched(v)
               \/ NewPage(v) \/ Goto(v) \/ Use(v) \/ Close(v)
        PROVE  BrowserInv'
    BY <2>2, IngestStep, FetchStep, OpenStep, LaunchedStep, NewPageStep, GotoStep, UseStep,
       CloseStep
  <2>3. CASE ClearDLQ
    BY <2>3, ClearStep
  <2>4. CASE Cleanup \/ \E k \in 1..MaxCleanups : CleanedUp(k) \/ CleanupFails(k)
    BY <2>4, CleanupStarts, CleanupEnds
  <2> QED BY <2>1, <2>2, <2>3, <2>4 DEF BrowserNext
<1>3. BrowserInv => IngestAccounted
  <2> SUFFICES ASSUME BrowserInv PROVE IngestAccounted
    OBVIOUS
  <2>1. VisitsAccounted
    BY DEF BrowserInv, VisitsCounted, VisitsAccounted, Begun, UnderWay, Listed, At
  <2>2. \A p \in open : At(p.owner, "done") => p.owner \in tainted \/ (raced /\ cleanups > 0)
    BY DEF BrowserInv, PagesKnown, InUse, At
  <2>3. ~ raced => Cardinality(alive) <= 1 /\ alive \subseteq {browser}
    <3> SUFFICES ASSUME ~ raced PROVE Cardinality(alive) <= 1 /\ alive \subseteq {browser}
      OBVIOUS
    <3>1. alive \subseteq {browser}
      BY DEF BrowserInv, BrowsersKnown
    <3>2. IsFiniteSet({browser}) /\ Cardinality({browser}) = 1
      BY FS_Singleton
    <3> QED BY <3>1, <3>2, FS_Subset
  <2> QED BY <2>1, <2>2, <2>3 DEF IngestAccounted, LeftoversExplained
<1> QED BY <1>1, <1>2, <1>3, PTL DEF BrowserSpec

-----------------------------------------------------------------------------
(* The router, for any models, directories and chats.                      *)

Outcome == {"load", "unknown", "ok", "rejected", "failed"}
Chat == [request : ChatRequest, tried : Seq(Outcome)]

\* Of what chat c has tried: only the first chat meets the load that fails, each other outcome is one
\* its model may come to, and the chat ends with the first that is accepted.
TriedInv(c, chat) ==
  /\ Len(chat.tried) <= Len(Chain(chat))
  /\ \A i \in DOMAIN chat.tried :
       /\ chat.tried[i] = "load" => ~ Sound /\ c = 1 /\ i = 1
       /\ chat.tried[i] # "load" =>
            chat.tried[i] \in Outcomes(Chain(chat)[i], chat.request.requires)
       /\ chat.tried[i] = "ok" => i = Len(chat.tried)

\* The registry is loaded with the first chat, from files that stay.
RouterInv ==
  /\ files \in Directory
  /\ chats \in Seq(Chat)
  /\ \/ registry = NotLoaded /\ chats = <<>>
     \/ registry = Loaded
  /\ \A c \in DOMAIN chats : TriedInv(c, chats[c])

-----------------------------------------------------------------------------
(* Models and what they come to.                                           *)

\* A chain begins with the model asked for, and the mock is in it.
LEMMA ChainGives ==
  ASSUME NEW primary
  PROVE  /\ Len(BuildFallbackChain(primary)) \in Nat /\ Len(BuildFallbackChain(primary)) >= 1
         /\ \E k \in 1..Len(BuildFallbackChain(primary)) : BuildFallbackChain(primary)[k] = "mock"
<1>0. PICK places : places = {n \in DOMAIN FallbackModels : FallbackModels[n] # primary}
  OBVIOUS
<1>1. PICK S : S = ToSet(FallbackModels)
  OBVIOUS
<1>2. FallbackModels \in Seq(S) /\ "mock" \in S
  BY <1>1, RouterConstants
<1>3. PICK t : t = Picked(FallbackModels, places)
  OBVIOUS
<1>4. /\ t \in Seq(S) /\ DOMAIN t = 1..Cardinality(places) /\ Len(t) = Cardinality(places)
      /\ \A j \in DOMAIN t : Nth(places, j) \in places /\ t[j] = FallbackModels[Nth(places, j)]
      /\ \A n \in places : \E j \in DOMAIN t : Nth(places, j) = n
  <2>1. places \in SUBSET DOMAIN FallbackModels
    BY <1>0
  <2> QED BY ONLY <1>2, <1>3, <2>1, PickedGives
<1>5. BuildFallbackChain(primary) = <<primary>> \o t
  BY <1>0, <1>3 DEF BuildFallbackChain
<1>6. PICK route : route = BuildFallbackChain(primary)
  OBVIOUS
<1>7. /\ Len(route) = 1 + Len(t) /\ Len(t) \in Nat /\ route[1] = primary
      /\ \A j \in 1..Len(t) : route[1 + j] = t[j]
  <2>1. t \in Seq(S \cup {primary}) /\ <<primary>> \in Seq(S \cup {primary})
    BY <1>4
  <2>2. Len(<<primary>>) = 1 /\ <<primary>>[1] = primary /\ Len(t) \in Nat
    BY <1>4
  <2>3. \A i \in 1..(Len(<<primary>>) + Len(t)) :
           (<<primary>> \o t)[i] = IF i <= Len(<<primary>>) THEN <<primary>>[i] ELSE t[i - Len(<<primary>>)]
    BY ONLY <2>1, ConcatProperties
  <2>4. Len(<<primary>> \o t) = Len(<<primary>>) + Len(t)
    BY ONLY <2>1, ConcatProperties
  <2>5. (<<primary>> \o t)[1] = primary
    BY <2>2, <2>3
  <2>6. \A j \in 1..Len(t) : (<<primary>> \o t)[1 + j] = t[j]
    <3> SUFFICES ASSUME NEW j \in 1..Len(t) PROVE (<<primary>> \o t)[1 + j] = t[j]
      OBVIOUS
    <3>1. 1 + j \in 1..(1 + Len(t)) /\ ~ (1 + j <= 1) /\ (1 + j) - 1 = j
      BY <2>2
    <3> QED BY <2>2, <2>3, <3>1
  <2> QED BY <1>5, <1>6, <2>2, <2>4, <2>5, <2>6
<1>8. \E k \in 1..Len(route) : route[k] = "mock"
  <2>1. CASE primary = "mock"
    <3>1. 1 \in 1..Len(route)
      BY <1>7
    <3> QED BY <1>7, <2>1, <3>1
  <2>2. CASE primary # "mock"
    <3>1. PICK n \in DOMAIN FallbackModels : FallbackModels[n] = "mock"
      BY <1>1, <1>2 DEF ToSet
    <3>2. n \in places
      BY <1>0, <2>2, <3>1
    <3>3. PICK j \in DOMAIN t : Nth(places, j) = n
      BY <1>4, <3>2
    <3>4. t[j] = "mock" /\ j \in 1..Len(t)
      BY <1>4, <3>1, <3>3
    <3>5. 1 + j \in 1..Len(route)
      BY <1>7, <3>4
    <3> QED BY <1>7, <3>4, <3>5
  <2> QED BY <2>1, <2>2
<1> QED BY <1>6, <1>7, <1>8

\* Whose answers are accepted.
LEMMA AcceptedGives ==
  ASSUME NEW m, NEW requires, "ok" \in Outcomes(m, requires)
  PROVE  /\ Type[m] \in OpenAILike \cup {"mock", "anthropic"}
         /\ requires = "tools" => Type[m] # "anthropic"
<1>1. PICK a \in Answers(Type[m], requires) :
        ValidateStructure(a) /\ ValidateText(a) /\ ValidateCapability(a, requires, m)
  BY DEF Outcomes
<1>2. PICK type : type = Type[m]
  OBVIOUS
<1>3. CASE type = "anthropic"
  <2>1. PICK says \in BOOLEAN : a = Anthropic(says)
    BY <1>1, <1>2, <1>3 DEF Answers
  <2>2. a.tool_calls = FALSE
    BY <2>1 DEF Anthropic
  <2> QED BY <1>1, <1>2, <1>3, <2>2 DEF ValidateCapability
<1>4. CASE type = "google"
  <2>1. PICK says \in BOOLEAN : a = Google(says)
    BY <1>1, <1>2, <1>4 DEF Answers
  <2> QED BY <1>1, <2>1 DEF Google, ValidateStructure
<1>5. CASE type = "ollama"
  <2>1. PICK says \in BOOLEAN : a = Ollama(says)
    BY <1>1, <1>2, <1>5 DEF Answers
  <2> QED BY <1>1, <2>1 DEF Ollama, ValidateStructure
<1>6. CASE type \in OpenAILike \cup {"mock"}
  BY <1>2, <1>6 DEF OpenAILike
<1>7. CASE type \notin OpenAILike \cup {"mock", "anthropic", "google", "ollama"}
  <2>1. Answers(type, requires) = {}
    BY <1>7 DEF Answers, OpenAILike
  <2> QED BY <1>1, <1>2, <2>1
<1> QED BY <1>3, <1>4, <1>5, <1>6, <1>7

\* The mock answers whatever does not require vision it lacks.
LEMMA MockGives ==
  ASSUME "mock" \in registry, Type["mock"] = "mock", NEW requires,
         NEW outcome \in Outcomes("mock", requires), outcome # "ok"
  PROVE  requires = "vision" /\ "mock" \in NoVision
<1>1. Answers("mock", requires) = {Mock(requires)}
  BY DEF Answers
<1>2. PICK a \in Answers("mock", requires) :
        ~ (ValidateStructure(a) /\ ValidateText(a) /\ ValidateCapability(a, requires, "mock"))
  BY DEF Outcomes
<1>3. a = Mock(requires)
  BY <1>1, <1>2
<1>4. a.raw = "content" /\ a.text = TRUE /\ (requires = "tools" => a.tool_calls)
  BY <1>3 DEF Mock
<1> QED BY <1>2, <1>4 DEF ValidateStructure, ValidateText, ValidateCapability

\* A model that is not unknown was set before any bad file.
LEMMA KnownGives ==
  ASSUME registry = Loaded, ~ Sound, NEW m, NEW requires,
         NEW outcome \in Outcomes(m, requires), outcome # "unknown"
  PROVE  \E j \in DOMAIN files : files[j].name = m /\ \A k \in 1 .. j : files[k].ok
<1>1. m \in registry
  BY DEF Outcomes
<1> QED BY <1>1 DEF Loaded

\* What a registry holds are names.
LEMMA LoadedNames ==
  ASSUME files \in Directory
  PROVE  Loaded # NotLoaded
<1>1. \A i \in DOMAIN files : files[i].name \in DOMAIN Type
  BY RouterConstants
<1>2. Loaded \subseteq DOMAIN Type
  BY <1>1, RouterConstants DEF Loaded, Names
<1> QED BY <1>2, RouterConstants DEF NotLoaded

-----------------------------------------------------------------------------
(* The steps.                                                              *)

\* What a chat has tried stays what its models may come to.
LEMMA TriedStays ==
  ASSUME NEW c, NEW chat, TriedInv(c, chat), registry' = registry, Sound' = Sound
  PROVE  TriedInv(c, chat)'
<1>1. \A m, requires : Outcomes(m, requires)' = Outcomes(m, requires)
  BY DEF Outcomes
<1>2. Chain(chat)' = Chain(chat)
  OBVIOUS
<1> QED BY <1>1, <1>2 DEF TriedInv

\* A chat begins.
LEMMA ChatBegins ==
  ASSUME RouterInv, NEW request \in ChatRequest, CallModel(request)
  PROVE  RouterInv'
<1>1. PICK load \in BOOLEAN : load <=> registry = NotLoaded /\ ~ Sound
  OBVIOUS
<1>2. PICK tried : tried = IF load THEN <<"load">> ELSE <<>>
  OBVIOUS
<1>3. PICK chat : chat = [request |-> request, tried |-> tried]
  OBVIOUS
<1>4. chats' = Append(chats, chat) /\ files' = files
  BY <1>1, <1>2, <1>3 DEF CallModel
<1>5. chat \in Chat
  <2>1. <<"load">> \in Seq(Outcome) /\ <<>> \in Seq(Outcome)
    BY DEF Outcome
  <2>2. tried \in Seq(Outcome)
    BY <1>2, <2>1
  <2> QED BY <1>3, <2>2 DEF Chat
<1>6. registry' = Loaded /\ Loaded' = Loaded /\ Sound' = Sound
  <2>1. Loaded' = Loaded /\ Sound' = Sound
    BY <1>4 DEF Loaded, Sound, Names
  <2> QED BY <2>1 DEF CallModel, RouterInv
<1>7. load => chats = <<>>
  BY <1>1, LoadedNames DEF RouterInv
<1>8. PICK c : c = Len(chats) + 1
  OBVIOUS
<1>9. /\ chats' \in Seq(Chat) /\ DOMAIN chats' = DOMAIN chats \cup {c} /\ chats'[c] = chat
      /\ \A d \in DOMAIN chats : chats'[d] = chats[d]
  BY <1>4, <1>5, <1>8, Longer DEF RouterInv
<1>10. TriedInv(c, chat)'
  <2>1. Len(Chain(chat)) \in Nat /\ Len(Chain(chat)) >= 1
    BY ChainGives DEF Chain
  <2>2. Chain(chat)' = Chain(chat) /\ chat.tried = tried
    BY <1>3 DEF Chain, BuildFallbackChain
  <2>3. CASE load
    <3>1. tried = <<"load">> /\ c = 1 /\ ~ Sound'
      BY <1>1, <1>2, <1>6, <1>7, <1>8, <2>3
    <3>2. Len(tried) = 1 /\ DOMAIN tried = {1} /\ tried[1] = "load"
      BY <3>1
    <3> QED BY <2>1, <2>2, <3>1, <3>2 DEF TriedInv
  <2>4. CASE ~ load
    <3>1. tried = <<>>
      BY <1>2, <2>4
    <3>2. Len(tried) = 0 /\ DOMAIN tried = {}
      BY <3>1
    <3> QED BY <2>1, <2>2, <3>2 DEF TriedInv
  <2> QED BY <2>3, <2>4
<1>11. ASSUME NEW d \in DOMAIN chats, NEW other, other = chats[d] PROVE TriedInv(d, other)'
  <2>1. chats # <<>>
    BY <1>11
  <2>2. registry' = registry
    BY <1>6, <2>1 DEF RouterInv
  <2>3. TriedInv(d, other)
    BY <1>11 DEF RouterInv
  <2> QED BY ONLY <1>6, <2>2, <2>3, TriedStays
<1>12. ASSUME NEW d \in DOMAIN chats' PROVE TriedInv(d, chats[d])'
  <2>1. PICK other : other = chats'[d]
    OBVIOUS
  <2>2. TriedInv(d, other)'
    BY <1>9, <1>10, <1>11, <2>1
  <2> QED BY ONLY <2>1, <2>2 DEF TriedInv
<1> QED BY <1>4, <1>6, <1>9, <1>12 DEF RouterInv

\* A chat tries its next model.
LEMMA ModelTried ==
  ASSUME RouterInv, NEW c \in DOMAIN chats, TryModel(c)
  PROVE  RouterInv'
<1>1. PICK chat : chat = chats[c]
  OBVIOUS
<1>2. chat \in Chat /\ chats \in Seq(Chat)
  BY <1>1 DEF RouterInv
<1>3. chat.tried \in Seq(Outcome) /\ chat.request \in ChatRequest
  BY <1>2 DEF Chat
<1>4. PICK route, requires : route = Chain(chat) /\ requires = chat.request.requires
  OBVIOUS
<1>5. Len(route) \in Nat /\ Len(chat.tried) \in Nat
  BY <1>3, <1>4, ChainGives DEF Chain
<1>6. PICK outcome \in Outcomes(route[Len(chat.tried) + 1], requires) :
        chats' = [chats EXCEPT ![c] = [chat EXCEPT !.tried = Append(chat.tried, outcome)]]
  BY <1>1, <1>4 DEF TryModel
<1>7. outcome \in Outcome \ {"load"}
  BY <1>6 DEF Outcomes, Outcome
<1>8. PICK tried : tried = Append(chat.tried, outcome)
  OBVIOUS
<1>9. PICK next : next = [chat EXCEPT !.tried = tried]
  OBVIOUS
<1>10. /\ tried \in Seq(Outcome) /\ Len(tried) = Len(chat.tried) + 1
       /\ DOMAIN tried = DOMAIN chat.tried \cup {Len(chat.tried) + 1} /\ tried[Len(chat.tried) + 1] = outcome
       /\ \A i \in DOMAIN chat.tried : tried[i] = chat.tried[i]
  BY ONLY <1>3, <1>7, <1>8, Longer
<1>11. next \in Chat /\ next.tried = tried /\ next.request = chat.request
  BY <1>2, <1>9, <1>10 DEF Chat
<1>12. /\ chats' \in Seq(Chat) /\ DOMAIN chats' = DOMAIN chats /\ chats'[c] = next
       /\ \A d \in DOMAIN chats : d # c => chats'[d] = chats[d]
  <2>1. chats' = [chats EXCEPT ![c] = next]
    BY <1>6, <1>8, <1>9
  <2> QED BY ONLY <1>2, <1>11, <2>1, c \in DOMAIN chats, Replaced
<1>13. files' = files /\ registry' = registry /\ Loaded' = Loaded /\ Sound' = Sound
  BY DEF TryModel, Loaded, Sound, Names
<1>14. ~ Ended(chat)
  BY <1>1 DEF TryModel
<1>15. TriedInv(c, chat)
  BY <1>1 DEF RouterInv
<1>16. Len(chat.tried) < Len(route)
  BY <1>4, <1>5, <1>14, <1>15 DEF Ended, TriedInv
<1>17. \A i \in DOMAIN chat.tried : chat.tried[i] # "ok"
  <2> SUFFICES ASSUME NEW i \in DOMAIN chat.tried, chat.tried[i] = "ok" PROVE FALSE
    OBVIOUS
  <2>1. i = Len(chat.tried) /\ chat.tried # <<>>
    BY <1>15 DEF TriedInv
  <2> QED BY <1>14, <2>1 DEF Ended, Answered, Last
<1>18. TriedInv(c, next)
  <2>1. Chain(next) = route /\ next.request.requires = requires
    BY <1>4, <1>11 DEF Chain
  <2>2. Len(next.tried) <= Len(route)
    <3>1. Len(tried) <= Len(route)
      BY ONLY <1>5, <1>10, <1>16
    <3> QED BY <1>11, <3>1
  <2>3. ASSUME NEW i \in DOMAIN next.tried
        PROVE  /\ next.tried[i] = "load" => ~ Sound /\ c = 1 /\ i = 1
               /\ next.tried[i] # "load" => next.tried[i] \in Outcomes(route[i], requires)
               /\ next.tried[i] = "ok" => i = Len(next.tried)
    <3>1. CASE i \in DOMAIN chat.tried
      BY <1>4, <1>10, <1>11, <1>15, <1>17, <3>1 DEF TriedInv
    <3>2. CASE i = Len(chat.tried) + 1
      BY <1>6, <1>7, <1>10, <1>11, <3>2
    <3> QED BY <1>10, <1>11, <3>1, <3>2
  <2> QED BY <2>1, <2>2, <2>3 DEF TriedInv
<1>19. ASSUME NEW d \in DOMAIN chats' PROVE TriedInv(d, chats[d])'
  <2>1. PICK other : other = chats'[d]
    OBVIOUS
  <2>2. TriedInv(d, other)
    BY <1>12, <1>18, <2>1 DEF RouterInv
  <2>3. TriedInv(d, other)'
    BY ONLY <1>13, <2>2, TriedStays
  <2> QED BY ONLY <2>1, <2>3 DEF TriedInv
<1>20. registry = Loaded /\ files \in Directory
  BY DEF RouterInv
<1> QED BY <1>12, <1>13, <1>19, <1>20 DEF RouterInv

\* No chat has begun.
LEMMA RouterInvInit ==
  ASSUME RouterInit
  PROVE  RouterInv
<1>1. chats \in Seq(Chat) /\ DOMAIN chats = {}
  BY DEF RouterInit
<1> QED BY <1>1 DEF RouterInit, RouterInv

\* Every step of the router.
LEMMA RouterInvNext ==
  ASSUME RouterInv, [RouterNext]_routerVars
  PROVE  RouterInv'
<1>1. ASSUME NEW request \in ChatRequest, CallModel(request) PROVE RouterInv'
  BY <1>1, ChatBegins
<1>2. ASSUME NEW c \in DOMAIN chats, TryModel(c) PROVE RouterInv'
  BY <1>2, ModelTried
<1>3. CASE UNCHANGED routerVars
  <2>1. files' = files /\ registry' = registry /\ chats' = chats /\ Sound' = Sound /\ Loaded' = Loaded
    BY <1>3 DEF routerVars, Loaded, Sound, Names
  <2>2. ASSUME NEW d \in DOMAIN chats' PROVE TriedInv(d, chats[d])'
    <3>1. PICK other : other = chats'[d]
      OBVIOUS
    <3>2. TriedInv(d, other)
      BY <2>1, <3>1 DEF RouterInv
    <3>3. TriedInv(d, other)'
      BY ONLY <2>1, <3>2, TriedStays
    <3> QED BY ONLY <3>1, <3>3 DEF TriedInv
  <2> QED BY <2>1, <2>2 DEF RouterInv
<1> QED BY <1>1, <1>2, <1>3 DEF RouterNext

\* Which answers count, chat by chat: what its chain came to is what its models may come to.
LEMMA CountedAnswers ==
  ASSUME RouterInv
  PROVE  OnlySomeAnswersCount
<1> SUFFICES ASSUME NEW c \in DOMAIN chats, NEW chat, chat = chats[c], NEW tried, tried = chat.tried,
                    NEW requires, requires = chat.request.requires, NEW route, route = Chain(chat)
    PROVE  /\ Answered(chat) =>
                 IF requires = "tools" THEN Type[route[Len(tried)]] \in OpenAILike \union {"mock"}
                 ELSE Type[route[Len(tried)]] \in OpenAILike \union {"mock", "anthropic"}
           /\ Sound => /\ "load" \notin Range(tried)
                       /\ "mock" \in Loaded /\ Type["mock"] = "mock" /\ Ended(chat) =>
                            Answered(chat) \/ (requires = "vision" /\ "mock" \in NoVision)
           /\ ~ Sound => \A i \in DOMAIN tried :
                IF tried[i] = "load" THEN c = 1 /\ i = 1
                ELSE tried[i] # "unknown" =>
                       \E j \in DOMAIN files : files[j].name = route[i] /\ \A k \in 1 .. j : files[k].ok
  BY DEF OnlySomeAnswersCount
<1>1. tried \in Seq(Outcome) /\ Len(tried) \in Nat /\ DOMAIN tried = 1..Len(tried)
  <2>1. chat \in Chat
    BY DEF RouterInv
  <2>2. tried \in Seq(Outcome)
    BY <2>1 DEF Chat
  <2> QED BY <2>2
<1>2. TriedInv(c, chat)
  BY DEF RouterInv
<1>3. registry = Loaded /\ files \in Directory
  BY DEF RouterInv
<1>4. Answered(chat) =>
        IF requires = "tools" THEN Type[route[Len(tried)]] \in OpenAILike \union {"mock"}
        ELSE Type[route[Len(tried)]] \in OpenAILike \union {"mock", "anthropic"}
  <2> SUFFICES ASSUME Answered(chat)
      PROVE  /\ Type[route[Len(tried)]] \in OpenAILike \cup {"mock", "anthropic"}
             /\ requires = "tools" => Type[route[Len(tried)]] # "anthropic"
    OBVIOUS
  <2>1. Len(tried) \in DOMAIN tried /\ tried[Len(tried)] = "ok"
    BY <1>1 DEF Answered, Last
  <2>2. "ok" \in Outcomes(route[Len(tried)], requires)
    BY <1>2, <2>1 DEF TriedInv
  <2> QED BY ONLY <2>2, AcceptedGives
<1>5. ASSUME Sound PROVE "load" \notin Range(tried)
  BY <1>2, <1>5 DEF TriedInv, Range
<1>6. ASSUME Sound, "mock" \in Loaded, Type["mock"] = "mock", Ended(chat), ~ Answered(chat)
      PROVE  requires = "vision" /\ "mock" \in NoVision
  <2>1. PICK k \in 1..Len(route) : route[k] = "mock"
    BY ChainGives DEF Chain
  <2>2. Len(tried) = Len(route) /\ k \in DOMAIN tried
    BY <1>1, <1>6, <2>1 DEF Ended
  <2>3. tried[k] # "ok"
    <3> SUFFICES ASSUME tried[k] = "ok" PROVE FALSE
      OBVIOUS
    <3>1. k = Len(tried) /\ tried # <<>>
      BY <1>2, <2>2 DEF TriedInv
    <3> QED BY <1>6, <3>1 DEF Answered, Last
  <2>4. tried[k] \in Outcomes("mock", requires)
    BY <1>2, <1>6, <2>1, <2>2 DEF TriedInv
  <2>5. "mock" \in registry
    BY <1>3, <1>6
  <2> QED BY ONLY <1>6, <2>3, <2>4, <2>5, MockGives
<1>7. ASSUME ~ Sound, NEW i \in DOMAIN tried, tried[i] # "load", tried[i] # "unknown"
      PROVE  \E j \in DOMAIN files : files[j].name = route[i] /\ \A k \in 1 .. j : files[k].ok
  <2>1. tried[i] \in Outcomes(route[i], requires)
    BY <1>2, <1>7 DEF TriedInv
  <2> QED BY ONLY <1>3, <1>7, <2>1, KnownGives
<1>8. ASSUME NEW i \in DOMAIN tried, tried[i] = "load" PROVE c = 1 /\ i = 1
  BY <1>2, <1>8 DEF TriedInv
<1> QED BY <1>4, <1>5, <1>6, <1>7, <1>8

(* Only answers in the form of some providers are accepted, with valid model  *)
(* files the mock answers what it can, and a bad file hides those after it    *)
(* (modelRouter.ts:52-76, 157-247, modelRegistry.ts:12-42), for any models,   *)
(* directory and chats.                                                       *)
THEOREM AnswersCount == RouterSpec => []OnlySomeAnswersCount
<1>1. RouterSpec => []RouterInv
  <2>1. RouterInit => RouterInv
    BY RouterInvInit
  <2>2. RouterInv /\ [RouterNext]_routerVars => RouterInv'
    BY RouterInvNext
  <2> QED BY <2>1, <2>2, PTL DEF RouterSpec
<1>2. RouterInv => OnlySomeAnswersCount
  BY CountedAnswers
<1> QED BY <1>1, <1>2, PTL

-----------------------------------------------------------------------------
(* The FamilySearch client, for any calls, retries and tokens.             *)

QueryPlace == {"idle", "token", "await", "send", "done", "failed"}

QueryRecord == [at : QueryPlace, token : Nat, auth : BOOLEAN, rate : Nat, transient : Nat]

ClientTypeOK ==
  /\ query \in [Query -> QueryRecord]
  /\ effects \in [Query -> {0, 1}]
  /\ access \in Nat /\ refresh \in Nat
  /\ granted \in Nat /\ valid \in Nat /\ chain \in Nat
  /\ grantLost \in BOOLEAN /\ refused \in BOOLEAN

\* A request that took effect is not sent again.
EffectEnds == \A q \in Query : effects[q] = 1 => query[q].at \in {"done", "failed"}

\* At most one refresh is under way, with the refresh token the provider has,
\* and that token is the last of its chain unless an answer was lost.
OneRefresh ==
  /\ asking \in {<<>>, <<refresh>>}
  /\ grantLost \/ refresh = chain
  /\ refused => grantLost

ClientInv == ClientTypeOK /\ EffectEnds /\ OneRefresh

\* A call that is not under way.
LEMMA IdleType == [Fresh EXCEPT !.at = "idle"] \in QueryRecord
  BY DEF Fresh, QueryRecord, QueryPlace

\* The callers a refresh wakes up leave the others alone.
LEMMA ResumeKeeps ==
  ASSUME ClientTypeOK, NEW token \in Nat, Resume(token)
  PROVE  /\ query' \in [Query -> QueryRecord]
         /\ \A q \in Query : query[q].at \in {"done", "failed"} => query'[q] = query[q]
<1>1. \A q \in Query : query'[q] \in QueryRecord
  BY ZenonT(90) DEF ClientTypeOK, QueryRecord, QueryPlace, Resume
<1> QED BY <1>1 DEF ClientTypeOK, Resume

\* A call that tries again or gives up is still a call.
LEMMA NextAttempt ==
  ASSUME ClientTypeOK, NEW q \in Query, NEW count \in {"rate", "transient"},
         query' \in {Again(q, count), GiveUp(q)}
  PROVE  /\ query' \in [Query -> QueryRecord]
         /\ query'[q].at \in {"token", "failed"}
         /\ \A r \in Query : r # q => query'[r] = query[r]
<1>1. CASE query' = Again(q, count)
  BY <1>1 DEF ClientTypeOK, QueryRecord, QueryPlace, Again
<1>2. CASE query' = GiveUp(q)
  BY <1>2 DEF ClientTypeOK, QueryRecord, QueryPlace, GiveUp
<1> QED BY <1>1, <1>2

\* The invariant is inductive.
LEMMA ClientStep == ClientInv /\ [ClientNext]_clientVars => ClientInv'
<1> SUFFICES ASSUME ClientInv, [ClientNext]_clientVars PROVE ClientInv'
  OBVIOUS
<1> USE DEF ClientInv, service, provider
<1>1. CASE UNCHANGED clientVars
  BY <1>1 DEF clientVars, ClientTypeOK, EffectEnds, OneRefresh
<1>2. ASSUME NEW q \in Query, Issue(q) PROVE ClientInv'
  BY <1>2 DEF Issue, Fresh, ClientTypeOK, EffectEnds, OneRefresh, QueryRecord, QueryPlace
<1>3. ASSUME NEW q \in Query, GetToken(q) PROVE ClientInv'
  <2>1. ClientTypeOK' /\ EffectEnds'
    BY <1>3 DEF GetToken, ClientTypeOK, EffectEnds, QueryRecord, QueryPlace
  <2>2. OneRefresh'
    BY <1>3 DEF GetToken, Ask, OneRefresh
  <2> QED BY <2>1, <2>2
<1>4. ASSUME NEW q \in Query, Succeed(q) PROVE ClientInv'
  <2>1. effects[q] = 0
    BY <1>4 DEF Succeed, EffectEnds, ClientTypeOK
  <2>2. ClientTypeOK'
    BY <1>4, <2>1 DEF Succeed, ClientTypeOK, QueryRecord, QueryPlace
  <2>3. EffectEnds'
    BY <1>4 DEF Succeed, ClientTypeOK, EffectEnds
  <2> QED BY <1>4, <2>2, <2>3 DEF Succeed, OneRefresh
<1>5. ASSUME NEW q \in Query, Unauthorized(q) PROVE ClientInv'
  <2>1. ClientTypeOK' /\ EffectEnds'
    BY <1>5 DEF Unauthorized, GiveUp, ClientTypeOK, EffectEnds, QueryRecord, QueryPlace
  <2> QED BY <1>5, <2>1 DEF Unauthorized, OneRefresh
<1>6. ASSUME NEW q \in Query, RateLimited(q) PROVE ClientInv'
  <2>1. /\ query' \in [Query -> QueryRecord]
        /\ query'[q].at \in {"token", "failed"}
        /\ \A r \in Query : r # q => query'[r] = query[r]
    BY <1>6, NextAttempt DEF RateLimited
  <2>2. effects[q] # 1
    BY <1>6 DEF RateLimited, EffectEnds
  <2> QED BY <1>6, <2>1, <2>2 DEF RateLimited, ClientTypeOK, EffectEnds, OneRefresh
<1>7. ASSUME NEW q \in Query, Reject(q) PROVE ClientInv'
  <2>1. ClientTypeOK' /\ EffectEnds'
    BY <1>7 DEF Reject, GiveUp, ClientTypeOK, EffectEnds, QueryRecord, QueryPlace
  <2> QED BY <1>7, <2>1 DEF Reject, OneRefresh
<1>8. ASSUME NEW q \in Query, Rest(q) PROVE ClientInv'
  <2>1. ClientTypeOK'
    BY <1>8, IdleType DEF Rest, ClientTypeOK
  <2>2. effects' = [effects EXCEPT ![q] = 0] /\ \A r \in Query : r # q => query'[r] = query[r]
    BY <1>8 DEF Rest, ClientTypeOK
  <2>3. EffectEnds'
    BY <2>2 DEF ClientTypeOK, EffectEnds
  <2> QED BY <1>8, <2>1, <2>3 DEF Rest, OneRefresh
<1>9. ASSUME NEW q \in Query, NEW effect \in BOOLEAN, Falter(q, effect) PROVE ClientInv'
  <2>1. effects[q] = 0
    BY <1>9 DEF Falter, EffectEnds, ClientTypeOK
  <2>2. query' \in {Again(q, "transient"), GiveUp(q)} /\ (effect => query' = GiveUp(q))
    BY <1>9 DEF Falter, RetryRead
  <2>3. /\ query' \in [Query -> QueryRecord]
        /\ \A r \in Query : r # q => query'[r] = query[r]
    BY <2>2, NextAttempt
  <2>4. effect => query'[q].at = "failed"
    BY <2>2 DEF GiveUp, ClientTypeOK, QueryRecord
  <2>5. effects' \in [Query -> {0, 1}] /\ (effects'[q] = 1 => effect)
    BY <1>9, <2>1 DEF Falter, ClientTypeOK
  <2>6. \A r \in Query : r # q => effects'[r] = effects[r]
    BY <1>9 DEF Falter, ClientTypeOK
  <2>7. EffectEnds'
    BY <2>3, <2>4, <2>5, <2>6 DEF EffectEnds
  <2> QED BY <1>9, <2>3, <2>5, <2>7 DEF Falter, ClientTypeOK, OneRefresh
<1>10. ASSUME NEW lost \in BOOLEAN, Grant(lost) PROVE ClientInv'
  <2>1. PICK token \in Nat : Resume(token)
    BY <1>10 DEF Grant, ClientTypeOK
  <2>2. ClientTypeOK' /\ EffectEnds'
    BY <1>10, <2>1, ResumeKeeps DEF Grant, ClientTypeOK, EffectEnds
  <2>3. asking' = <<>>
    BY <1>10, SMTT(90) DEF Grant, OneRefresh
  <2>4. grantLost' \/ refresh' = chain'
    BY <1>10 DEF Grant
  <2>5. refused' => grantLost'
    BY <1>10, Zenon DEF Grant, OneRefresh
  <2> QED BY <2>2, <2>3, <2>4, <2>5 DEF OneRefresh
<1>11. CASE Refuse
  <2>1. ClientTypeOK' /\ EffectEnds'
    BY <1>11, ResumeKeeps DEF Refuse, ClientTypeOK, EffectEnds
  <2>2. asking' = <<>> /\ refresh # chain
    <3>1. asking = <<refresh>>
      BY <1>11, Zenon DEF Refuse, OneRefresh
    <3>2. Head(asking) # chain /\ asking' = Tail(asking)
      BY <1>11, Zenon DEF Refuse
    <3> QED BY <3>1, <3>2
  <2>3. grantLost
    BY <2>2, Zenon DEF OneRefresh
  <2> QED BY <1>11, <2>1, <2>2, <2>3 DEF Refuse, OneRefresh
<1>12. CASE AskFails
  <2>1. ClientTypeOK' /\ EffectEnds'
    BY <1>12, ResumeKeeps DEF AskFails, ClientTypeOK, EffectEnds
  <2>2. asking' = <<>>
    BY <1>12, SMTT(90) DEF AskFails, OneRefresh
  <2> QED BY <1>12, <2>1, <2>2 DEF AskFails, OneRefresh
<1>13. CASE Expire \/ Withdraw
  BY <1>13 DEF Expire, Withdraw, ClientTypeOK, EffectEnds, OneRefresh
<1> QED
  BY <1>1, <1>2, <1>3, <1>4, <1>5, <1>6, <1>7, <1>8, <1>9, <1>10, <1>11, <1>12, <1>13
     DEF ClientNext

\* No write takes effect twice and no refresh token is presented after it was
\* used up, however many calls overlap and retry: the calls share one refresh,
\* and a write that may have taken effect is not sent again
\* (FamilySearchAdapter.ts:308, tokenProvider.ts:92).
THEOREM SpentOnce == ClientSpec => []NothingSpentTwice
<1>1. ClientInit => ClientInv
  <2> SUFFICES ASSUME ClientInit PROVE ClientInv
    OBVIOUS
  <2>1. query \in [Query -> QueryRecord] /\ effects \in [Query -> {0, 1}]
    BY IdleType DEF ClientInit
  <2>2. access = 1 /\ refresh = 1 /\ granted = 1 /\ valid = 1 /\ chain = 1 /\ asking = <<>>
    BY DEF ClientInit
  <2>3. grantLost = FALSE /\ refused = FALSE
    BY DEF ClientInit
  <2>4. EffectEnds
    BY DEF ClientInit, EffectEnds
  <2> QED BY <2>1, <2>2, <2>3, <2>4 DEF ClientInv, ClientTypeOK, OneRefresh
<1>2. ClientInv => NothingSpentTwice
  BY DEF ClientInv, ClientTypeOK, OneRefresh, NothingSpentTwice
<1> QED
  BY <1>1, <1>2, ClientStep, PTL DEF ClientSpec

-----------------------------------------------------------------------------
(* The ledger, for any terminals, batches and edits.                       *)

\* An apply run in progress, or none.
Shaped(s) == "pc" \in DOMAIN s /\ (s.pc # "idle" => {"todo", "seen", "made"} \subseteq DOMAIN s)

KeyOn(r) == KeyOf(r.op, r.reference)
Checked == {t \in Terminal : session[t].pc = "checked"}

SessionsShaped == DOMAIN session = Terminal /\ \A t \in Terminal : Shaped(session[t])

\* Apart from the orders of hazy, what is on its way or has arrived has its intent, a
\* terminal past the check holds a key that nobody has posted or checked, and of one key
\* there is one request, which has not been there before.
OneAttempt ==
  /\ \A r \in wire : r.from \in Terminal /\ KeyOn(r) \in intents \cup hazy
  /\ landed \subseteq intents \cup hazy
  /\ \A t \in Checked : CurrentKey(t) \notin intents \/ CurrentKey(t) \in hazy
  /\ \A t, u \in Checked : t # u /\ CurrentKey(t) = CurrentKey(u) => CurrentKey(t) \in hazy
  /\ \A r, q \in wire : KeyOn(r) = KeyOn(q) /\ r # q => KeyOn(r) \in hazy
  /\ \A r \in wire : KeyOn(r) \in landed => KeyOn(r) \in hazy

LedgerInv == SessionsShaped /\ OneAttempt /\ twice \subseteq hazy

\* A run stays the same run, with the same operation, when only its place changes.
LEMMA PlaceChanges ==
  ASSUME NEW s, Shaped(s), s.pc # "idle", NEW step, NEW e, e = [s EXCEPT !.pc = step]
  PROVE  /\ Shaped(e) /\ e.pc = step /\ e.todo = s.todo /\ e.made = s.made
BY DEF Shaped

\* A run that goes on, or ends, has not passed the check of its next operation.
LEMMA Advanced ==
  ASSUME NEW s, Shaped(s), s.pc # "idle" PROVE Shaped(Advance(s)) /\ Advance(s).pc \in {"idle", "next"}
<1>1. CASE Tail(s.todo) = <<>>
  BY <1>1 DEF Advance, Shaped, Idle
<1>2. CASE Tail(s.todo) # <<>>
  <2>1. PICK rest : rest = Tail(s.todo)
    OBVIOUS
  <2>2. Advance(s) = [s EXCEPT !.pc = "next", !.todo = rest]
    BY <1>2, <2>1 DEF Advance, Shaped
  <2> QED BY <2>2 DEF Shaped
<1> QED BY <1>1, <1>2

\* A step of one terminal: the others keep their runs.
OnlyRun(t, s) == session' = [session EXCEPT ![t] = s]

\* The runs of the others, and the keys they have checked, are not touched by it.
LEMMA RunsStay ==
  ASSUME SessionsShaped, NEW t \in Terminal, NEW s, Shaped(s), OnlyRun(t, s)
  PROVE  /\ SessionsShaped' /\ session'[t] = s
         /\ \A u \in Terminal : u # t => session'[u] = session[u]
         /\ \A u \in Terminal : u # t => (CurrentKey(u)' = CurrentKey(u) /\ (u \in Checked' <=> u \in Checked))
<1>1. /\ DOMAIN session' = Terminal /\ session'[t] = s
      /\ \A u \in Terminal : u # t => session'[u] = session[u]
  BY DEF SessionsShaped, OnlyRun
<1>2. \A u \in Terminal : u # t => CurrentKey(u)' = CurrentKey(u) /\ (u \in Checked' <=> u \in Checked)
  BY <1>1 DEF CurrentKey, Current, ReferenceOf, Checked
<1> QED BY <1>1, <1>2 DEF SessionsShaped

\* Nobody gets past the check, or past it with another key.
ChecksStay == \A u \in Checked' : u \in Checked /\ CurrentKey(u)' = CurrentKey(u)

\* A terminal that stays outside the check, or where it was.
LEMMA NoneChecked ==
  ASSUME SessionsShaped, NEW t \in Terminal, NEW s, Shaped(s), OnlyRun(t, s),
         s.pc # "checked" \/ s = session[t]
  PROVE  SessionsShaped' /\ ChecksStay
<1>1. SessionsShaped' /\ session'[t] = s
  BY RunsStay
<1>2. CASE s.pc # "checked"
  <2>1. t \notin Checked'
    BY <1>1, <1>2 DEF Checked
  <2>2. \A u \in Checked' : u \in Terminal
    BY DEF Checked
  <2> QED BY <1>1, <2>1, <2>2, RunsStay DEF ChecksStay
<1>3. CASE s = session[t]
  <2>1. CurrentKey(t)' = CurrentKey(t) /\ (t \in Checked' <=> t \in Checked)
    BY <1>1, <1>3 DEF CurrentKey, Current, ReferenceOf, Checked
  <2>2. \A u \in Checked' : u \in Terminal
    BY DEF Checked
  <2> QED BY <1>1, <2>1, <2>2, RunsStay DEF ChecksStay
<1> QED BY <1>2, <1>3

\* A terminal that does not get past the check leaves the rest as it is.
LEMMA OutsideCheck ==
  ASSUME LedgerInv, SessionsShaped', ChecksStay, UNCHANGED <<landed, twice, intents, wire, hazy>>
  PROVE  LedgerInv'
<1>1. \A u \in Checked' : CurrentKey(u)' \notin intents \/ CurrentKey(u)' \in hazy
  BY DEF LedgerInv, OneAttempt, ChecksStay
<1>2. \A u, w \in Checked' : u # w /\ CurrentKey(u)' = CurrentKey(w)' => CurrentKey(u)' \in hazy
  BY DEF LedgerInv, OneAttempt, ChecksStay
<1>3. \A r : KeyOn(r)' = KeyOn(r)
  BY DEF KeyOn
<1> QED BY <1>1, <1>2, <1>3 DEF LedgerInv, OneAttempt

\* A second terminal that gets past the check with the same key is one of the two orders.
LEMMA ApproveStep ==
  ASSUME LedgerInv, NEW t \in Terminal, Approve(t) PROVE LedgerInv'
<1>1. PICK s : s = session[t]
  OBVIOUS
<1>2. Shaped(s) /\ s.pc = "asked" /\ UNCHANGED <<landed, twice, intents, wire>>
  BY <1>1 DEF Approve, LedgerInv, SessionsShaped, remote, ledger
<1>3. hazy \subseteq hazy'
  BY DEF Approve
<1>4. \A r : KeyOn(r)' = KeyOn(r)
  BY DEF KeyOn
<1>5. CASE Refused(CurrentKey(t))
  <2>1. OnlyRun(t, Idle) /\ Shaped(Idle) /\ Idle.pc # "checked"
    BY <1>5 DEF Approve, OnlyRun, Shaped, Idle
  <2>2. SessionsShaped' /\ ChecksStay
    BY <2>1, NoneChecked DEF LedgerInv
  <2> QED BY <1>2, <1>3, <1>4, <2>2 DEF LedgerInv, OneAttempt, ChecksStay
<1>6. CASE ~ Refused(CurrentKey(t))
  <2>1. PICK e : e = [s EXCEPT !.pc = "checked"]
    OBVIOUS
  <2>2. Shaped(e) /\ e.pc = "checked" /\ e.todo = s.todo /\ e.made = s.made
    BY <1>2, <2>1, PlaceChanges
  <2>3. OnlyRun(t, e)
    BY <1>1, <1>6, <2>1 DEF Approve, OnlyRun
  <2>4. SessionsShaped' /\ session'[t] = e
    BY <2>2, <2>3, RunsStay, SMTT(90) DEF LedgerInv
  <2>5. CurrentKey(t)' = CurrentKey(t)
    BY <1>1, <2>2, <2>4 DEF CurrentKey, Current, ReferenceOf
  <2>6. \A u \in Terminal : u # t => (CurrentKey(u)' = CurrentKey(u) /\ (u \in Checked' <=> u \in Checked))
    BY <2>2, <2>3, RunsStay DEF LedgerInv
  <2>7. \A u \in Checked' : u \in Terminal
    BY DEF Checked
  <2>8. CurrentKey(t) \notin intents
    BY <1>6 DEF Refused
  <2>9. \A u \in Checked' : CurrentKey(u)' \notin intents \/ CurrentKey(u)' \in hazy'
    BY <1>3, <2>5, <2>6, <2>7, <2>8 DEF LedgerInv, OneAttempt
  <2>10. ASSUME NEW u \in Checked, u # t, CurrentKey(u) = CurrentKey(t) PROVE CurrentKey(t) \in hazy'
    BY <2>10 DEF Approve, Checked
  <2>11. \A u, w \in Checked' : u # w /\ CurrentKey(u)' = CurrentKey(w)' => CurrentKey(u)' \in hazy'
    BY <1>3, <2>5, <2>6, <2>7, <2>10 DEF LedgerInv, OneAttempt
  <2> QED BY <1>2, <1>3, <1>4, <2>4, <2>9, <2>11 DEF LedgerInv, OneAttempt
<1> QED BY <1>5, <1>6

\* The intent is there before the request, which is the only one of its key.
LEMMA IntentFirst ==
  ASSUME LedgerInv, NEW t \in Terminal, Post(t) PROVE LedgerInv'
<1>1. PICK s : s = session[t]
  OBVIOUS
<1>2. PICK k : k = CurrentKey(t)
  OBVIOUS
<1>3. PICK q : q = Request(t)
  OBVIOUS
<1>4. Shaped(s) /\ s.pc = "checked" /\ t \in Checked
  BY <1>1 DEF Post, LedgerInv, SessionsShaped, Checked
<1>5. /\ intents' = intents \cup {k} /\ wire' = wire \cup {q} /\ UNCHANGED <<landed, twice, hazy>>
  BY <1>2, <1>3 DEF Post, remote
<1>6. KeyOn(q) = k /\ q.from = t
  BY <1>2, <1>3 DEF KeyOn, Request, CurrentKey
<1>7. PICK e : e = [s EXCEPT !.pc = "posting"]
  OBVIOUS
<1>8. Shaped(e) /\ e.pc = "posting" /\ OnlyRun(t, e)
  BY <1>1, <1>4, <1>7, PlaceChanges DEF Post, OnlyRun, LedgerInv, SessionsShaped
<1>9. SessionsShaped' /\ ChecksStay /\ t \notin Checked'
  BY <1>8, NoneChecked, RunsStay DEF LedgerInv, Checked
<1>10. \A r : KeyOn(r)' = KeyOn(r)
  BY DEF KeyOn
<1>11. k \in hazy \/ (k \notin landed /\ \A r \in wire : KeyOn(r) # k)
  BY <1>2, <1>4 DEF LedgerInv, OneAttempt
<1>12. \A u \in Checked' : CurrentKey(u)' \notin intents' \/ CurrentKey(u)' \in hazy
  BY <1>2, <1>4, <1>5, <1>9 DEF LedgerInv, OneAttempt, ChecksStay
<1>13. \A u, w \in Checked' : u # w /\ CurrentKey(u)' = CurrentKey(w)' => CurrentKey(u)' \in hazy
  BY <1>9 DEF LedgerInv, OneAttempt, ChecksStay
<1> QED BY <1>5, <1>6, <1>9, <1>10, <1>11, <1>12, <1>13 DEF LedgerInv, OneAttempt

\* What arrives was not there before, or is of the orders of hazy.
LEMMA LandStep ==
  ASSUME LedgerInv, NEW r \in wire, NEW lost \in BOOLEAN, Land(r, lost) PROVE LedgerInv'
<1>1. PICK t \in Terminal : t = r.from
  BY DEF LedgerInv, OneAttempt
<1>2. PICK s : s = session[t]
  OBVIOUS
<1>3. /\ wire' = wire \ {r} /\ landed' = landed \cup {KeyOn(r)} /\ UNCHANGED <<intents, hazy>>
      /\ twice' = IF KeyOn(r) \in landed THEN twice \cup {KeyOn(r)} ELSE twice
  BY DEF Land, Effect, KeyOn, ledger
<1>4. Shaped(s)
  BY <1>2 DEF LedgerInv, SessionsShaped
<1>5. SessionsShaped' /\ ChecksStay
  <2>1. CASE ~ Waiting(r)
    <3>1. OnlyRun(t, s)
      BY <1>1, <1>2, <2>1 DEF Land, OnlyRun
    <3> QED BY <1>2, <1>4, <3>1, NoneChecked DEF LedgerInv
  <2>2. CASE Waiting(r) /\ lost
    <3>1. OnlyRun(t, Idle) /\ Shaped(Idle) /\ Idle.pc # "checked"
      BY <1>1, <2>2 DEF Land, OnlyRun, Shaped, Idle
    <3> QED BY <3>1, NoneChecked DEF LedgerInv
  <2>3. CASE Waiting(r) /\ ~ lost
    <3>1. s.pc = "posting"
      BY <1>1, <1>2, <2>3 DEF Waiting
    <3>2. PICK e : e = Informed(s, r)
      OBVIOUS
    <3>3. OnlyRun(t, e)
      BY <1>1, <1>2, <2>3, <3>2 DEF Land, OnlyRun
    <3>4. Shaped(e) /\ e.pc = "answered"
      <4>1. PICK seen, made : e = [s EXCEPT !.pc = "answered", !.seen = seen, !.made = made]
        BY <3>2 DEF Informed
      <4> QED BY <1>4, <3>1, <4>1 DEF Shaped
    <3> QED BY <3>3, <3>4, NoneChecked DEF LedgerInv
  <2> QED BY <2>1, <2>2, <2>3
<1>6. \A q : KeyOn(q)' = KeyOn(q)
  BY DEF KeyOn
<1>7. \A u \in Checked' : CurrentKey(u)' \notin intents \/ CurrentKey(u)' \in hazy
  BY <1>5 DEF LedgerInv, OneAttempt, ChecksStay
<1>8. \A u, w \in Checked' : u # w /\ CurrentKey(u)' = CurrentKey(w)' => CurrentKey(u)' \in hazy
  BY <1>5 DEF LedgerInv, OneAttempt, ChecksStay
<1>9. KeyOn(r) \in landed => KeyOn(r) \in hazy
  BY DEF LedgerInv, OneAttempt
<1>10. \A q \in wire' : KeyOn(q) \in landed' => KeyOn(q) \in hazy
  BY <1>3 DEF LedgerInv, OneAttempt
<1>11. OneAttempt'
  BY <1>3, <1>6, <1>7, <1>8, <1>10 DEF LedgerInv, OneAttempt
<1> QED BY <1>3, <1>5, <1>9, <1>11 DEF LedgerInv

\* A line that is deleted while its request is on the way is the other order.
LEMMA FixStep ==
  ASSUME LedgerInv, NEW key, FixLedger(key) PROVE LedgerInv'
<1>1. /\ key \notin landed /\ intents' = intents \ {key} /\ UNCHANGED <<landed, twice, session, wire>>
      /\ hazy \subseteq hazy' /\ \A r \in wire : KeyOn(r) = key => key \in hazy'
  BY DEF FixLedger, KeyOn, remote
<1>2. \A r : KeyOn(r)' = KeyOn(r)
  BY DEF KeyOn
<1>3. Checked' = Checked /\ \A t : CurrentKey(t)' = CurrentKey(t)
  BY <1>1 DEF Checked, CurrentKey, Current, ReferenceOf
<1>4. SessionsShaped'
  BY <1>1 DEF LedgerInv, SessionsShaped
<1> QED BY <1>1, <1>2, <1>3, <1>4 DEF LedgerInv, OneAttempt

(* The ledger stands between every post and its repetition: what took effect  *)
(* has its intent, and nothing takes effect twice but in the two orders of    *)
(* hazy (cli/apply.ts:256-267, 380), for any terminals, batches and edits and *)
(* whatever plan buildPlan makes of them.                                     *)
THEOREM LedgerKept == ApplySpec => []LedgerInv
<1>1. ApplyInit => LedgerInv
  <2> SUFFICES ASSUME ApplyInit PROVE LedgerInv
    OBVIOUS
  <2>1. SessionsShaped
    BY DEF ApplyInit, SessionsShaped, Shaped, Idle
  <2>2. Checked = {}
    BY DEF ApplyInit, Checked, Idle
  <2> QED BY <2>1, <2>2 DEF ApplyInit, LedgerInv, OneAttempt
<1>2. LedgerInv /\ [ApplyNext]_applyVars => LedgerInv'
  <2> SUFFICES ASSUME LedgerInv, [ApplyNext]_applyVars PROVE LedgerInv'
    OBVIOUS
  <2>1. ASSUME UNCHANGED <<session, landed, twice, intents, wire, hazy>> PROVE LedgerInv'
    <3>1. SessionsShaped'
      BY <2>1 DEF LedgerInv, SessionsShaped
    <3>2. ChecksStay
      BY <2>1 DEF ChecksStay, Checked, CurrentKey, Current, ReferenceOf
    <3> QED BY <2>1, <3>1, <3>2, OutsideCheck
  <2>2. ASSUME NEW t \in Terminal, NEW s, Shaped(s), OnlyRun(t, s), s.pc # "checked",
               UNCHANGED <<landed, twice, intents, wire, hazy>>
        PROVE  LedgerInv'
    <3>1. SessionsShaped' /\ ChecksStay
      BY <2>2, NoneChecked DEF LedgerInv
    <3> QED BY <2>2, <3>1, OutsideCheck
  <2>3. Shaped(Idle) /\ Idle.pc = "idle"
    BY DEF Shaped, Idle
  <2>4. CASE UNCHANGED applyVars
    BY <2>1, <2>4 DEF applyVars, remote, ledger
  <2>5. ASSUME NEW batch \in Batch, RunPlan(batch) PROVE LedgerInv'
    BY <2>1, <2>5 DEF RunPlan, remote, ledger
  <2>6. ASSUME NEW x \in Edit, OthersEdit(x) PROVE LedgerInv'
    BY <2>1, <2>6 DEF OthersEdit, ledger
  <2>7. ASSUME NEW t \in Terminal, NEW declared, StartApply(t, declared) PROVE LedgerInv'
    <3>1. PICK todo : session' = [session EXCEPT ![t] =
            IF todo = <<>> THEN Idle
            ELSE [pc |-> "next", todo |-> todo, seen |-> person.facts, made |-> <<>>]]
      BY <2>7 DEF StartApply
    <3>2. PICK s : s = IF todo = <<>> THEN Idle
                       ELSE [pc |-> "next", todo |-> todo, seen |-> person.facts, made |-> <<>>]
      OBVIOUS
    <3>3. OnlyRun(t, s)
      BY <3>1, <3>2 DEF OnlyRun
    <3>4. Shaped(s)
      <4>1. CASE todo = <<>>
        BY <2>3, <3>2, <4>1
      <4>2. CASE todo # <<>>
        BY <3>2, <4>2 DEF Shaped
      <4> QED BY <4>1, <4>2
    <3>5. s.pc # "checked"
      BY <2>3, <3>2
    <3> QED BY <2>2, <2>7, <3>3, <3>4, <3>5 DEF StartApply, remote, ledger
  <2>8. ASSUME NEW t \in Terminal, Consider(t) \/ Decline(t) \/ Complete(t) \/ Stop(t) PROVE LedgerInv'
    <3>1. PICK s : s = session[t]
      OBVIOUS
    <3>2. Shaped(s) /\ s.pc # "idle"
      BY <2>8, <3>1 DEF LedgerInv, SessionsShaped, Consider, Decline, Complete, Stop
    <3>3. Shaped(Advance(s)) /\ Advance(s).pc # "checked"
      BY <3>2, Advanced
    <3>4. UNCHANGED <<landed, twice, intents, wire, hazy>>
      BY <2>8 DEF Consider, Decline, Complete, Stop, remote, ledger
    <3>5. PICK e : e = [s EXCEPT !.pc = "asked"]
      OBVIOUS
    <3>6. Shaped(e) /\ e.pc = "asked"
      BY <3>2, <3>5, PlaceChanges
    <3>7. OnlyRun(t, Advance(s)) \/ OnlyRun(t, e) \/ OnlyRun(t, Idle)
      BY <2>8, <3>1, <3>5 DEF Consider, Decline, Complete, Stop, OnlyRun
    <3> QED BY <2>2, <2>3, <3>3, <3>4, <3>6, <3>7
  <2>9. ASSUME NEW r \in wire, Drop(r) PROVE LedgerInv'
    <3>1. PICK t \in Terminal : t = r.from
      BY DEF LedgerInv, OneAttempt
    <3>2. PICK s : s = IF Waiting(r) THEN Idle ELSE session[t]
      OBVIOUS
    <3>3. OnlyRun(t, s) /\ Shaped(s) /\ (s.pc # "checked" \/ s = session[t])
      BY <2>3, <2>9, <3>1, <3>2 DEF Drop, OnlyRun, LedgerInv, SessionsShaped
    <3>4. SessionsShaped' /\ ChecksStay
      BY <3>3, NoneChecked DEF LedgerInv
    <3>5. wire' \subseteq wire /\ UNCHANGED <<landed, twice, intents, hazy>>
      BY <2>9 DEF Drop, remote, ledger
    <3>6. \A q : KeyOn(q)' = KeyOn(q)
      BY DEF KeyOn
    <3>7. \A u \in Checked' : CurrentKey(u)' \notin intents \/ CurrentKey(u)' \in hazy
      BY <3>4 DEF LedgerInv, OneAttempt, ChecksStay
    <3>8. \A u, w \in Checked' : u # w /\ CurrentKey(u)' = CurrentKey(w)' => CurrentKey(u)' \in hazy
      BY <3>4 DEF LedgerInv, OneAttempt, ChecksStay
    <3> QED BY <3>4, <3>5, <3>6, <3>7, <3>8 DEF LedgerInv, OneAttempt
  <2> QED BY <2>4, <2>5, <2>6, <2>7, <2>8, <2>9, ApproveStep, IntentFirst, LandStep, FixStep
             DEF ApplyNext
<1> QED BY <1>1, <1>2, PTL DEF ApplySpec

-----------------------------------------------------------------------------
(* The plan and its runs, for any batches, edits and documents.            *)

IsList(s) == \E S : s \in Seq(S)

\* A list has its length, and its places are the numbers up to it.
LEMMA ListPlaces ==
  ASSUME NEW s, IsList(s)
  PROVE  Len(s) \in Nat /\ DOMAIN s = 1..Len(s)
BY DEF IsList

\* A function of places is a list.
LEMMA FunctionIsList ==
  ASSUME NEW n \in Nat, NEW f, DOMAIN f = 1..n, f = [i \in DOMAIN f |-> f[i]]
  PROVE  IsList(f)
<1>1. PICK S : S = {f[i] : i \in DOMAIN f}
  OBVIOUS
<1>2. f \in [1..n -> S]
  BY <1>1
<1>3. f \in Seq(S)
  BY <1>2
<1> QED BY <1>3 DEF IsList

\* What is picked of a list is a list.
LEMMA PickedList ==
  ASSUME NEW s, IsList(s), NEW places \in SUBSET DOMAIN s, NEW t, t = Picked(s, places)
  PROVE  /\ IsList(t)
         /\ \A j \in DOMAIN t : Nth(places, j) \in places /\ t[j] = s[Nth(places, j)]
         /\ \A i, j \in DOMAIN t : i < j => Nth(places, i) < Nth(places, j)
<1>1. PICK S : s \in Seq(S)
  BY DEF IsList
<1>2. /\ t \in Seq(S)
      /\ \A j \in DOMAIN t : Nth(places, j) \in places /\ t[j] = s[Nth(places, j)]
      /\ \A i, j \in DOMAIN t : i < j => Nth(places, i) < Nth(places, j)
  BY ONLY <1>1, places \in SUBSET DOMAIN s, t = Picked(s, places), PickedGives
<1> QED BY <1>2 DEF IsList

\* The tail of a list.
LEMMA TailGives ==
  ASSUME NEW s, IsList(s), s # <<>>, NEW t, t = Tail(s)
  PROVE  /\ IsList(t) /\ 1 \in DOMAIN s /\ Head(s) = s[1]
         /\ \A i \in DOMAIN t : i \in Nat /\ i >= 1 /\ i + 1 \in DOMAIN s /\ t[i] = s[i + 1]
<1>1. PICK S : s \in Seq(S)
  BY DEF IsList
<1>2. /\ Head(s) \in S /\ Tail(s) \in Seq(S) /\ Len(Tail(s)) = Len(s) - 1
      /\ \A i \in 1 .. Len(Tail(s)) : Tail(s)[i] = s[i + 1]
  BY ONLY <1>1, s # <<>>, HeadTailProperties
<1>3. Len(s) \in Nat /\ Len(s) >= 1 /\ DOMAIN s = 1..Len(s)
  <2>1. Len(s) \in Nat /\ DOMAIN s = 1..Len(s) /\ Len(Tail(s)) \in Nat
    BY <1>1, <1>2
  <2> QED BY <1>2, <2>1
<1>4. DOMAIN t = 1..(Len(s) - 1)
  BY <1>2
<1>5. Head(s) = s[1]
  BY <1>1
<1>6. \A i \in DOMAIN t : i \in Nat /\ i >= 1 /\ i + 1 \in DOMAIN s /\ t[i] = s[i + 1]
  BY <1>2, <1>3, <1>4
<1> QED BY <1>2, <1>3, <1>5, <1>6 DEF IsList

Joined(p, q, r) ==
  /\ IsList(r) /\ Len(p) \in Nat
  /\ \A i \in DOMAIN r : \/ i \in DOMAIN p /\ r[i] = p[i]
                         \/ i - Len(p) \in DOMAIN q /\ i \notin DOMAIN p /\ r[i] = q[i - Len(p)]
  /\ \A i \in DOMAIN r : i \in Int

\* Two lists one after the other.
LEMMA JoinGives ==
  ASSUME NEW p, IsList(p), NEW q, IsList(q), NEW r, r = p \o q
  PROVE  Joined(p, q, r)
<1>1. PICK P, Q : p \in Seq(P) /\ q \in Seq(Q)
  BY DEF IsList
<1>2. p \in Seq(P \cup Q) /\ q \in Seq(P \cup Q)
  BY <1>1
<1>3. /\ r \in Seq(P \cup Q) /\ Len(r) = Len(p) + Len(q)
      /\ \A i \in 1..(Len(p) + Len(q)) : r[i] = IF i <= Len(p) THEN p[i] ELSE q[i - Len(p)]
  BY ONLY <1>2, r = p \o q, ConcatProperties
<1>4. /\ Len(p) \in Nat /\ Len(q) \in Nat /\ DOMAIN p = 1..Len(p) /\ DOMAIN q = 1..Len(q)
      /\ DOMAIN r = 1..(Len(p) + Len(q))
  BY <1>2, <1>3
<1>5. ASSUME NEW i \in DOMAIN r
      PROVE  \/ i \in DOMAIN p /\ r[i] = p[i]
             \/ i - Len(p) \in DOMAIN q /\ i \notin DOMAIN p /\ r[i] = q[i - Len(p)]
  <2>1. i \in Int /\ 1 <= i /\ i <= Len(p) + Len(q)
    BY <1>4
  <2>2. CASE i <= Len(p)
    BY <1>3, <1>4, <2>1, <2>2
  <2>3. CASE ~ (i <= Len(p))
    <3>1. i - Len(p) \in 1..Len(q)
      BY <1>4, <2>1, <2>3
    <3>2. r[i] = q[i - Len(p)]
      BY <1>3, <1>4, <2>3
    <3>3. i \notin 1..Len(p)
      BY <1>4, <2>1, <2>3
    <3> QED BY <1>4, <3>1, <3>2, <3>3
  <2> QED BY <2>2, <2>3
<1>6. \A i \in DOMAIN r : i \in Int
  BY <1>4
<1> QED BY <1>3, <1>4, <1>5, <1>6 DEF IsList, Joined

-----------------------------------------------------------------------------
(* The plan.                                                               *)

OperationType == {"create", "attach", "note", "conclude"}

\* The operation adds a birth or a death.
Concludes(op) == op.type = "conclude" /\ op.lead.kind \in UniqueKind

Quiet(ops) == \A i \in DOMAIN ops : ops[i].type \in OperationType \ {"conclude"}

\* Operations that add a birth or a death only to those who have none, and one at most.
Sparing(ops, facts) ==
  \A i \in DOMAIN ops :
    /\ ops[i].type \in OperationType
    /\ Concludes(ops[i]) =>
         /\ \A x \in facts : x.kind # ops[i].lead.kind
         /\ \A j \in DOMAIN ops :
              Concludes(ops[j]) /\ ops[j].lead.kind = ops[i].lead.kind => i = j

\* Operations that conclude nothing, one list after another.
LEMMA QuietJoin ==
  ASSUME NEW p, IsList(p), Quiet(p), NEW q, IsList(q), Quiet(q)
  PROVE  IsList(p \o q) /\ Quiet(p \o q)
<1>1. PICK r : r = p \o q
  OBVIOUS
<1>0. Joined(p, q, r)
  BY ONLY <1>1, IsList(p), IsList(q), JoinGives
<1>2. /\ IsList(r)
      /\ \A i \in DOMAIN r : \/ i \in DOMAIN p /\ r[i] = p[i]
                             \/ i - Len(p) \in DOMAIN q /\ i \notin DOMAIN p /\ r[i] = q[i - Len(p)]
  BY <1>0 DEF Joined
<1>3. Quiet(r)
  BY <1>2 DEF Quiet
<1> QED BY <1>1, <1>2, <1>3

\* Conclusions after operations that conclude nothing.
LEMMA SparingJoin ==
  ASSUME NEW p, IsList(p), Quiet(p), NEW q, IsList(q), NEW facts, Sparing(q, facts)
  PROVE  IsList(p \o q) /\ Sparing(p \o q, facts)
<1>1. PICK r : r = p \o q
  OBVIOUS
<1>0. Joined(p, q, r)
  BY ONLY <1>1, IsList(p), IsList(q), JoinGives
<1>2. /\ IsList(r) /\ Len(p) \in Nat /\ \A i \in DOMAIN r : i \in Int
      /\ \A i \in DOMAIN r : \/ i \in DOMAIN p /\ r[i] = p[i]
                             \/ i - Len(p) \in DOMAIN q /\ i \notin DOMAIN p /\ r[i] = q[i - Len(p)]
  BY <1>0 DEF Joined
<1>3. \A i \in DOMAIN r : r[i].type \in OperationType
  BY <1>2 DEF Quiet, Sparing
<1>4. \A i \in DOMAIN r : Concludes(r[i]) => i - Len(p) \in DOMAIN q /\ r[i] = q[i - Len(p)]
  BY <1>2 DEF Quiet, Concludes
<1>5. ASSUME NEW i \in DOMAIN r, Concludes(r[i])
      PROVE  /\ \A x \in facts : x.kind # r[i].lead.kind
             /\ \A j \in DOMAIN r : Concludes(r[j]) /\ r[j].lead.kind = r[i].lead.kind => i = j
  <2>1. \A x \in facts : x.kind # r[i].lead.kind
    BY <1>4, <1>5 DEF Sparing
  <2>2. ASSUME NEW j \in DOMAIN r, Concludes(r[j]), r[j].lead.kind = r[i].lead.kind PROVE i = j
    <3>1. i - Len(p) = j - Len(p)
      BY <1>4, <1>5, <2>2 DEF Sparing
    <3> QED BY <1>2, <3>1
  <2> QED BY <2>1, <2>2
<1>6. Sparing(r, facts)
  BY <1>3, <1>5 DEF Sparing
<1> QED BY <1>1, <1>2, <1>6

\* So are some of them.
LEMMA PickedSpares ==
  ASSUME NEW ops, IsList(ops), NEW facts, Sparing(ops, facts), NEW places \in SUBSET DOMAIN ops,
         NEW t, t = Picked(ops, places)
  PROVE  IsList(t) /\ Sparing(t, facts)
<1>1. /\ IsList(t)
      /\ \A j \in DOMAIN t : Nth(places, j) \in places /\ t[j] = ops[Nth(places, j)]
      /\ \A i, j \in DOMAIN t : i < j => Nth(places, i) < Nth(places, j)
  BY PickedList
<1>2. DOMAIN t \subseteq Int /\ DOMAIN ops \subseteq Int
  BY <1>1, ListPlaces
<1>3. \A i, j \in DOMAIN t : Nth(places, i) = Nth(places, j) => i = j
  <2> SUFFICES ASSUME NEW i \in DOMAIN t, NEW j \in DOMAIN t, Nth(places, i) = Nth(places, j), i # j
               PROVE  FALSE
    OBVIOUS
  <2>1. i \in Int /\ j \in Int /\ Nth(places, i) \in Int
    BY <1>1, <1>2
  <2>2. i < j \/ j < i
    BY <2>1
  <2> QED BY <1>1, <2>1, <2>2
<1>4. \A i \in DOMAIN t : t[i].type \in OperationType
  BY <1>1 DEF Sparing
<1>5. ASSUME NEW i \in DOMAIN t, Concludes(t[i])
      PROVE  /\ \A x \in facts : x.kind # t[i].lead.kind
             /\ \A j \in DOMAIN t : Concludes(t[j]) /\ t[j].lead.kind = t[i].lead.kind => i = j
  BY <1>1, <1>3, <1>5 DEF Sparing
<1> QED BY <1>1, <1>4, <1>5 DEF Sparing

\* And the rest of them, when the first has added what it adds.
LEMMA TailSpares ==
  ASSUME NEW ops, IsList(ops), ops # <<>>, NEW facts, Sparing(ops, facts), NEW more,
         \A x \in more : x \in facts \/ (Head(ops).type = "conclude" /\ x.kind = Head(ops).lead.kind)
  PROVE  IsList(Tail(ops)) /\ Sparing(Tail(ops), more)
<1>1. PICK t : t = Tail(ops)
  OBVIOUS
<1>2. /\ IsList(t) /\ 1 \in DOMAIN ops /\ Head(ops) = ops[1]
      /\ \A i \in DOMAIN t : i \in Nat /\ i >= 1 /\ i + 1 \in DOMAIN ops /\ t[i] = ops[i + 1]
  BY <1>1, TailGives, ZenonT(90)
<1>3. \A i \in DOMAIN t : t[i].type \in OperationType
  BY <1>2 DEF Sparing
<1>4. ASSUME NEW i \in DOMAIN t, Concludes(t[i]), NEW x \in more PROVE x.kind # t[i].lead.kind
  <2>1. i + 1 # 1 /\ i + 1 \in DOMAIN ops /\ Concludes(ops[i + 1])
    BY <1>2, <1>4
  <2>2. CASE x \in facts
    BY <1>2, <2>1, <2>2 DEF Sparing
  <2>3. CASE ops[1].type = "conclude" /\ x.kind = ops[1].lead.kind
    <3> SUFFICES ASSUME ops[1].lead.kind = ops[i + 1].lead.kind PROVE FALSE
      BY <1>2, <2>3
    <3>1. Concludes(ops[1])
      BY <2>1, <2>3 DEF Concludes
    <3> QED BY <1>2, <2>1, <3>1 DEF Sparing
  <2> QED BY <1>2, <1>4, <2>2, <2>3
<1>5. ASSUME NEW i \in DOMAIN t, Concludes(t[i]), NEW j \in DOMAIN t, Concludes(t[j]),
             t[j].lead.kind = t[i].lead.kind
      PROVE  i = j
  <2>1. i + 1 = j + 1
    BY <1>2, <1>5 DEF Sparing
  <2> QED BY <1>2, <2>1
<1>6. Sparing(t, more)
  BY <1>3, <1>4, <1>5 DEF Sparing
<1> QED BY <1>1, <1>2, <1>6

\* Of a birth or a death that is absent there is none.
LEMMA AbsentGives ==
  ASSUME NEW doc, NEW f, StatusOf(doc, f) = "absent", f.kind \in UniqueKind
  PROVE  \A x \in doc.facts : x.kind # f.kind
<1>1. f.kind # "name_variant"
  BY DEF UniqueKind
<1>2. {x \in doc.facts : x.kind = f.kind} = {}
  BY <1>1 DEF StatusOf
<1> QED BY <1>2

\* Conclusions are of what is absent, and one of each unique kind.
LEMMA ConclusionsGive ==
  ASSUME NEW accepted, IsList(accepted), NEW doc, NEW found, found = Conclusions(accepted, doc)
  PROVE  /\ IsList(found)
         /\ \A n \in DOMAIN found : found[n].kind \in UniqueKind =>
              /\ \A x \in doc.facts : x.kind # found[n].kind
              /\ \A m \in DOMAIN found : found[m].kind = found[n].kind => m = n
<1>1. PICK all : all = {i \in DOMAIN accepted : StatusOf(doc, accepted[i]) = "absent"}
  OBVIOUS
<1>2. PICK absent : absent = Picked(accepted, all)
  OBVIOUS
<1>3. PICK firsts : firsts = {i \in DOMAIN absent : \A j \in 1..(i - 1) : ~ Shadows(absent[j], absent[i])}
  OBVIOUS
<1>4. found = Picked(absent, firsts)
  BY <1>1, <1>2, <1>3 DEF Conclusions
<1>5. all \in SUBSET DOMAIN accepted /\ firsts \in SUBSET DOMAIN absent
  BY <1>1, <1>3
<1>6. /\ IsList(absent)
      /\ \A j \in DOMAIN absent : Nth(all, j) \in all /\ absent[j] = accepted[Nth(all, j)]
  BY <1>2, <1>5, PickedList
<1>7. /\ IsList(found)
      /\ \A j \in DOMAIN found : Nth(firsts, j) \in firsts /\ found[j] = absent[Nth(firsts, j)]
      /\ \A i, j \in DOMAIN found : i < j => Nth(firsts, i) < Nth(firsts, j)
  BY <1>4, <1>5, <1>6, PickedList
<1>8. DOMAIN found \subseteq Int /\ DOMAIN absent = 1..Len(absent) /\ Len(absent) \in Nat
  BY <1>6, <1>7, ListPlaces
<1>9. \A i \in DOMAIN absent : StatusOf(doc, absent[i]) = "absent"
  BY <1>1, <1>6
<1>10. ASSUME NEW n \in DOMAIN found, found[n].kind \in UniqueKind, NEW x \in doc.facts
       PROVE  x.kind # found[n].kind
  <2>1. StatusOf(doc, found[n]) = "absent"
    BY <1>5, <1>7, <1>9
  <2> QED BY <1>10, <2>1, AbsentGives
<1>11. ASSUME NEW n \in DOMAIN found, NEW m \in DOMAIN found, n < m, found[m].kind = found[n].kind,
              found[m].kind \in UniqueKind
       PROVE  FALSE
  <2>1. PICK i \in firsts, k \in firsts : i = Nth(firsts, n) /\ k = Nth(firsts, m) /\ i < k
    BY <1>7, <1>11
  <2>2. i \in 1..Len(absent) /\ k \in 1..Len(absent) /\ found[n] = absent[i] /\ found[m] = absent[k]
    BY <1>5, <1>7, <1>8, <2>1
  <2>3. i \in 1..(k - 1)
    BY <1>8, <2>1, <2>2
  <2>4. ~ Shadows(absent[i], absent[k])
    BY <1>3, <2>1, <2>3
  <2> QED BY <1>11, <2>2, <2>4 DEF Shadows
<1>12. ASSUME NEW n \in DOMAIN found, found[n].kind \in UniqueKind, NEW m \in DOMAIN found,
              found[m].kind = found[n].kind
       PROVE  m = n
  <2>1. m \in Int /\ n \in Int
    BY <1>8
  <2>2. ~ (n < m) /\ ~ (m < n)
    BY <1>11, <1>12
  <2> QED BY <2>1, <2>2
<1> QED BY <1>7, <1>10, <1>12

\* Operations that are not conclusions.
LEMMA QuietParts ==
  ASSUME NEW fs, IsList(fs), NEW ops, DOMAIN ops = DOMAIN fs, ops = [n \in DOMAIN ops |-> ops[n]],
         \A n \in DOMAIN ops : ops[n].type \in OperationType \ {"conclude"}
  PROVE  IsList(ops) /\ Quiet(ops)
<1>1. Len(fs) \in Nat /\ DOMAIN ops = 1..Len(fs)
  BY ListPlaces
<1>2. IsList(ops)
  BY ONLY <1>1, ops = [n \in DOMAIN ops |-> ops[n]], FunctionIsList
<1> QED BY <1>2 DEF Quiet

\* The operations of a plan.
LEMMA PlanGives ==
  ASSUME NEW batch, IsList(batch), NEW doc, NEW declared, NEW plan,
         plan = BuildPlan(batch, doc, declared, TRUE)
  PROVE  IsList(plan) /\ Sparing(plan, doc.facts)
<1>1. CASE doc.living
  <2>1. plan = <<>>
    BY <1>1 DEF BuildPlan
  <2>2. plan \in Seq({}) /\ Len(plan) = 0
    BY ONLY <2>1, EmptySeq
  <2>3. DOMAIN plan = 1..0
    BY ONLY <2>2
  <2>4. \A i \in DOMAIN plan : FALSE
    BY ONLY <2>3
  <2>5. Sparing(plan, doc.facts)
    BY ONLY <2>4 DEF Sparing
  <2>6. IsList(plan)
    BY ONLY <2>2 DEF IsList
  <2> QED BY <2>5, <2>6
<1>2. CASE ~ doc.living
  <2>1. PICK accepted : accepted = Accepted(batch)
    OBVIOUS
  <2>2. IsList(accepted)
    BY <2>1, PickedList DEF Accepted
  <2>3. PICK leads : leads = Leads(accepted)
    OBVIOUS
  <2>4. IsList(leads)
    BY <2>2, <2>3, PickedList DEF Leads
  <2>5. PICK undescribed : undescribed = Picked(leads, {i \in DOMAIN leads :
                             ExistingDescription(doc, leads[i], declared) = NoDescription})
    OBVIOUS
  <2>6. PICK unattached : unattached = Picked(leads, {i \in DOMAIN leads :
                            ExistingDescription(doc, leads[i], declared) \notin DOMAIN doc.refs})
    OBVIOUS
  <2>7. IsList(undescribed) /\ IsList(unattached)
    BY <2>4, <2>5, <2>6, PickedList
  <2>8. PICK unnoted, found : unnoted = Unnoted(accepted, doc) /\ found = Conclusions(accepted, doc)
    OBVIOUS
  <2>9. IsList(unnoted)
    BY <2>2, <2>8, PickedList DEF Unnoted
  <2>10. PICK creations : creations = [n \in DOMAIN undescribed |->
            Operation("create", GroupIds(accepted, undescribed[n]), undescribed[n], NoDescription)]
    OBVIOUS
  <2>11. PICK attachments : attachments = [n \in DOMAIN unattached |->
            Operation("attach", GroupIds(accepted, unattached[n]), unattached[n],
                      ExistingDescription(doc, unattached[n], declared))]
    OBVIOUS
  <2>12. PICK notes, conclusions : notes = Alone("note", unnoted) /\ conclusions = Alone("conclude", found)
    OBVIOUS
  <2>13. plan = creations \o attachments \o notes \o conclusions
    BY <1>2, <2>1, <2>3, <2>5, <2>6, <2>8, <2>10, <2>11, <2>12, ZenonT(90) DEF BuildPlan
  <2>14. IsList(creations) /\ Quiet(creations)
    <3>1. /\ DOMAIN creations = DOMAIN undescribed /\ creations = [n \in DOMAIN creations |-> creations[n]]
          /\ \A n \in DOMAIN creations : creations[n].type \in OperationType \ {"conclude"}
      BY <2>10 DEF Operation, OperationType
    <3> QED BY ONLY <2>7, <3>1, QuietParts
  <2>15. IsList(attachments) /\ Quiet(attachments)
    <3>1. /\ DOMAIN attachments = DOMAIN unattached
          /\ attachments = [n \in DOMAIN attachments |-> attachments[n]]
          /\ \A n \in DOMAIN attachments : attachments[n].type \in OperationType \ {"conclude"}
      BY <2>11 DEF Operation, OperationType
    <3> QED BY ONLY <2>7, <3>1, QuietParts
  <2>16. IsList(notes) /\ Quiet(notes)
    <3>1. /\ DOMAIN notes = DOMAIN unnoted /\ notes = [n \in DOMAIN notes |-> notes[n]]
          /\ \A n \in DOMAIN notes : notes[n].type \in OperationType \ {"conclude"}
      BY <2>12 DEF Alone, Operation, OperationType
    <3> QED BY ONLY <2>9, <3>1, QuietParts
  <2>17. IsList(conclusions) /\ Sparing(conclusions, doc.facts)
    <3>1. /\ IsList(found)
          /\ \A n \in DOMAIN found : found[n].kind \in UniqueKind =>
               /\ \A x \in doc.facts : x.kind # found[n].kind
               /\ \A m \in DOMAIN found : found[m].kind = found[n].kind => m = n
      BY <2>2, <2>8, ConclusionsGive, SMTT(90)
    <3>2. /\ DOMAIN conclusions = DOMAIN found /\ conclusions = [n \in DOMAIN conclusions |-> conclusions[n]]
          /\ \A n \in DOMAIN conclusions : conclusions[n].type = "conclude" /\ conclusions[n].lead = found[n]
      BY <2>12 DEF Alone, Operation
    <3>3. Len(found) \in Nat /\ DOMAIN conclusions = 1..Len(found)
      BY <3>1, <3>2, ListPlaces
    <3>4. IsList(conclusions)
      BY ONLY <3>2, <3>3, FunctionIsList
    <3>5. Sparing(conclusions, doc.facts)
      BY <3>1, <3>2 DEF Sparing, Concludes, OperationType
    <3> QED BY <3>4, <3>5
  <2>18. IsList(creations \o attachments) /\ Quiet(creations \o attachments)
    BY <2>14, <2>15, QuietJoin
  <2>19. IsList(creations \o attachments \o notes) /\ Quiet(creations \o attachments \o notes)
    BY <2>16, <2>18, QuietJoin
  <2> QED BY <2>13, <2>17, <2>19, SparingJoin
<1> QED BY <1>1, <1>2

-----------------------------------------------------------------------------
(* The runs.                                                               *)

OnKind(key, kind) == key[1] = "conclude" /\ key[2] = kind

\* What a run has still to do spares the person it has seen.
Planned(s) ==
  s.pc # "idle" =>
    /\ IsList(s.todo) /\ s.todo # <<>>
    /\ IF s.pc = "answered" THEN Sparing(Tail(s.todo), s.seen) ELSE Sparing(s.todo, s.seen)

Spares(r) ==
  /\ r.op.type \in OperationType
  /\ Concludes(r.op) => \A x \in r.seen : x.kind # r.op.lead.kind

OnePosted ==
  /\ \A key \in landed : \A kind \in UniqueKind :
       OnKind(key, kind) => \E x \in person.facts : x.kind = kind
  /\ ~ overtaken => \A kind \in UniqueKind : \A key, other \in landed :
       OnKind(key, kind) /\ OnKind(other, kind) => key = other

\* What a run, and what is on its way, adds of a unique kind was not there when the run began;
\* what has been added is there.
KindInv ==
  /\ IsList(file.batch) /\ "facts" \in DOMAIN person
  /\ \A t \in Terminal : Planned(session[t])
  /\ \A r \in wire : Spares(r)
  /\ OnePosted

\* The key of an operation tells what it adds.
LEMMA KeyTells ==
  ASSUME NEW op, op.type \in OperationType, NEW reference, NEW kind \in UniqueKind,
         OnKind(KeyOf(op, reference), kind)
  PROVE  Concludes(op) /\ op.lead.kind = kind
<1>1. PICK key : key = KeyOf(op, reference)
  OBVIOUS
<1>2. CASE op.type = "create"
  <2>1. key = <<"create", op.lead.url>>
    BY <1>1, <1>2 DEF KeyOf
  <2> QED BY <1>1, <2>1 DEF OnKind
<1>3. CASE op.type = "attach"
  <2>1. key = <<"attach", reference>>
    BY <1>1, <1>3 DEF KeyOf
  <2> QED BY <1>1, <2>1 DEF OnKind
<1>4. CASE op.type = "note"
  <2>1. key = <<"note", op.lead.id>>
    BY <1>1, <1>4 DEF KeyOf
  <2> QED BY <1>1, <2>1 DEF OnKind
<1>5. CASE op.type = "conclude"
  <2>1. PICK target : key = <<"conclude", op.lead.kind, target>>
    BY <1>1, <1>5 DEF KeyOf
  <2> QED BY <1>1, <1>5, <2>1 DEF OnKind, Concludes
<1> QED BY <1>2, <1>3, <1>4, <1>5 DEF OperationType

\* A run that goes on, or ends.
LEMMA AdvancePlanned ==
  ASSUME NEW s, Shaped(s), s.pc # "idle", Planned(s) PROVE Planned(Advance(s))
<1>1. CASE Tail(s.todo) = <<>>
  BY <1>1 DEF Advance, Idle, Planned
<1>2. CASE Tail(s.todo) # <<>>
  <2>1. PICK rest : rest = Tail(s.todo)
    OBVIOUS
  <2>2. PICK e : e = [s EXCEPT !.pc = "next", !.todo = rest]
    OBVIOUS
  <2>3. Advance(s) = e
    BY <1>2, <2>1, <2>2 DEF Advance, Shaped
  <2>4. e.pc = "next" /\ e.todo = rest /\ e.seen = s.seen
    BY <2>2 DEF Shaped
  <2>5. IsList(s.todo) /\ s.todo # <<>>
    BY DEF Planned
  <2>6. IsList(rest) /\ Sparing(rest, s.seen)
    <3>1. CASE s.pc = "answered"
      BY <2>1, <2>5, <3>1, TailGives DEF Planned
    <3>2. CASE s.pc # "answered"
      <4>1. Sparing(s.todo, s.seen)
        BY <3>2 DEF Planned
      <4> QED BY <2>1, <2>5, <4>1, TailSpares
    <3> QED BY <3>1, <3>2
  <2> QED BY <1>2, <2>1, <2>3, <2>4, <2>6 DEF Planned
<1> QED BY <1>1, <1>2

\* A step of one terminal that only looks.
LEMMA LooksOnly ==
  ASSUME KindInv, SessionsShaped, NEW t \in Terminal, NEW s, Shaped(s), Planned(s), OnlyRun(t, s),
         IsList(file.batch)', \A r \in wire' : Spares(r), UNCHANGED <<person, landed, overtaken>>
  PROVE  KindInv'
<1>1. session'[t] = s /\ \A u \in Terminal : u # t => session'[u] = session[u]
  BY RunsStay
<1>2. \A u \in Terminal : Planned(session'[u])
  BY <1>1 DEF KindInv
<1>3. \A r \in wire' : Spares(r)'
  BY DEF Spares
<1>4. OnePosted'
  BY DEF KindInv, OnePosted
<1>5. \A u \in Terminal : Planned(session[u])'
  BY <1>2 DEF Planned
<1> QED BY <1>3, <1>4, <1>5 DEF KindInv

\* A run begins: the plan is made for the person it has seen.
LEMMA RunBegins ==
  ASSUME KindInv, SessionsShaped, NEW t \in Terminal, NEW declared, StartApply(t, declared)
  PROVE  KindInv'
<1>1. PICK fresh : fresh = BuildPlan(file.batch, person, declared, TRUE)
  OBVIOUS
<1>2. PICK todo : todo = Picked(fresh, {i \in DOMAIN fresh : Fingerprint(fresh[i]) \in file.prints})
  OBVIOUS
<1>3. PICK s : s = IF todo = <<>> THEN Idle
                   ELSE [pc |-> "next", todo |-> todo, seen |-> person.facts, made |-> <<>>]
  OBVIOUS
<1>4. OnlyRun(t, s) /\ UNCHANGED <<person, landed, overtaken, wire, file>>
  BY <1>1, <1>2, <1>3 DEF StartApply, OnlyRun, remote, ledger
<1>5. IsList(todo) /\ Sparing(todo, person.facts)
  <2>1. PICK doc, batch : doc = person /\ batch = file.batch
    OBVIOUS
  <2>2. IsList(fresh) /\ Sparing(fresh, doc.facts)
    BY <1>1, <2>1, PlanGives DEF KindInv
  <2> QED BY <1>2, <2>1, <2>2, PickedSpares
<1>6. Shaped(s) /\ Planned(s)
  <2>1. CASE todo = <<>>
    BY <1>3, <2>1 DEF Shaped, Planned, Idle
  <2>2. CASE todo # <<>>
    <3>1. s = [pc |-> "next", todo |-> todo, seen |-> person.facts, made |-> <<>>]
      BY <1>3, <2>2
    <3> QED BY <1>5, <2>2, <3>1 DEF Shaped, Planned
  <2> QED BY <2>1, <2>2
<1> QED BY <1>4, <1>6, LooksOnly DEF KindInv

\* A request leaves.
LEMMA RequestLeaves ==
  ASSUME KindInv, SessionsShaped, NEW t \in Terminal, Post(t)
  PROVE  KindInv'
<1>1. PICK s : s = session[t]
  OBVIOUS
<1>2. PICK q : q = Request(t)
  OBVIOUS
<1>3. Shaped(s) /\ Planned(s) /\ s.pc = "checked"
  BY <1>1 DEF Post, KindInv, SessionsShaped
<1>4. IsList(s.todo) /\ s.todo # <<>> /\ Sparing(s.todo, s.seen)
  BY <1>3 DEF Planned
<1>5. 1 \in DOMAIN s.todo /\ Head(s.todo) = s.todo[1]
  BY <1>4, TailGives
<1>6. q.op = s.todo[1] /\ q.seen = s.seen
  BY <1>1, <1>2, <1>5 DEF Request, Current
<1>7. Spares(q)
  BY <1>4, <1>5, <1>6 DEF Sparing, Spares
<1>8. PICK e : e = [s EXCEPT !.pc = "posting"]
  OBVIOUS
<1>9. e.pc = "posting" /\ e.todo = s.todo /\ e.seen = s.seen /\ Shaped(e)
  BY <1>3, <1>8 DEF Shaped
<1>10. Planned(e)
  BY <1>4, <1>9 DEF Planned
<1>11. OnlyRun(t, e) /\ wire' = wire \cup {q} /\ UNCHANGED <<person, landed, overtaken, file>>
  BY <1>1, <1>2, <1>8 DEF Post, OnlyRun, remote
<1> QED BY <1>7, <1>9, <1>10, <1>11, LooksOnly DEF KindInv

\* What a post adds: a conclusion to the facts, and its key.
LEMMA EffectGives ==
  ASSUME NEW r, r.op.type \in OperationType, "facts" \in DOMAIN person, Effect(r)
  PROVE  /\ "facts" \in DOMAIN person'
         /\ r.op.type = "conclude" => person'.facts = person.facts \cup {ConclusionOf(r.op.lead)}
         /\ r.op.type # "conclude" => person'.facts = person.facts
<1>1. CASE r.op.type = "attach"
  <2>1. PICK refs : person' = [person EXCEPT !.refs = refs]
    BY <1>1 DEF Effect
  <2> QED BY <1>1, <2>1
<1>2. CASE r.op.type = "note"
  <2>1. PICK notes : person' = [person EXCEPT !.notes = notes]
    BY <1>2 DEF Effect
  <2> QED BY <1>2, <2>1
<1>3. CASE r.op.type = "conclude"
  <2>1. person' = [person EXCEPT !.facts = person.facts \cup {ConclusionOf(r.op.lead)}]
    BY <1>3 DEF Effect
  <2> QED BY <1>3, <2>1
<1>4. CASE r.op.type = "create"
  <2>1. person' = person
    BY <1>4 DEF Effect
  <2> QED BY <1>4, <2>1
<1> QED BY <1>1, <1>2, <1>3, <1>4 DEF OperationType

\* The conclusion has the kind of its finding.
LEMMA ConclusionKind ==
  ASSUME NEW f PROVE ConclusionOf(f).kind = f.kind
BY DEF ConclusionOf

\* What takes effect is the first of its kind, unless it was overtaken.
LEMMA OneStaysPosted ==
  ASSUME KindInv, NEW r \in wire, Effect(r)
  PROVE  OnePosted' /\ "facts" \in DOMAIN person'
<1>1. Spares(r) /\ "facts" \in DOMAIN person /\ OnePosted
  BY DEF KindInv
<1>2. PICK op, reference : op = r.op /\ reference = r.reference
  OBVIOUS
<1>3. PICK new : new = KeyOf(op, reference)
  OBVIOUS
<1>4. op.type \in OperationType
  BY <1>1, <1>2 DEF Spares
<1>5. /\ "facts" \in DOMAIN person'
      /\ op.type = "conclude" => person'.facts = person.facts \cup {ConclusionOf(op.lead)}
      /\ op.type # "conclude" => person'.facts = person.facts
  BY <1>1, <1>2, <1>4, EffectGives
<1>6. landed' = landed \cup {new}
  BY <1>2, <1>3 DEF Effect
<1>7. ASSUME NEW kind \in UniqueKind, OnKind(new, kind)
      PROVE  /\ Concludes(op) /\ op.lead.kind = kind
             /\ \E x \in person'.facts : x.kind = kind
             /\ ~ overtaken' => \A key \in landed : ~ OnKind(key, kind)
  <2>1. Concludes(op) /\ op.lead.kind = kind /\ op.type = "conclude"
    BY <1>3, <1>4, <1>7, KeyTells DEF Concludes
  <2>2. ConclusionOf(op.lead) \in person'.facts /\ ConclusionOf(op.lead).kind = kind
    BY <1>5, <2>1, ConclusionKind
  <2>3. ASSUME ~ overtaken', NEW key \in landed, OnKind(key, kind) PROVE FALSE
    <3>1. person.facts = r.seen
      BY <1>2, <2>1, <2>3 DEF Effect
    <3>2. PICK x \in person.facts : x.kind = kind
      BY <1>1, <2>3 DEF OnePosted
    <3> QED BY <1>1, <1>2, <2>1, <3>1, <3>2 DEF Spares
  <2> QED BY <2>1, <2>2, <2>3
<1>8. \A key \in landed' : \A kind \in UniqueKind :
        OnKind(key, kind) => \E x \in person'.facts : x.kind = kind
  <2> SUFFICES ASSUME NEW key \in landed', NEW kind \in UniqueKind, OnKind(key, kind)
               PROVE  \E x \in person'.facts : x.kind = kind
    OBVIOUS
  <2>1. CASE key = new
    BY <1>7, <2>1
  <2>2. CASE key \in landed
    <3>1. PICK x \in person.facts : x.kind = kind
      BY <1>1, <2>2 DEF OnePosted
    <3> QED BY <1>5, <3>1
  <2> QED BY <1>6, <2>1, <2>2
<1>9. ASSUME ~ overtaken', NEW kind \in UniqueKind, NEW key \in landed', NEW other \in landed',
             OnKind(key, kind), OnKind(other, kind)
      PROVE  key = other
  <2>1. ~ overtaken
    BY <1>9 DEF Effect
  <2>2. CASE key \in landed /\ other \in landed
    BY <1>1, <1>9, <2>1, <2>2 DEF OnePosted
  <2>3. CASE key = new \/ other = new
    BY <1>6, <1>7, <1>9, <2>3
  <2> QED BY <1>6, <2>2, <2>3
<1>10. OnePosted'
  <2>1. \A key, kind : OnKind(key, kind)' = OnKind(key, kind)
    OBVIOUS
  <2> QED BY <1>8, <1>9 DEF OnePosted, OnKind
<1> QED BY <1>5, <1>10

\* An answer tells the run what it has added.
LEMMA RequestLands ==
  ASSUME KindInv, SessionsShaped, NEW r \in wire, r.from \in Terminal, NEW lost \in BOOLEAN, Land(r, lost)
  PROVE  KindInv'
<1>1. PICK t \in Terminal : t = r.from
  OBVIOUS
<1>2. PICK s : s = session[t]
  OBVIOUS
<1>3. Effect(r) /\ wire' = wire \ {r} /\ file' = file
  BY DEF Land
<1>4. Shaped(s) /\ Planned(s)
  BY <1>2 DEF KindInv, SessionsShaped
<1>5. \E e : Shaped(e) /\ Planned(e) /\ OnlyRun(t, e)
  <2>1. CASE ~ Waiting(r)
    <3>1. OnlyRun(t, s)
      BY <1>1, <1>2, <2>1 DEF Land, OnlyRun
    <3> QED BY <1>4, <3>1
  <2>2. CASE Waiting(r) /\ lost
    <3>1. OnlyRun(t, Idle) /\ Shaped(Idle) /\ Planned(Idle)
      BY <1>1, <2>2 DEF Land, OnlyRun, Shaped, Planned, Idle
    <3> QED BY <3>1
  <2>3. CASE Waiting(r) /\ ~ lost
    <3>1. s.pc = "posting" /\ r = Request(t)
      BY <1>1, <1>2, <2>3 DEF Waiting
    <3>2. r.op = Head(s.todo)
      BY <1>2, <3>1 DEF Request, Current
    <3>3. PICK seen : seen = IF r.op.type = "conclude" THEN s.seen \cup {ConclusionOf(r.op.lead)} ELSE s.seen
      OBVIOUS
    <3>4. PICK made : Informed(s, r) = [s EXCEPT !.pc = "answered", !.seen = seen, !.made = made]
      BY <3>3 DEF Informed
    <3>5. PICK e : e = [s EXCEPT !.pc = "answered", !.seen = seen, !.made = made]
      OBVIOUS
    <3>6. OnlyRun(t, e)
      BY <1>1, <1>2, <2>3, <3>4, <3>5 DEF Land, OnlyRun
    <3>7. Shaped(e) /\ e.pc = "answered" /\ e.todo = s.todo /\ e.seen = seen
      BY <1>4, <3>1, <3>5 DEF Shaped
    <3>8. IsList(s.todo) /\ s.todo # <<>> /\ Sparing(s.todo, s.seen)
      BY <1>4, <3>1 DEF Planned
    <3>9. \A x \in seen : x \in s.seen \/ (Head(s.todo).type = "conclude" /\ x.kind = Head(s.todo).lead.kind)
      BY <3>2, <3>3, ConclusionKind
    <3>10. Sparing(Tail(s.todo), seen)
      BY <3>8, <3>9, TailSpares
    <3>11. Planned(e)
      BY <3>7, <3>8, <3>10 DEF Planned
    <3> QED BY <3>6, <3>7, <3>11
  <2> QED BY <2>1, <2>2, <2>3
<1>6. PICK e : Shaped(e) /\ Planned(e) /\ OnlyRun(t, e)
  BY <1>5
<1>7. session'[t] = e /\ \A u \in Terminal : u # t => session'[u] = session[u]
  BY <1>6, RunsStay
<1>8. \A u \in Terminal : Planned(session[u])'
  BY <1>6, <1>7 DEF KindInv, Planned
<1>9. \A q \in wire' : Spares(q)'
  BY <1>3 DEF KindInv, Spares
<1>10. OnePosted' /\ "facts" \in DOMAIN person'
  BY <1>3, OneStaysPosted
<1> QED BY <1>3, <1>8, <1>9, <1>10 DEF KindInv

\* Nothing has been planned or posted.
LEMMA KindInvInit ==
  ASSUME ApplyInit
  PROVE  KindInv
<1>1. IsList(file.batch)
  <2>1. file.batch = <<>>
    BY DEF ApplyInit
  <2>2. file.batch \in Seq({})
    BY ONLY <2>1, EmptySeq
  <2> QED BY <2>2 DEF IsList
<1>2. \A t \in Terminal : Planned(session[t])
  BY DEF ApplyInit, Planned, Idle
<1>3. "facts" \in DOMAIN person
  BY DEF ApplyInit
<1> QED BY <1>1, <1>2, <1>3 DEF ApplyInit, KindInv, OnePosted

\* Every step of a terminal, of a request and of other people.
LEMMA KindInvNext ==
  ASSUME KindInv, LedgerInv, [ApplyNext]_applyVars
  PROVE  KindInv'
<1>0. SessionsShaped /\ \A r \in wire : r.from \in Terminal
  BY DEF LedgerInv, OneAttempt
<1>1. ASSUME UNCHANGED <<session, landed, wire, overtaken>>, IsList(file.batch)',
             "facts" \in DOMAIN person', person.facts \subseteq person'.facts
      PROVE  KindInv'
  <2>1. \A t \in Terminal : Planned(session[t])'
    BY <1>1 DEF KindInv, Planned
  <2>2. \A r \in wire' : Spares(r)'
    BY <1>1 DEF KindInv, Spares
  <2>3. OnePosted'
    BY <1>1 DEF KindInv, OnePosted
  <2> QED BY <1>1, <2>1, <2>2, <2>3, SMTT(90) DEF KindInv
<1>2. CASE UNCHANGED applyVars
  BY <1>1, <1>2 DEF applyVars, remote, ledger, KindInv
<1>3. ASSUME NEW batch \in Batch, RunPlan(batch) PROVE KindInv'
  <2>1. IsList(batch)
    BY WriteConstants DEF IsList
  <2>2. file'.batch = batch /\ UNCHANGED <<session, landed, wire, overtaken, person>>
    BY <1>3 DEF RunPlan, remote
  <2> QED BY <1>1, <2>1, <2>2 DEF KindInv
<1>4. ASSUME NEW x \in Edit, OthersEdit(x) PROVE KindInv'
  <2>1. "facts" \in DOMAIN person
    BY DEF KindInv
  <2>2. person' = [person EXCEPT !.facts = person.facts \cup {x}]
    BY <1>4 DEF OthersEdit
  <2>3. UNCHANGED <<session, landed, wire, overtaken, file>>
    BY <1>4 DEF OthersEdit
  <2> QED BY <1>1, <2>1, <2>2, <2>3 DEF KindInv
<1>5. ASSUME NEW key, FixLedger(key) PROVE KindInv'
  BY <1>1, <1>5 DEF FixLedger, remote, KindInv
<1>6. ASSUME NEW t \in Terminal, NEW s, Shaped(s), Planned(s), OnlyRun(t, s),
             UNCHANGED <<person, landed, overtaken, wire, file>>
      PROVE  KindInv'
  BY <1>0, <1>6, LooksOnly DEF KindInv
<1>7. ASSUME NEW t \in Terminal, Consider(t) \/ Decline(t) \/ Approve(t) \/ Complete(t) \/ Stop(t)
      PROVE  KindInv'
  <2>1. PICK s : s = session[t]
    OBVIOUS
  <2>2. Shaped(s) /\ Planned(s) /\ s.pc # "idle"
    BY <1>0, <1>7, <2>1 DEF KindInv, SessionsShaped, Consider, Decline, Approve, Complete, Stop
  <2>3. UNCHANGED <<person, landed, overtaken, wire, file>>
    BY <1>7 DEF Consider, Decline, Approve, Complete, Stop, remote
  <2>4. Shaped(Idle) /\ Planned(Idle)
    BY DEF Shaped, Planned, Idle
  <2>5. Shaped(Advance(s)) /\ Planned(Advance(s))
    BY <2>2, Advanced, AdvancePlanned
  <2>6. CASE OnlyRun(t, Idle) \/ OnlyRun(t, Advance(s))
    BY <1>6, <2>3, <2>4, <2>5, <2>6
  <2>7. ASSUME NEW step \in {"asked", "checked"}, NEW e, e = [s EXCEPT !.pc = step], OnlyRun(t, e),
               s.pc # "answered"
        PROVE  KindInv'
    <3>1. e.pc = step /\ e.todo = s.todo /\ e.seen = s.seen /\ Shaped(e)
      BY <2>2, <2>7 DEF Shaped
    <3>2. Planned(e)
      BY <2>2, <2>7, <3>1 DEF Planned
    <3> QED BY <1>6, <2>3, <2>7, <3>1, <3>2
  <2>8. PICK e, g : e = [s EXCEPT !.pc = "asked"] /\ g = [s EXCEPT !.pc = "checked"]
    OBVIOUS
  <2>9. CASE Consider(t) \/ Approve(t)
    <3>1. s.pc # "answered"
      BY <2>1, <2>9 DEF Consider, Approve
    <3>2. OnlyRun(t, Idle) \/ OnlyRun(t, Advance(s)) \/ OnlyRun(t, e) \/ OnlyRun(t, g)
      BY <2>1, <2>8, <2>9 DEF Consider, Approve, OnlyRun
    <3> QED BY <2>6, <2>7, <2>8, <3>1, <3>2
  <2>10. CASE Decline(t) \/ Complete(t) \/ Stop(t)
    <3>1. OnlyRun(t, Idle) \/ OnlyRun(t, Advance(s))
      BY <2>1, <2>10 DEF Decline, Complete, Stop, OnlyRun
    <3> QED BY <2>6, <3>1
  <2> QED BY <1>7, <2>9, <2>10
<1>8. ASSUME NEW r \in wire, Drop(r) PROVE KindInv'
  <2>1. PICK t \in Terminal : t = r.from
    BY <1>0
  <2>2. PICK s : s = IF Waiting(r) THEN Idle ELSE session[t]
    OBVIOUS
  <2>3. OnlyRun(t, s) /\ wire' = wire \ {r} /\ UNCHANGED <<person, landed, overtaken, file>>
    BY <1>8, <2>1, <2>2 DEF Drop, OnlyRun, remote
  <2>4. Shaped(s) /\ Planned(s)
    BY <1>0, <2>2 DEF KindInv, SessionsShaped, Shaped, Planned, Idle
  <2> QED BY <1>0, <2>3, <2>4, LooksOnly DEF KindInv
<1>9. ASSUME NEW t \in Terminal, NEW declared, StartApply(t, declared) PROVE KindInv'
  BY <1>0, <1>9, RunBegins
<1>10. ASSUME NEW t \in Terminal, Post(t) PROVE KindInv'
  BY <1>0, <1>10, RequestLeaves
<1>11. ASSUME NEW r \in wire, NEW lost \in BOOLEAN, Land(r, lost) PROVE KindInv'
  BY <1>0, <1>11, RequestLands
<1> QED BY <1>2, <1>3, <1>4, <1>5, <1>7, <1>8, <1>9, <1>10, <1>11 DEF ApplyNext

\* Keys of one kind that are all the same are one at most.
LEMMA OneKey ==
  ASSUME KindInv
  PROVE  OneOfUniqueKind
<1> SUFFICES ASSUME ~ overtaken, NEW kind \in UniqueKind, NEW posted,
                    posted = {key \in landed : key[1] = "conclude" /\ key[2] = kind}
             PROVE  Cardinality(posted) =< 1
  BY DEF OneOfUniqueKind
<1>1. \A key, other \in posted : key = other
  BY DEF KindInv, OnePosted, OnKind
<1>2. CASE posted = {}
  BY <1>2, FS_EmptySet
<1>3. CASE posted # {}
  <2>1. PICK key : posted = {key}
    BY <1>1, <1>3
  <2> QED BY <2>1, FS_Singleton
<1> QED BY <1>2, <1>3

(* The ledger stands between every post and its repetition, and the plan      *)
(* gives a person one birth and one death (cli/apply.ts:256-267, 380,         *)
(* writePlan.ts:440), for any terminals, batches and edits.                   *)
THEOREM PostedOnce == ApplySpec => []PostsGuarded
<1>1. ApplySpec => []LedgerInv
  BY LedgerKept
<1>2. ApplyInit => KindInv
  BY KindInvInit
<1>3. KindInv /\ LedgerInv /\ [ApplyNext]_applyVars => KindInv'
  BY KindInvNext
<1>4. KindInv /\ LedgerInv => PostsGuarded
  BY OneKey DEF PostsGuarded, LedgerInv, OneAttempt, LedgerGuardsPosts
<1> QED BY <1>1, <1>2, <1>3, <1>4, PTL DEF ApplySpec

-----------------------------------------------------------------------------
(* The documentation-manager job, for any events, segments and runs.       *)

Written == [event : DocEvent, file : 0..Segment]
Indexed(entry) == entry.file \in 0..Segment
CicState == [drift : 0..Tenths, audits : Seq(Nat), governance : Seq(Nat), whole : {cic.whole}]

DocsTypeOK ==
  /\ written \in Seq(Written) /\ lastSeen \in 0..Len(written)
  /\ DOMAIN index = 1..Len(index) /\ Len(index) \in Nat
  /\ cic \in CicState

\* What a run has on its way: the state it has been given and the mark it has reached.
Way == [cic : CicState, mark : 0..Len(written)]

\* The events up to m have added to c at most once and in their order.
AtMostOnce(c, m) ==
  /\ Ascending(c.audits) /\ \A i \in DOMAIN c.audits : c.audits[i] <= m
  /\ Ascending(c.governance) /\ \A i \in DOMAIN c.governance : c.governance[i] <= m
  /\ c.drift <= Capped(Penalties(1..m))

\* Every one of the events ids has.
AtLeastOnce(c, ids) ==
  /\ Counting("audit", ids) \subseteq ToSet(c.audits)
  /\ Counting("success", ids) \subseteq ToSet(c.governance)
  /\ c.drift >= Capped(Penalties(ids))

DocsInv ==
  /\ DocsTypeOK
  /\ ~ forgotten => AtMostOnce(cic, lastSeen)
  /\ ~ gap => AtLeastOnce(cic, 1..lastSeen)

-----------------------------------------------------------------------------
\* What a written event is.
LEMMA EventWritten ==
  ASSUME DocsTypeOK, NEW id \in DOMAIN written
  PROVE  /\ written[id].event \in DocEvent /\ written[id].file \in 0..Segment
         /\ written[id].event.penalty \in 0..Tenths
         /\ written[id].event.kind \in {"audit", "drift", "success", "other"}
         /\ id \in 1..Len(written) /\ Len(written) \in Nat /\ DOMAIN written = 1..Len(written)
<1>1. written[id] \in Written /\ id \in 1..Len(written) /\ Len(written) \in Nat /\ DOMAIN written = 1..Len(written)
  BY DEF DocsTypeOK
<1>2. PICK e : e = written[id].event
  OBVIOUS
<1>3. e \in DocEvent /\ written[id].file \in 0..Segment
  BY <1>1, <1>2 DEF Written
<1>4. e.penalty \in {0, 1, 3, 5} /\ e.kind \in {"audit", "drift", "success", "other"}
  BY <1>3, DocsConstants
<1>5. e.penalty \in 0..Tenths
  BY ONLY <1>4 DEF Tenths
<1> QED BY <1>1, <1>2, <1>3, <1>4, <1>5

\* The pairs that its penalties count.
Pairs(ids) == {p \in Counting("drift", ids) \X (1..Tenths) : p[2] <= written[p[1]].event.penalty}

\* They are finitely many.
LEMMA PairsGive ==
  ASSUME DocsTypeOK, NEW ids \in SUBSET DOMAIN written
  PROVE  IsFiniteSet(Pairs(ids)) /\ Penalties(ids) = Cardinality(Pairs(ids)) /\ Penalties(ids) \in Nat
<1>1. Penalties(ids) = Cardinality(Pairs(ids))
  BY DEF Penalties, Pairs
<1>2. IsFiniteSet(1..Len(written)) /\ IsFiniteSet(1..Tenths)
  <2>1. 1 \in Int /\ Len(written) \in Int /\ Tenths \in Int
    BY DEF DocsTypeOK, Tenths
  <2> QED BY ONLY <2>1, FS_Interval
<1>3. Counting("drift", ids) \subseteq 1..Len(written)
  BY DEF Counting, DocsTypeOK
<1>4. IsFiniteSet(Counting("drift", ids) \X (1..Tenths))
  BY ONLY <1>2, <1>3, FS_Subset, FS_Product
<1>5. Pairs(ids) \subseteq Counting("drift", ids) \X (1..Tenths)
  BY DEF Pairs
<1> QED BY ONLY <1>1, <1>4, <1>5, FS_Subset, FS_CardinalityType

\* More events cost no less.
LEMMA PenaltiesGrow ==
  ASSUME DocsTypeOK, NEW more \in SUBSET DOMAIN written, NEW ids \in SUBSET more
  PROVE  Penalties(ids) <= Penalties(more) /\ Penalties(ids) \in Nat /\ Penalties(more) \in Nat
<1>1. Pairs(ids) \subseteq Pairs(more)
  BY DEF Pairs, Counting
<1>2. IsFiniteSet(Pairs(more))
  BY PairsGive
<1>3. Cardinality(Pairs(ids)) <= Cardinality(Pairs(more))
  BY ONLY <1>1, <1>2, FS_Subset
<1> QED BY <1>3, PairsGive

\* What an event costs: its penalty, if it counts.
Cost(id) == IF Counting("drift", {id}) = {} THEN 0 ELSE written[id].event.penalty

\* One more event adds what it costs.
LEMMA PenaltiesAdd ==
  ASSUME DocsTypeOK, NEW ids \in SUBSET DOMAIN written, NEW id \in DOMAIN written, id \notin ids
  PROVE  Penalties(ids \cup {id}) = Penalties(ids) + Cost(id) /\ Penalties(ids) \in Nat /\ Cost(id) \in Nat
<1>1. Pairs(ids \cup {id}) = Pairs(ids) \cup Pairs({id}) /\ Pairs(ids) \cap Pairs({id}) = {}
  BY DEF Pairs, Counting
<1>2. IsFiniteSet(Pairs(ids)) /\ IsFiniteSet(Pairs({id}))
  BY PairsGive
<1>3. Cardinality(Pairs({id})) = Cost(id) /\ Cost(id) \in Nat
  <2>1. CASE Counting("drift", {id}) = {}
    <3>1. Pairs({id}) = {}
      BY <2>1 DEF Pairs
    <3> QED BY <2>1, <3>1, FS_EmptySet DEF Cost
  <2>2. CASE Counting("drift", {id}) # {}
    <3>1. PICK n \in 0..Tenths : n = written[id].event.penalty
      BY EventWritten
    <3>2. Counting("drift", {id}) = {id}
      BY <2>2 DEF Counting
    <3>3. Pairs({id}) = {id} \X (1..n)
      BY <3>1, <3>2, SMTT(90) DEF Pairs, Tenths
    <3>4. n \in Nat /\ 1 \in Int /\ n \in Int
      BY <3>1 DEF Tenths
    <3>5. IsFiniteSet(1..n) /\ Cardinality(1..n) = n
      <4>1. IsFiniteSet(1..n) /\ Cardinality(1..n) = IF 1 > n THEN 0 ELSE n - 1 + 1
        BY ONLY <3>4, FS_Interval
      <4> QED BY ONLY <3>4, <4>1
    <3>6. IsFiniteSet({id}) /\ Cardinality({id}) = 1
      BY ONLY FS_Singleton
    <3>7. Cardinality({id} \X (1..n)) = Cardinality({id}) * Cardinality(1..n)
      BY ONLY <3>5, <3>6, FS_Product
    <3>8. Cardinality({id} \X (1..n)) = n
      BY ONLY <3>4, <3>5, <3>6, <3>7
    <3> QED BY <2>2, <3>1, <3>3, <3>4, <3>8 DEF Cost
  <2> QED BY <2>1, <2>2
<1>4. Cardinality(Pairs(ids) \cup Pairs({id})) = Cardinality(Pairs(ids)) + Cardinality(Pairs({id}))
  <2>1. Cardinality(Pairs(ids) \cup Pairs({id}))
          = Cardinality(Pairs(ids)) + Cardinality(Pairs({id})) - Cardinality(Pairs(ids) \cap Pairs({id}))
    BY ONLY <1>2, FS_Union
  <2>2. Cardinality(Pairs(ids) \cap Pairs({id})) = 0
    BY <1>1, FS_EmptySet
  <2>3. Cardinality(Pairs(ids)) \in Nat /\ Cardinality(Pairs({id})) \in Nat
    BY ONLY <1>2, FS_CardinalityType
  <2> QED BY ONLY <2>1, <2>2, <2>3
<1>5. ids \cup {id} \in SUBSET DOMAIN written
  OBVIOUS
<1> QED BY <1>1, <1>3, <1>4, <1>5, PairsGive

\* A list in order to which something later than all of it is added.
LEMMA AscendingAppended ==
  ASSUME NEW list \in Seq(Nat), NEW id \in Nat, NEW m \in Nat, m < id,
         Ascending(list), \A i \in DOMAIN list : list[i] <= m,
         NEW longer, longer = Append(list, id)
  PROVE  /\ longer \in Seq(Nat) /\ Ascending(longer) /\ \A i \in DOMAIN longer : longer[i] <= id
         /\ ToSet(longer) = ToSet(list) \cup {id}
<1>1. PICK k \in Nat : k = Len(list) + 1
  OBVIOUS
<1>2. /\ longer \in Seq(Nat) /\ DOMAIN longer = DOMAIN list \cup {k} /\ longer[k] = id
      /\ \A i \in DOMAIN list : longer[i] = list[i]
  BY <1>1, Longer
<1>3. \A i \in DOMAIN list : i \in Nat /\ i < k /\ list[i] \in Nat
  BY <1>1
<1>4. \A i \in DOMAIN longer : longer[i] <= id
  BY <1>2, <1>3
<1>5. Ascending(longer)
  BY <1>1, <1>2, <1>3, SMTT(90) DEF Ascending
<1>6. ToSet(longer) = ToSet(list) \cup {id}
  BY <1>2 DEF ToSet
<1> QED BY <1>2, <1>4, <1>5, <1>6

\* What an event makes of the state, by its kind.
LEMMA ProcessGives ==
  ASSUME DocsTypeOK, NEW c \in CicState, NEW id \in DOMAIN written,
         NEW d, d = ProcessEvent(c, id), NEW e, e = written[id].event
  PROVE  /\ d \in CicState
         /\ d.audits = IF e.kind = "audit" THEN Append(c.audits, id) ELSE c.audits
         /\ d.governance = IF e.kind = "success" THEN Append(c.governance, id) ELSE c.governance
         /\ d.drift = IF e.kind = "drift" THEN Capped(c.drift + e.penalty) ELSE c.drift
<1>1. /\ c.drift \in 0..Tenths /\ c.audits \in Seq(Nat) /\ c.governance \in Seq(Nat) /\ c.whole = cic.whole
      /\ id \in Nat /\ e.penalty \in 0..Tenths /\ e.kind \in {"audit", "drift", "success", "other"}
  BY EventWritten DEF CicState
<1>2. Capped(c.drift + e.penalty) \in 0..Tenths
  BY <1>1, SMTT(90) DEF Capped, Tenths
<1>3. Append(c.audits, id) \in Seq(Nat) /\ Append(c.governance, id) \in Seq(Nat)
  BY <1>1
<1>4. CASE e.kind = "audit"
  <2>1. d = [c EXCEPT !.audits = Append(c.audits, id)]
    BY <1>4 DEF ProcessEvent
  <2> QED BY <1>1, <1>3, <1>4, <2>1 DEF CicState
<1>5. CASE e.kind = "drift"
  <2>1. d = [c EXCEPT !.drift = Capped(c.drift + e.penalty)]
    BY <1>5 DEF ProcessEvent
  <2> QED BY <1>1, <1>2, <1>5, <2>1 DEF CicState
<1>6. CASE e.kind = "success"
  <2>1. d = [c EXCEPT !.governance = Append(c.governance, id)]
    BY <1>6 DEF ProcessEvent
  <2> QED BY <1>1, <1>3, <1>6, <2>1 DEF CicState
<1>7. CASE e.kind = "other"
  <2>1. d = c
    BY <1>7 DEF ProcessEvent
  <2> QED BY <1>7, <2>1
<1> QED BY <1>1, <1>4, <1>5, <1>6, <1>7

Counts(id) == ValidateEvent(id) /\ ~ Fails(id)

\* One line: nothing is added twice, and what the line has is added unless it was before.
LEMMA ReadLineGives ==
  ASSUME DocsTypeOK, NEW s \in Way, NEW id \in DOMAIN written, NEW t, t = ReadLine(s, id)
  PROVE  /\ t \in Way /\ t.mark \in {s.mark, id} /\ s.mark <= t.mark
         /\ AtMostOnce(s.cic, s.mark) => AtMostOnce(t.cic, t.mark)
         /\ \A ids \in SUBSET DOMAIN written :
              (id \in ids \/ s.mark < id) /\ AtLeastOnce(s.cic, ids) => AtLeastOnce(t.cic, ids \cup {id})
<1>1. PICK c \in CicState, m \in 0..Len(written) : s = [cic |-> c, mark |-> m] /\ c = s.cic /\ m = s.mark
  BY DEF Way
<1>2. id \in 1..Len(written) /\ Len(written) \in Nat /\ DOMAIN written = 1..Len(written)
  BY EventWritten
<1>3. PICK e : e = written[id].event
  OBVIOUS
<1>4. e.kind \in {"audit", "drift", "success", "other"} /\ e.penalty \in 0..Tenths
  BY <1>3, EventWritten
<1>5. /\ c.drift \in 0..Tenths /\ c.audits \in Seq(Nat) /\ c.governance \in Seq(Nat)
  BY DEF CicState
<1>6. Cost(id) = IF Counts(id) /\ e.kind = "drift" THEN e.penalty ELSE 0
  BY <1>3 DEF Cost, Counting, Counts
<1>7. CASE ~ (id > m /\ Counts(id))
  <2>1. t = s
    BY <1>1, <1>7 DEF ReadLine, New, Counts
  <2>2. ASSUME NEW ids \in SUBSET DOMAIN written, id \in ids \/ m < id, AtLeastOnce(c, ids)
        PROVE  AtLeastOnce(c, ids \cup {id})
    <3>1. CASE id \in ids
      <4>1. ids \cup {id} = ids
        BY <3>1
      <4> QED BY <2>2, <4>1
    <3>2. CASE id \notin ids
      <4>1. ~ Counts(id)
        BY <1>1, <1>2, <1>7, <2>2, <3>2
      <4>2. \A kind : Counting(kind, ids \cup {id}) = Counting(kind, ids)
        BY <4>1 DEF Counting, Counts
      <4>3. Penalties(ids \cup {id}) = Penalties(ids)
        BY <4>2 DEF Penalties
      <4> QED BY <2>2, <4>2, <4>3 DEF AtLeastOnce
    <3> QED BY <3>1, <3>2
  <2> QED BY <1>1, <2>1, <2>2
<1>8. CASE id > m /\ Counts(id)
  <2>1. PICK d : d = ProcessEvent(c, id)
    OBVIOUS
  <2>2. t = [cic |-> d, mark |-> id]
    BY <1>1, <1>8, <2>1 DEF ReadLine, New, Counts
  <2>3. /\ d \in CicState
        /\ d.audits = IF e.kind = "audit" THEN Append(c.audits, id) ELSE c.audits
        /\ d.governance = IF e.kind = "success" THEN Append(c.governance, id) ELSE c.governance
        /\ d.drift = IF e.kind = "drift" THEN Capped(c.drift + e.penalty) ELSE c.drift
    BY <1>3, <2>1, ProcessGives
  <2>4. t \in Way /\ t.cic = d /\ t.mark = id /\ s.mark <= t.mark
    BY <1>1, <1>2, <1>8, <2>2, <2>3 DEF Way
  <2>5. ASSUME AtMostOnce(c, m) PROVE AtMostOnce(d, id)
    <3>1. /\ Ascending(c.audits) /\ \A i \in DOMAIN c.audits : c.audits[i] <= m
          /\ Ascending(c.governance) /\ \A i \in DOMAIN c.governance : c.governance[i] <= m
          /\ c.drift <= Capped(Penalties(1..m))
      BY <2>5 DEF AtMostOnce
    <3>2. id \in Nat /\ m \in Nat /\ m < id
      BY <1>2, <1>8
    <3>3. Ascending(d.audits) /\ \A i \in DOMAIN d.audits : d.audits[i] <= id
      <4>1. CASE e.kind = "audit"
        <5>1. d.audits = Append(c.audits, id)
          BY <2>3, <4>1
        <5> QED BY ONLY <1>5, <3>1, <3>2, <5>1, AscendingAppended
      <4>2. CASE e.kind # "audit"
        <5>1. d.audits = c.audits /\ \A i \in DOMAIN c.audits : c.audits[i] \in Nat
          BY <1>5, <2>3, <4>2, SMTT(90)
        <5> QED BY <3>1, <3>2, <5>1
      <4> QED BY <4>1, <4>2
    <3>4. Ascending(d.governance) /\ \A i \in DOMAIN d.governance : d.governance[i] <= id
      <4>1. CASE e.kind = "success"
        <5>1. d.governance = Append(c.governance, id)
          BY <2>3, <4>1
        <5> QED BY ONLY <1>5, <3>1, <3>2, <5>1, AscendingAppended
      <4>2. CASE e.kind # "success"
        <5>1. d.governance = c.governance /\ \A i \in DOMAIN c.governance : c.governance[i] \in Nat
          BY <1>5, <2>3, <4>2, SMTT(90)
        <5> QED BY <3>1, <3>2, <5>1
      <4> QED BY <4>1, <4>2
    <3>5. d.drift <= Capped(Penalties(1..id))
      <4>1. PICK before \in Nat : before = Penalties(1..m)
        BY <1>2, PairsGive
      <4>2. PICK n \in Nat : n = Cost(id)
        BY <1>4, <1>6 DEF Tenths
      <4>3. before + n <= Penalties(1..id) /\ Penalties(1..id) \in Nat
        <5>1. 1..m \in SUBSET DOMAIN written /\ id \notin 1..m /\ (1..m) \cup {id} \in SUBSET (1..id)
              /\ 1..id \in SUBSET DOMAIN written
          BY <1>2, <3>2
        <5>2. Penalties((1..m) \cup {id}) = before + n
          BY <4>1, <4>2, <5>1, PenaltiesAdd
        <5> QED BY <5>1, <5>2, PenaltiesGrow
      <4>4. d.drift = IF e.kind = "drift" THEN Capped(c.drift + n) ELSE c.drift
        BY <1>6, <1>8, <2>3, <4>2
      <4>5. c.drift \in Nat /\ c.drift <= Capped(before)
        BY <1>5, <3>1, <4>1
      <4>6. Capped(before + n) <= Capped(Penalties(1..id)) /\ Capped(c.drift + n) <= Capped(before + n)
            /\ c.drift <= Capped(before + n)
        BY ONLY <4>3, <4>5, before \in Nat, n \in Nat, SMTT(90) DEF Capped, Tenths
      <4> QED BY ONLY <4>3, <4>4, <4>5, <4>6, before \in Nat, n \in Nat, SMTT(90)
                 DEF Capped, Tenths
    <3> QED BY <3>3, <3>4, <3>5 DEF AtMostOnce
  <2>6. ASSUME NEW ids \in SUBSET DOMAIN written, AtLeastOnce(c, ids)
        PROVE  AtLeastOnce(d, ids \cup {id})
    <3>1. /\ Counting("audit", ids) \subseteq ToSet(c.audits)
          /\ Counting("success", ids) \subseteq ToSet(c.governance)
          /\ c.drift >= Capped(Penalties(ids))
      BY <2>6 DEF AtLeastOnce
    <3>2. /\ ToSet(d.audits) = ToSet(c.audits) \cup (IF e.kind = "audit" THEN {id} ELSE {})
          /\ ToSet(d.governance) = ToSet(c.governance) \cup (IF e.kind = "success" THEN {id} ELSE {})
      <4>1. ASSUME NEW list \in Seq(Nat) PROVE ToSet(Append(list, id)) = ToSet(list) \cup {id}
        <5>1. id \in Nat
          BY <1>2
        <5>2. PICK k : k = Len(list) + 1
          OBVIOUS
        <5>3. PICK longer : longer = Append(list, id)
          OBVIOUS
        <5>4. /\ DOMAIN longer = DOMAIN list \cup {k} /\ longer[k] = id
              /\ \A i \in DOMAIN list : longer[i] = list[i]
          BY <5>1, <5>2, <5>3, Longer, SMTT(90)
        <5> QED BY <5>3, <5>4 DEF ToSet
      <4> QED BY <1>5, <2>3, <4>1
    <3>3. /\ Counting("audit", ids \cup {id}) \subseteq ToSet(d.audits)
          /\ Counting("success", ids \cup {id}) \subseteq ToSet(d.governance)
      BY <1>3, <3>1, <3>2 DEF Counting
    <3>4. d.drift >= Capped(Penalties(ids \cup {id}))
      <4>1. PICK before \in Nat : before = Penalties(ids)
        BY PairsGive
      <4>2. PICK n \in Nat : n = Cost(id)
        BY <1>4, <1>6 DEF Tenths
      <4>3. d.drift = IF e.kind = "drift" THEN Capped(c.drift + n) ELSE c.drift
        BY <1>6, <1>8, <2>3, <4>2
      <4>4. e.kind # "drift" => n = 0
        BY <1>6, <4>2
      <4>5. c.drift \in 0..Tenths /\ c.drift >= Capped(before)
        BY <1>5, <3>1, <4>1
      <4>6. \/ Penalties(ids \cup {id}) = before + n
            \/ Penalties(ids \cup {id}) = before
        <5>1. CASE id \in ids
          <6>1. ids \cup {id} = ids
            BY <5>1
          <6> QED BY <4>1, <6>1
        <5>2. CASE id \notin ids
          BY <4>1, <4>2, <5>2, PenaltiesAdd
        <5> QED BY <5>1, <5>2
      <4>7. d.drift >= Capped(before + n) /\ d.drift >= Capped(before)
        <5>1. PICK a \in 0..10 : a = c.drift
          BY <4>5 DEF Tenths
        <5>2. CASE e.kind = "drift"
          <6>1. d.drift = Capped(a + n) /\ a >= Capped(before)
            BY <4>3, <4>5, <5>1, <5>2
          <6> QED BY ONLY <6>1, a \in 0..10, before \in Nat, n \in Nat DEF Capped, Tenths
        <5>3. CASE e.kind # "drift"
          <6>1. d.drift = a /\ a >= Capped(before) /\ n = 0
            BY <4>3, <4>4, <4>5, <5>1, <5>3
          <6> QED BY ONLY <6>1, a \in 0..10, before \in Nat DEF Capped, Tenths
        <5> QED BY <5>2, <5>3
      <4> QED BY ONLY <4>6, <4>7
    <3> QED BY <3>3, <3>4 DEF AtLeastOnce
  <2> QED BY <1>1, <2>4, <2>5, <2>6
<1> QED BY <1>7, <1>8

\* What a run that has settled ids has reached: it claims to have seen no more.
Accounted(s, ids) == AtLeastOnce(s.cic, ids) /\ s.mark \in ids \cup {0}

\* The events of a segment that a run has yet to settle come after all it has.
Later(ids, segment) == \A x \in ids, y \in In(segment) \ ids : x < y

\* What it has settled when it has read the segment up to n.
ReadTo(ids, segment, n) == ids \cup {id \in In(segment) : id <= n}

\* How a run has got from s to t.
AdvancedTo(s, t, ids, segment, n) ==
  /\ s.mark <= t.mark
  /\ AtMostOnce(s.cic, s.mark) => AtMostOnce(t.cic, t.mark)
  /\ Accounted(s, ids) /\ Later(ids, segment) => Accounted(t, ReadTo(ids, segment, n))

\* The lines of one segment, one after the other.
LEMMA ReadFileGives ==
  ASSUME DocsTypeOK, NEW s \in Way, NEW segment, NEW ids \in SUBSET DOMAIN written, NEW t, t = ReadFile(s, segment)
  PROVE  /\ t \in Way /\ s.mark <= t.mark
         /\ AtMostOnce(s.cic, s.mark) => AtMostOnce(t.cic, t.mark)
         /\ Accounted(s, ids) /\ Later(ids, segment) => Accounted(t, ids \cup In(segment))
<1>1. PICK N \in Nat : N = Len(written) /\ DOMAIN written = 1..N
  BY DEF DocsTypeOK
<1> DEFINE Turns(f) == f = [id \in 0..Len(written) |->
                              IF id = 0 THEN s
                              ELSE IF id \in In(segment) THEN ReadLine(f[id - 1], id)
                              ELSE f[id - 1]]
<1>2. t = (CHOOSE f : Turns(f))[Len(written)]
  BY DEF ReadFile
<1>3. PICK g : g = [p \in Way \X (1..N) |-> IF p[2] \in In(segment) THEN ReadLine(p[1], p[2]) ELSE p[1]]
  OBVIOUS
<1>4. \A n \in 1..N : \A w \in Way :
        /\ g[<<w, n>>] = IF n \in In(segment) THEN ReadLine(w, n) ELSE w
        /\ g[<<w, n>>] \in Way
  BY <1>1, <1>3, ReadLineGives
<1>5. PICK f \in [0..N -> Way] : Follows(f, N, s, g)
  <2>1. N \in Nat /\ s \in Way /\ \A n \in 1..N : \A w \in Way : g[<<w, n>>] \in Way
    BY <1>4
  <2> QED BY ONLY <2>1, Iteration
<1>6. Turns(f)
  <2>1. \A n \in 0..N : f[n] = IF n = 0 THEN s ELSE IF n \in In(segment) THEN ReadLine(f[n - 1], n) ELSE f[n - 1]
    <3>1. f[0] = s
      BY <1>5 DEF Follows
    <3>2. ASSUME NEW n \in 1..N PROVE f[n] = IF n \in In(segment) THEN ReadLine(f[n - 1], n) ELSE f[n - 1]
      <4>1. f[n - 1] \in Way
        BY <1>5
      <4>2. f[n] = g[<<f[n - 1], n>>]
        BY <1>5 DEF Follows
      <4> QED BY <1>4, <4>1, <4>2
    <3> QED BY <3>1, <3>2
  <2>2. f = [n \in 0..N |-> f[n]]
    OBVIOUS
  <2> QED BY <1>1, <2>1, <2>2
<1>7. PICK h : h = CHOOSE x : Turns(x)
  <2> HIDE DEF Turns
  <2> QED OBVIOUS
<1>8. Turns(h)
  <2> HIDE DEF Turns
  <2> QED BY ONLY <1>6, <1>7
<1>9. t = h[N] /\ h[0] = s
      /\ \A n \in 1..N : h[n] = IF n \in In(segment) THEN ReadLine(h[n - 1], n) ELSE h[n - 1]
  <2>1. h = [n \in 0..N |-> IF n = 0 THEN s ELSE IF n \in In(segment) THEN ReadLine(h[n - 1], n) ELSE h[n - 1]]
    BY ONLY <1>1, <1>8
  <2>2. h[0] = s
    <3>1. 0 \in 0..N
      BY ONLY N \in Nat
    <3> QED BY ONLY <2>1, <3>1
  <2>3. ASSUME NEW n \in 1..N
        PROVE  h[n] = IF n \in In(segment) THEN ReadLine(h[n - 1], n) ELSE h[n - 1]
    <3>1. n \in 0..N /\ n # 0
      OBVIOUS
    <3> QED BY ONLY <2>1, <3>1
  <2>4. t = h[N]
    <3> HIDE DEF Turns
    <3> QED BY ONLY <1>1, <1>2, <1>7
  <2> QED BY ONLY <2>2, <2>3, <2>4
<1> DEFINE T == {p \in Way \X (0..N) : AdvancedTo(s, p[1], ids, segment, p[2])}
<1>10. In(segment) \subseteq 1..N /\ \A w \in Way : w.mark \in 0..N
  BY <1>1 DEF In, Way
<1>11. <<h[0], 0>> \in T
  <2>1. ReadTo(ids, segment, 0) = ids
    BY <1>10 DEF ReadTo
  <2>2. AdvancedTo(s, s, ids, segment, 0)
    BY <1>10, <2>1 DEF AdvancedTo
  <2> QED BY <1>9, <2>2
<1>12. ASSUME NEW n \in 1..N, <<h[n - 1], n - 1>> \in T PROVE <<h[n], n>> \in T
  <2>1. PICK w \in Way : w = h[n - 1] /\ AdvancedTo(s, w, ids, segment, n - 1)
    BY <1>12
  <2>2. CASE n \notin In(segment)
    <3>1. ReadTo(ids, segment, n) = ReadTo(ids, segment, n - 1) /\ h[n] = w
      BY <1>9, <1>10, <2>1, <2>2 DEF ReadTo
    <3>2. AdvancedTo(s, w, ids, segment, n)
      BY <2>1, <3>1 DEF AdvancedTo
    <3> QED BY <3>1, <3>2
  <2>3. CASE n \in In(segment)
    <3>1. PICK v : v = ReadLine(w, n)
      OBVIOUS
    <3>2. h[n] = v /\ n \in DOMAIN written
      BY <1>1, <1>9, <2>1, <2>3, <3>1
    <3>3. /\ v \in Way /\ v.mark \in {w.mark, n} /\ w.mark <= v.mark
          /\ AtMostOnce(w.cic, w.mark) => AtMostOnce(v.cic, v.mark)
          /\ \A more \in SUBSET DOMAIN written :
               (n \in more \/ w.mark < n) /\ AtLeastOnce(w.cic, more) => AtLeastOnce(v.cic, more \cup {n})
      BY ONLY <3>1, <3>2, DocsTypeOK, w \in Way, ReadLineGives
    <3>4. s.mark <= v.mark
      BY <1>10, <2>1, <3>3 DEF AdvancedTo
    <3>5. ASSUME Accounted(s, ids), Later(ids, segment) PROVE Accounted(v, ReadTo(ids, segment, n))
      <4>1. ReadTo(ids, segment, n) = ReadTo(ids, segment, n - 1) \cup {n} /\ ReadTo(ids, segment, n - 1) \in SUBSET DOMAIN written
        BY <1>1, <1>10, <2>3 DEF ReadTo
      <4>2. AtLeastOnce(w.cic, ReadTo(ids, segment, n - 1)) /\ w.mark \in ReadTo(ids, segment, n - 1) \cup {0}
        BY <2>1, <3>5 DEF Accounted, AdvancedTo
      <4>3. n \in ReadTo(ids, segment, n - 1) \/ w.mark < n
        <5>1. CASE n \in ids
          BY <5>1 DEF ReadTo
        <5>2. CASE n \notin ids
          <6>1. \A x \in ids : x < n
            BY <2>3, <3>5, <5>2 DEF Later
          <6>2. \A x \in {id \in In(segment) : id <= n - 1} : x < n
            BY <1>10
          <6>3. 0 < n
            OBVIOUS
          <6> QED BY <4>2, <6>1, <6>2, <6>3 DEF ReadTo
        <5> QED BY <5>1, <5>2
      <4>4. AtLeastOnce(v.cic, ReadTo(ids, segment, n - 1) \cup {n})
        BY <3>3, <4>1, <4>2, <4>3
      <4>5. v.mark \in ReadTo(ids, segment, n) \cup {0}
        BY <3>3, <4>1, <4>2
      <4> QED BY <4>1, <4>4, <4>5 DEF Accounted
    <3>6. AdvancedTo(s, v, ids, segment, n)
      BY <2>1, <3>3, <3>4, <3>5 DEF AdvancedTo
    <3> QED BY <3>2, <3>3, <3>6
  <2> QED BY <2>2, <2>3
<1> HIDE DEF T
<1>13. \A n \in 0..N : <<h[n], n>> \in T
  BY ONLY <1>11, <1>12, N \in Nat, Throughout
<1>14. t \in Way /\ AdvancedTo(s, t, ids, segment, N)
  <2>1. <<h[N], N>> \in T
    BY <1>13
  <2>2. <<t, N>> \in {p \in Way \X (0..N) : AdvancedTo(s, p[1], ids, segment, p[2])}
    BY <1>9, <2>1 DEF T
  <2> QED BY ONLY <2>2
<1>15. ReadTo(ids, segment, N) = ids \cup In(segment)
  BY <1>10 DEF ReadTo
<1> QED BY <1>14, <1>15 DEF AdvancedTo

\* What a run has settled when it has read n of its segments.
Through(segments, n) == 1..lastSeen \cup {id \in DOMAIN written : \E i \in 1..n : id \in In(segments[i])}

\* How it has got from s to t.
RunTo(s, t, segments, n) ==
  /\ AtMostOnce(s.cic, s.mark) => AtMostOnce(t.cic, t.mark)
  /\ AtLeastOnce(s.cic, 1..lastSeen) /\ AllInOrder(segments) => Accounted(t, Through(segments, n))

\* The segments, one after the other.
LEMMA ReadFilesGives ==
  ASSUME DocsTypeOK, NEW s \in Way, s.mark = lastSeen, NEW segments, Len(segments) \in Nat, DOMAIN segments = 1..Len(segments),
         NEW t, t = ReadFiles(s, segments)
  PROVE  /\ t \in Way
         /\ AtMostOnce(s.cic, s.mark) => AtMostOnce(t.cic, t.mark)
         /\ AtLeastOnce(s.cic, 1..lastSeen) /\ AllInOrder(segments) => AtLeastOnce(t.cic, DOMAIN written)
<1>1. PICK N \in Nat : N = Len(segments) /\ DOMAIN segments = 1..N
  OBVIOUS
<1> DEFINE Turns(f) == f = [n \in 0..Len(segments) |-> IF n = 0 THEN s ELSE ReadFile(f[n - 1], segments[n])]
<1>2. t = (CHOOSE f : Turns(f))[Len(segments)]
  BY DEF ReadFiles
<1>3. PICK g : g = [p \in Way \X (1..N) |-> ReadFile(p[1], segments[p[2]])]
  OBVIOUS
<1>4. \A n \in 1..N : \A w \in Way :
        g[<<w, n>>] = ReadFile(w, segments[n]) /\ g[<<w, n>>] \in Way
  <2>1. {} \in SUBSET DOMAIN written
    OBVIOUS
  <2> QED BY <1>3, <2>1, ReadFileGives
<1>5. PICK f \in [0..N -> Way] : Follows(f, N, s, g)
  <2>1. N \in Nat /\ s \in Way /\ \A n \in 1..N : \A w \in Way : g[<<w, n>>] \in Way
    BY <1>4
  <2> QED BY ONLY <2>1, Iteration
<1>6. Turns(f)
  <2>1. \A n \in 0..N : f[n] = IF n = 0 THEN s ELSE ReadFile(f[n - 1], segments[n])
    <3>1. f[0] = s
      BY <1>5 DEF Follows
    <3>2. ASSUME NEW n \in 1..N PROVE f[n] = ReadFile(f[n - 1], segments[n])
      <4>1. f[n - 1] \in Way
        BY <1>5
      <4>2. f[n] = g[<<f[n - 1], n>>]
        BY <1>5 DEF Follows
      <4> QED BY <1>4, <4>1, <4>2
    <3> QED BY <3>1, <3>2
  <2>2. f = [n \in 0..N |-> f[n]]
    OBVIOUS
  <2> QED BY <1>1, <2>1, <2>2
<1>7. PICK h : h = CHOOSE x : Turns(x)
  <2> HIDE DEF Turns
  <2> QED OBVIOUS
<1>8. Turns(h)
  <2> HIDE DEF Turns
  <2> QED BY ONLY <1>6, <1>7
<1>9. t = h[N] /\ h[0] = s /\ \A n \in 1..N : h[n] = ReadFile(h[n - 1], segments[n])
  <2>1. h = [n \in 0..N |-> IF n = 0 THEN s ELSE ReadFile(h[n - 1], segments[n])]
    BY ONLY <1>1, <1>8
  <2>2. h[0] = s
    <3>1. 0 \in 0..N
      BY ONLY N \in Nat
    <3> QED BY ONLY <2>1, <3>1
  <2>3. ASSUME NEW n \in 1..N PROVE h[n] = ReadFile(h[n - 1], segments[n])
    <3>1. n \in 0..N /\ n # 0
      OBVIOUS
    <3> QED BY ONLY <2>1, <3>1
  <2>4. t = h[N]
    <3> HIDE DEF Turns
    <3> QED BY ONLY <1>1, <1>2, <1>7
  <2> QED BY ONLY <2>2, <2>3, <2>4
<1> DEFINE T == {p \in Way \X (0..N) : RunTo(s, p[1], segments, p[2])}
<1>10. lastSeen \in 0..Len(written) /\ DOMAIN written = 1..Len(written) /\ Len(written) \in Nat
       /\ 1..lastSeen \in SUBSET DOMAIN written
  BY DEF DocsTypeOK
<1>11. <<h[0], 0>> \in T
  <2>1. Through(segments, 0) = 1..lastSeen
    BY DEF Through
  <2>2. s.mark \in 1..lastSeen \cup {0}
    BY <1>10
  <2>3. RunTo(s, s, segments, 0)
    BY <2>1, <2>2 DEF RunTo, Accounted
  <2> QED BY <1>9, <2>3
<1>12. ASSUME NEW n \in 1..N, <<h[n - 1], n - 1>> \in T PROVE <<h[n], n>> \in T
  <2>1. PICK w \in Way : w = h[n - 1] /\ RunTo(s, w, segments, n - 1)
    BY <1>12
  <2>2. PICK v : v = ReadFile(w, segments[n]) /\ v = h[n]
    BY <1>9, <2>1
  <2>3. PICK ids \in SUBSET DOMAIN written : ids = Through(segments, n - 1)
    BY <1>10 DEF Through
  <2>4. /\ v \in Way
        /\ AtMostOnce(w.cic, w.mark) => AtMostOnce(v.cic, v.mark)
        /\ Accounted(w, ids) /\ Later(ids, segments[n]) => Accounted(v, ids \cup In(segments[n]))
    BY ONLY <2>2, DocsTypeOK, w \in Way, ids \in SUBSET DOMAIN written, ReadFileGives
  <2>5. Through(segments, n) = ids \cup In(segments[n])
    <3>1. \A i : i \in 1..n <=> i \in 1..(n - 1) \/ i = n
      OBVIOUS
    <3>2. In(segments[n]) \subseteq DOMAIN written
      BY DEF In
    <3> QED BY <2>3, <3>1, <3>2 DEF Through
  <2>6. ASSUME AllInOrder(segments) PROVE Later(ids, segments[n])
    <3>1. ASSUME NEW x \in ids, NEW y \in In(segments[n]) \ ids PROVE x < y
      <4>1. CASE x \in 1..lastSeen
        <5>1. y \in DOMAIN written /\ y \notin 1..lastSeen
          BY <2>3 DEF In, Through
        <5> QED BY <1>10, <4>1, <5>1
      <4>2. CASE \E i \in 1..(n - 1) : x \in In(segments[i])
        <5>1. PICK i \in 1..(n - 1) : x \in In(segments[i])
          BY <4>2
        <5>2. i \in DOMAIN segments /\ n \in DOMAIN segments /\ i < n
          BY <1>1
        <5> QED BY <2>6, <5>1, <5>2 DEF AllInOrder
      <4> QED BY <2>3, <4>1, <4>2 DEF Through
    <3> QED BY <3>1 DEF Later
  <2>7. RunTo(s, v, segments, n)
    BY <2>1, <2>3, <2>4, <2>5, <2>6 DEF RunTo
  <2>8. <<v, n>> \in T
    BY <2>4, <2>7
  <2> QED BY <2>2, <2>8
<1> HIDE DEF T
<1>13. \A n \in 0..N : <<h[n], n>> \in T
  BY ONLY <1>11, <1>12, N \in Nat, Throughout
<1>14. t \in Way /\ RunTo(s, t, segments, N)
  <2>1. <<h[N], N>> \in T
    BY <1>13
  <2>2. <<t, N>> \in {p \in Way \X (0..N) : RunTo(s, p[1], segments, p[2])}
    BY <1>9, <2>1 DEF T
  <2> QED BY ONLY <2>2
<1>15. ASSUME AllInOrder(segments) PROVE Through(segments, N) = DOMAIN written
  <2>1. ASSUME NEW id \in DOMAIN written PROVE id \in Through(segments, N)
    <3>1. CASE id > lastSeen
      <4>1. written[id].file \in ToSet(segments)
        BY <1>15, <3>1 DEF AllInOrder, New
      <4>2. PICK i \in 1..N : segments[i] = written[id].file
        BY <1>1, <4>1 DEF ToSet
      <4> QED BY <4>2 DEF Through, In
    <3>2. CASE ~ (id > lastSeen)
      BY <1>10, <3>2 DEF Through
    <3> QED BY <3>1, <3>2
  <2> QED BY <1>10, <2>1 DEF Through
<1> QED BY <1>14, <1>15, SMTT(90) DEF RunTo, Accounted

\* The segments a run reads are a list.
LEMMA FilesAreList ==
  ASSUME DocsTypeOK, NEW segments, segments = GetSegmentsToRead
  PROVE  Len(segments) \in Nat /\ DOMAIN segments = 1..Len(segments)
<1>1. CASE index = <<>>
  <2>1. segments = <<0>>
    BY <1>1 DEF GetSegmentsToRead
  <2> QED BY ONLY <2>1
<1>2. CASE index # <<>>
  <2>1. PICK all : all = [i \in DOMAIN index |-> index[i].file]
    OBVIOUS
  <2>2. PICK places : places = {i \in DOMAIN index : index[i].max > lastSeen /\ index[i].file \notin away}
    OBVIOUS
  <2>3. segments = Picked(all, places)
    BY <1>2, <2>1, <2>2 DEF GetSegmentsToRead
  <2>4. PICK n \in Nat : n = Len(index)
    BY DEF DocsTypeOK
  <2>5. places \in SUBSET (1..n)
    BY <2>2, <2>4 DEF DocsTypeOK
  <2>6. PICK size : size = Cardinality(places)
    OBVIOUS
  <2>7. size \in Nat
    BY ONLY <2>5, <2>6, n \in Nat, FinitePlaces
  <2>8. segments = [j \in 1..size |-> all[Nth(places, j)]]
    BY <2>3, <2>6 DEF Picked
  <2> QED BY ONLY <2>7, <2>8
<1> QED BY <1>1, <1>2

\* What is proved depends on the events, the state and the mark alone.
LEMMA SameEvents ==
  ASSUME written' = written, cic'.whole = cic.whole, NEW c, NEW ids
  PROVE  /\ \A kind : Counting(kind, ids)' = Counting(kind, ids)
         /\ Penalties(ids)' = Penalties(ids)
         /\ AtLeastOnce(c, ids)' <=> AtLeastOnce(c, ids)
<1>1. \A kind : Counting(kind, ids)' = Counting(kind, ids)
  BY DEF Counting, ValidateEvent, Fails
<1>2. Penalties(ids)' = Penalties(ids)
  BY <1>1 DEF Penalties
<1> QED BY <1>1, <1>2 DEF AtLeastOnce

\* So does what has been counted up to a mark.
LEMMA SameMark ==
  ASSUME written' = written, cic'.whole = cic.whole, NEW c, NEW m
  PROVE  AtMostOnce(c, m)' <=> AtMostOnce(c, m)
<1>1. PICK ids : ids = 1..m
  OBVIOUS
<1>2. Penalties(ids)' = Penalties(ids)
  BY SameEvents
<1>3. Penalties(1..m)' = Penalties(1..m)
  BY <1>1, <1>2
<1> QED BY <1>3 DEF AtMostOnce

\* Another event is not among those that have been seen.
LEMMA EventAppended ==
  ASSUME DocsInv, NEW r \in Written, written' = Append(written, r), UNCHANGED <<cic, lastSeen, index, gap, forgotten>>
  PROVE  DocsInv'
<1>1. PICK N \in Nat : N = Len(written) /\ DOMAIN written = 1..N /\ written \in Seq(Written)
  BY DEF DocsInv, DocsTypeOK
<1>2. /\ written' \in Seq(Written) /\ Len(written') = N + 1
      /\ \A id \in 1..N : written'[id] = written[id]
  BY <1>1, Longer
<1>3. DocsTypeOK'
  BY <1>1, <1>2 DEF DocsInv, DocsTypeOK, CicState
<1>4. PICK seen \in SUBSET (1..N) : seen = 1..lastSeen
  BY <1>1 DEF DocsInv, DocsTypeOK
<1>5. \A kind : Counting(kind, seen)' = Counting(kind, seen)
  BY <1>2 DEF Counting, ValidateEvent, Fails
<1>6. Penalties(seen)' = Penalties(seen)
  <2>1. \A id \in Counting("drift", seen) : written'[id] = written[id]
    BY <1>2 DEF Counting
  <2>2. PICK D : D = Counting("drift", seen)
    OBVIOUS
  <2>3. {p \in D \X (1..Tenths) : p[2] <= written'[p[1]].event.penalty}
          = {p \in D \X (1..Tenths) : p[2] <= written[p[1]].event.penalty}
    BY <2>1, <2>2
  <2>4. Counting("drift", seen)' = D /\ Tenths' = Tenths
    BY <1>5, <2>2 DEF Tenths
  <2> QED BY <2>2, <2>3, <2>4 DEF Penalties
<1>7. (~ forgotten => AtMostOnce(cic, lastSeen))'
  BY <1>4, <1>6 DEF DocsInv, AtMostOnce, Ascending
<1>8. (~ gap => AtLeastOnce(cic, 1..lastSeen))'
  BY <1>4, <1>5, <1>6 DEF DocsInv, AtLeastOnce
<1> QED BY <1>3, <1>7, <1>8 DEF DocsInv

\* A run of the job.
LEMMA JobKeeps ==
  ASSUME DocsInv, NEW saved \in BOOLEAN, RunDocsManagerIngestionJob(saved)
  PROVE  DocsInv'
<1>1. PICK s : s = [cic |-> cic, mark |-> lastSeen]
  OBVIOUS
<1>2. PICK segments : segments = GetSegmentsToRead
  OBVIOUS
<1>3. PICK t : t = ReadFiles(s, segments)
  OBVIOUS
<1>4. /\ cic' = t.cic
      /\ lastSeen' = IF saved THEN t.mark ELSE lastSeen
      /\ forgotten' = (forgotten \/ (~ saved /\ t.mark # lastSeen))
      /\ gap' = (gap \/ ~ AllInOrder(segments))
      /\ UNCHANGED <<written, index, away>>
  BY <1>1, <1>2, <1>3 DEF RunDocsManagerIngestionJob
<1>5. s \in Way /\ s.mark = lastSeen /\ s.cic = cic
  BY <1>1 DEF DocsInv, DocsTypeOK, Way
<1>6. Len(segments) \in Nat /\ DOMAIN segments = 1..Len(segments)
  BY <1>2, FilesAreList DEF DocsInv
<1>7. /\ t \in Way
      /\ AtMostOnce(s.cic, s.mark) => AtMostOnce(t.cic, t.mark)
      /\ AtLeastOnce(s.cic, 1..lastSeen) /\ AllInOrder(segments) => AtLeastOnce(t.cic, DOMAIN written)
  <2>1. DocsTypeOK
    BY DEF DocsInv
  <2> QED BY ONLY <1>3, <1>5, <1>6, <2>1, ReadFilesGives
<1>8. cic' \in CicState /\ t.mark \in 0..Len(written) /\ cic'.whole = cic.whole
  BY <1>4, <1>7 DEF Way, CicState
<1>9. DocsTypeOK'
  <2>1. CicState' = CicState
    BY <1>8 DEF CicState
  <2> QED BY <1>4, <1>8, <2>1 DEF DocsInv, DocsTypeOK
<1>10. PICK c, m : c = t.cic /\ m = t.mark
  OBVIOUS
<1>11. ASSUME ~ forgotten' PROVE AtMostOnce(cic, lastSeen)'
  <2>1. ~ forgotten /\ lastSeen' = m
    BY <1>4, <1>10, <1>11
  <2>2. AtMostOnce(c, m)
    BY <1>5, <1>7, <1>10, <2>1 DEF DocsInv
  <2>3. AtMostOnce(c, m)'
    BY <1>4, <1>8, <2>2, SameMark
  <2> QED BY <1>4, <1>10, <2>1, <2>3
<1>12. ASSUME ~ gap' PROVE AtLeastOnce(cic, 1..lastSeen)'
  <2>1. ~ gap /\ AllInOrder(segments)
    BY <1>4, <1>12
  <2>2. AtLeastOnce(c, DOMAIN written)
    BY <1>5, <1>7, <1>10, <2>1 DEF DocsInv
  <2>3. PICK ids \in SUBSET DOMAIN written : ids = 1..lastSeen'
    <3>1. lastSeen' \in 0..Len(written)
      BY <1>4, <1>8 DEF DocsInv, DocsTypeOK
    <3> QED BY <3>1 DEF DocsInv, DocsTypeOK
  <2>4. AtLeastOnce(c, ids)
    <3>1. \A kind : Counting(kind, ids) \subseteq Counting(kind, DOMAIN written)
      BY DEF Counting
    <3>2. Penalties(ids) <= Penalties(DOMAIN written) /\ Penalties(ids) \in Nat /\ Penalties(DOMAIN written) \in Nat
      BY PenaltiesGrow DEF DocsInv
    <3>3. c.drift \in Nat /\ c.drift >= Capped(Penalties(DOMAIN written))
      BY <1>7, <1>10, <2>2 DEF AtLeastOnce, Way, CicState, Tenths
    <3>4. c.drift >= Capped(Penalties(ids))
      BY ONLY <3>2, <3>3 DEF Capped, Tenths
    <3> QED BY <2>2, <3>1, <3>4 DEF AtLeastOnce
  <2>5. AtLeastOnce(c, ids)'
    BY <1>4, <1>8, <2>4, SameEvents
  <2> QED BY <1>4, <1>10, <2>3, <2>5
<1> QED BY <1>9, <1>11, <1>12 DEF DocsInv

(* Every event counts once: it adds to the control state at most once and in order *)
(* unless a mark was lost, and at least once unless a run was blind to some of     *)
(* it (docsManagerJob.ts:165-179, 341-395), for any events, segments, indexes,     *)
(* failures and runs.                                                              *)
THEOREM EventsCountOnce == DocsSpec => []DocsEventsOnce
<1>0. Capped(Penalties({})) = 0 /\ \A kind : Counting(kind, {}) = {}
  <2>1. \A kind : Counting(kind, {}) = {}
    BY DEF Counting
  <2>2. Penalties({}) = Cardinality({})
    <3>1. {p \in Counting("drift", {}) \X (1..Tenths) : p[2] <= written[p[1]].event.penalty} = {}
      BY <2>1
    <3> QED BY <3>1 DEF Penalties
  <2> QED BY <2>1, <2>2, FS_EmptySet DEF Capped, Tenths
<1>1. DocsInit => DocsInv
  <2> SUFFICES ASSUME DocsInit PROVE DocsInv
    OBVIOUS
  <2>1. /\ written = <<>> /\ index = <<>> /\ lastSeen = 0
        /\ cic.drift = 0 /\ cic.audits = <<>> /\ cic.governance = <<>>
        /\ cic = [drift |-> cic.drift, audits |-> cic.audits, governance |-> cic.governance, whole |-> cic.whole]
    BY DEF DocsInit
  <2>2. DocsTypeOK
    <3>1. written \in Seq(Written) /\ Len(written) = 0
      BY <2>1
    <3>2. DOMAIN index = 1..Len(index) /\ Len(index) \in Nat
      BY <2>1
    <3>3. cic.drift \in 0..Tenths /\ cic.audits \in Seq(Nat) /\ cic.governance \in Seq(Nat)
      BY <2>1 DEF Tenths
    <3>4. cic \in CicState
      BY ONLY <2>1, <3>3 DEF CicState
    <3> QED BY <2>1, <3>1, <3>2, <3>4 DEF DocsTypeOK
  <2>3. 1..lastSeen = {} /\ DOMAIN cic.audits = {} /\ DOMAIN cic.governance = {}
    BY <2>1
  <2>4. AtMostOnce(cic, lastSeen)
    BY <1>0, <2>1, <2>3 DEF AtMostOnce, Ascending
  <2>5. AtLeastOnce(cic, 1..lastSeen)
    BY <1>0, <2>1, <2>3 DEF AtLeastOnce
  <2> QED BY <2>2, <2>4, <2>5 DEF DocsInv
<1>2. DocsInv /\ [DocsNext]_docsVars => DocsInv'
  <2> SUFFICES ASSUME DocsInv, [DocsNext]_docsVars PROVE DocsInv'
    OBVIOUS
  <2>0. ASSUME UNCHANGED <<written, cic, lastSeen, gap, forgotten>>, DOMAIN index' = 1..Len(index'), Len(index') \in Nat
        PROVE  DocsInv'
    <3>1. DocsTypeOK'
      BY <2>0 DEF DocsInv, DocsTypeOK, CicState
    <3>2. (~ forgotten => AtMostOnce(cic, lastSeen))'
      <4>1. PICK c, m : c = cic /\ m = lastSeen
        OBVIOUS
      <4>2. AtMostOnce(c, m)' <=> AtMostOnce(c, m)
        BY <2>0, SameMark
      <4> QED BY <2>0, <4>1, <4>2 DEF DocsInv
    <3>3. (~ gap => AtLeastOnce(cic, 1..lastSeen))'
      <4>1. PICK c, ids : c = cic /\ ids = 1..lastSeen
        OBVIOUS
      <4>2. AtLeastOnce(c, ids)' <=> AtLeastOnce(c, ids)
        BY <2>0, SameEvents
      <4> QED BY <2>0, <4>1, <4>2 DEF DocsInv
    <3> QED BY <3>1, <3>2, <3>3 DEF DocsInv
  <2>1. CASE UNCHANGED docsVars
    BY <2>0, <2>1 DEF docsVars, DocsInv, DocsTypeOK
  <2>2. ASSUME NEW e \in DocEvent, NEW segment \in 0..Segment, WriteEvent(e, segment) PROVE DocsInv'
    <3>1. [event |-> e, file |-> segment] \in Written
      BY DEF Written
    <3> QED BY <2>2, <3>1, EventAppended DEF WriteEvent
  <2>3. ASSUME NEW listed \in SetToAllKPermutations({f \in 1..Segment : In(f) # {}}), WriteIndex(listed) PROVE DocsInv'
    <3>1. PICK S \in SUBSET (1..Segment) : listed \in SetToSeqs(S)
      BY <2>3 DEF SetToAllKPermutations
    <3>2. PICK n \in Nat : n = Cardinality(S)
      <4>1. Segment \in Nat
        BY DocsConstants
      <4> QED BY <4>1, FinitePlaces
    <3>3. DOMAIN listed = 1..n
      BY <3>1, <3>2 DEF SetToSeqs
    <3>4. DOMAIN index' = 1..n
      BY <2>3, <3>3 DEF WriteIndex
    <3>5. Len(index') = n
      BY <2>3, <3>3 DEF WriteIndex
    <3> QED BY <2>0, <2>3, <3>4, <3>5 DEF WriteIndex
  <2>4. ASSUME NEW segment \in 1..Segment, Move(segment) PROVE DocsInv'
    BY <2>0, <2>4 DEF Move, DocsInv, DocsTypeOK
  <2>5. ASSUME NEW saved \in BOOLEAN, RunDocsManagerIngestionJob(saved) PROVE DocsInv'
    BY <2>5, JobKeeps
  <2>6. CASE LoseState
    <3>1. lastSeen' = 0 /\ forgotten' /\ UNCHANGED <<written, index, cic, gap>>
      BY <2>6 DEF LoseState
    <3>2. DocsTypeOK'
      BY <3>1 DEF DocsInv, DocsTypeOK, CicState
    <3>3. AtLeastOnce(cic, 1..lastSeen)'
      <4>1. PICK c, ids : c = cic /\ ids = {}
        OBVIOUS
      <4>2. 1..lastSeen' = ids
        BY <3>1, <4>1
      <4>3. AtLeastOnce(c, ids)
        BY <1>0, <4>1 DEF AtLeastOnce, DocsInv, DocsTypeOK, CicState
      <4>4. AtLeastOnce(c, ids)'
        BY <3>1, <4>3, SameEvents
      <4> QED BY <3>1, <4>1, <4>2, <4>4
    <3> QED BY <3>1, <3>2, <3>3 DEF DocsInv
  <2> QED BY <2>1, <2>2, <2>3, <2>4, <2>5, <2>6 DEF DocsNext
<1>3. DocsInv => DocsEventsOnce
  BY DEF DocsInv, DocsEventsOnce, AtMostOnce, AtLeastOnce
<1> QED BY <1>1, <1>2, <1>3, PTL DEF DocsSpec
=============================================================================
