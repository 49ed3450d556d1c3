---------------------------- MODULE HardeningProofs ----------------------------
(***************************************************************************)
(* Proofs about the breaker, the fallback chain and the hardened call that *)
(* composes them.  The composition restricts its parts: every step of it   *)
(* is a step or a stutter of each, so what is proved of a part alone holds *)
(* of it in every composition of the two.                                  *)
(***************************************************************************)
EXTENDS Hardening, TLAPS

----------------------------------------------------------------------------
(* The breaker alone.                                                      *)

BreakerInv == BreakerTypeOK /\ OpenHasTimer /\ ClosedBelowThreshold

\* A new breaker satisfies its invariant.
LEMMA BreakerInitInv == BreakerInit => BreakerInv
<1> SUFFICES ASSUME BreakerInit PROVE BreakerInv
  OBVIOUS
<1> USE DEF BreakerInit
<1>1. consecutive \in Nat /\ failures \in Nat /\ total \in Nat
  OBVIOUS
<1>2. BreakerTypeOK
  BY <1>1 DEF BreakerTypeOK
<1>3. OpenHasTimer
  BY DEF OpenHasTimer
<1>4. ClosedBelowThreshold
  BY BreakerConstants DEF ClosedBelowThreshold
<1> QED BY <1>2, <1>3, <1>4 DEF BreakerInv

\* Every step of the breaker keeps it: a failure that leaves the breaker
\* closed has not reached the threshold, and the two steps that close it,
\* a success and a reset, set the count to zero.
LEMMA BreakerStep == BreakerInv /\ [BreakerNext]_breakerVars => BreakerInv'
<1> SUFFICES ASSUME BreakerInv, [BreakerNext]_breakerVars PROVE BreakerInv'
  OBVIOUS
<1> USE BreakerConstants DEF BreakerInv, BreakerTypeOK, OpenHasTimer, ClosedBelowThreshold
<1>1. ASSUME NEW c \in Call, Admit(c) PROVE BreakerInv'
  BY <1>1 DEF Admit
<1>2. ASSUME NEW c \in Call, RecordSuccess(c) PROVE BreakerInv'
  <2>1. BreakerTypeOK'
    BY <1>2 DEF RecordSuccess
  <2>2. OpenHasTimer'
    BY <1>2 DEF RecordSuccess
  <2>3. ClosedBelowThreshold'
    BY <1>2 DEF RecordSuccess
  <2> QED BY <2>1, <2>2, <2>3
<1>3. ASSUME NEW c \in Call, RecordFailure(c) PROVE BreakerInv'
  <2> DEFINE trips == Trips(consecutive + 1, failures + 1, total + 1)
  <2>0. trips \in BOOLEAN
    BY DEF Trips, RateReached
  <2>1. /\ inFlight' = inFlight \ {c} /\ consecutive' = consecutive + 1
        /\ failures' = failures + 1 /\ total' = total + 1
        /\ breaker' = IF trips THEN "OPEN" ELSE breaker
        /\ resetTimer' = (resetTimer \/ trips)
    BY <1>3 DEF RecordFailure
  <2>2. ~trips => consecutive + 1 < FailureThreshold
    BY DEF Trips
  <2> HIDE DEF trips
  <2>3. BreakerTypeOK'
    <3>1. consecutive' \in Nat /\ failures' \in Nat /\ total' \in Nat
      BY <2>1
    <3>2. resetTimer' \in BOOLEAN
      BY <2>0, <2>1
    <3> QED BY <2>1, <3>1, <3>2
  <2>4. OpenHasTimer'
    BY <2>0, <2>1
  <2>5. ClosedBelowThreshold'
    BY <2>1, <2>2
  <2> QED BY <2>3, <2>4, <2>5
<1>4. ASSUME ResetTimerFires PROVE BreakerInv'
  BY <1>4 DEF ResetTimerFires
<1>5. ASSUME ResetBreaker PROVE BreakerInv'
  <2>1. consecutive' \in Nat /\ failures' \in Nat /\ total' \in Nat /\ consecutive' = 0
    BY <1>5 DEF ResetBreaker
  <2>2. resetTimer' = FALSE /\ breaker' = "CLOSED" /\ inFlight' = inFlight
    BY <1>5 DEF ResetBreaker
  <2>3. BreakerTypeOK' /\ OpenHasTimer'
    BY <2>1, <2>2
  <2>4. ClosedBelowThreshold'
    BY <2>1
  <2> QED BY <2>3, <2>4
<1>6. ASSUME UNCHANGED breakerVars PROVE BreakerInv'
  BY <1>6 DEF breakerVars
<1> HIDE DEF BreakerInv, BreakerTypeOK, OpenHasTimer, ClosedBelowThreshold
<1> QED BY <1>1, <1>2, <1>3, <1>4, <1>5, <1>6 DEF BreakerNext

\* The invariant of the breaker, for any calls and thresholds.
THEOREM BreakerInvariant == BreakerSpec => []BreakerInv
BY BreakerInitInv, BreakerStep, PTL DEF BreakerSpec

----------------------------------------------------------------------------
(* The chain alone.  Which provider a call is at does not matter here.     *)

HealthOK ==
  /\ health \in [Provider -> {"CLOSED", "OPEN", "HALF_OPEN"}]
  /\ timer \in [Provider -> BOOLEAN]

ChainInv == HealthOK /\ ProviderOpenHasTimer

\* A new chain satisfies its invariant.
LEMMA ChainInitInv == ChainInit => ChainInv
BY DEF ChainInit, ChainInv, HealthOK, ProviderOpenHasTimer

\* Every step of the chain keeps it: states and timers change together.
LEMMA ChainStep == ChainInv /\ [ChainNext]_chainVars => ChainInv'
<1> SUFFICES ASSUME ChainInv, [ChainNext]_chainVars PROVE ChainInv'
  OBVIOUS
<1> USE DEF ChainInv, HealthOK, ProviderOpenHasTimer
<1>0. ASSUME UNCHANGED <<health, timer>> PROVE ChainInv'
  BY <1>0
<1>1. ASSUME NEW c \in Walker, ChainStart(c) PROVE ChainInv'
  BY <1>0, <1>1 DEF ChainStart
<1>2. ASSUME NEW c \in Walker, ProviderSucceeds(c) PROVE ChainInv'
  BY <1>2 DEF ProviderSucceeds
<1>3. ASSUME NEW c \in Walker, ProviderFails(c) PROVE ChainInv'
  <2> DEFINE p     == Head(todo[c])
             opens == \/ health[p] = "HALF_OPEN"
                      \/ health[p] = "CLOSED" /\ fails[p] + 1 >= ProviderFailureThreshold
  <2>1. /\ health' = [health EXCEPT ![p] = IF opens THEN "OPEN" ELSE @]
        /\ timer' = [timer EXCEPT ![p] = @ \/ opens]
    BY <1>3 DEF ProviderFails
  <2>2. opens \in BOOLEAN /\ (health[p] = "OPEN" => ~opens)
    OBVIOUS
  <2> HIDE DEF p, opens
  <2>3. HealthOK'
    BY <2>1, <2>2
  <2>4. ProviderOpenHasTimer'
    BY <2>1, <2>2
  <2> QED BY <2>3, <2>4
<1>4. ASSUME NEW p \in Provider, AddProvider(p) PROVE ChainInv'
  BY <1>0, <1>4 DEF AddProvider
<1>5. ASSUME NEW p \in Provider, ProviderTimerFires(p) PROVE ChainInv'
  BY <1>5 DEF ProviderTimerFires
<1>6. CASE ResetChain
  BY <1>6 DEF ResetChain
<1>7. CASE UNCHANGED chainVars
  BY <1>0, <1>7 DEF chainVars
<1> QED BY <1>1, <1>2, <1>3, <1>4, <1>5, <1>6, <1>7 DEF ChainNext

\* The invariant of the chain, for any calls, providers and priorities.
THEOREM ChainInvariant == ChainSpec => []ChainInv
BY ChainInitInv, ChainStep, PTL DEF ChainSpec

----------------------------------------------------------------------------
(* The composition.                                                        *)

\* A step of a call, of a timer or of the operator is a step of the breaker
\* or leaves it alone.
LEMMA NextIsBreakerStep == [Next]_hardeningVars => [BreakerNext]_breakerVars
<1> SUFFICES ASSUME [Next]_hardeningVars PROVE [BreakerNext]_breakerVars
  OBVIOUS
<1> USE DEF BreakerNext, breakerVars
<1>1. ASSUME NEW c \in Call, NEW from, Rejected(c, from) \/ Refused(c, from) \/ Admitted(c, from)
      PROVE  [BreakerNext]_breakerVars
  BY <1>1 DEF Rejected, Refused, Admitted
<1>2. ASSUME NEW c \in Call, Settle(c) PROVE [BreakerNext]_breakerVars
  BY <1>2 DEF Settle, AttemptSucceeds, AttemptFails, Retry, Fallback,
              FallbackSucceeds, FallbackFails
<1>3. ASSUME NEW c \in Call, Execute(c) \/ ExecuteConsumed(c) PROVE [BreakerNext]_breakerVars
  BY <1>1, <1>3 DEF Execute, ExecuteConsumed
<1>4. ASSUME NEW c \in Call, ExecuteAsync(c) \/ Consume(c) PROVE [BreakerNext]_breakerVars
  BY <1>4 DEF ExecuteAsync, Consume
<1>5. ASSUME NEW p \in Provider, AddFallbackProvider(p) PROVE [BreakerNext]_breakerVars
  BY <1>5 DEF AddFallbackProvider
<1>6. CASE BreakerTimerFires \/ ProviderTimersFire \/ Refill \/ Reset
  BY <1>6 DEF BreakerTimerFires, ProviderTimersFire, Refill, Reset
<1>7. CASE UNCHANGED hardeningVars
  BY <1>7 DEF hardeningVars
<1> QED BY <1>2, <1>3, <1>4, <1>5, <1>6, <1>7 DEF Next

\* And of the chain.
LEMMA NextIsChainStep == [Next]_hardeningVars => [ChainNext]_chainVars
<1> SUFFICES ASSUME [Next]_hardeningVars PROVE [ChainNext]_chainVars
  OBVIOUS
<1> USE HardeningConstants DEF ChainNext, chainVars
<1>2. ASSUME NEW c \in Call, Settle(c) PROVE [ChainNext]_chainVars
  BY <1>2 DEF Settle, AttemptSucceeds, AttemptFails, Retry, Fallback,
              FallbackSucceeds, FallbackFails
<1>3. ASSUME NEW c \in Call, Execute(c) \/ ExecuteConsumed(c) PROVE [ChainNext]_chainVars
  BY <1>3 DEF Execute, ExecuteConsumed
<1>4. ASSUME NEW c \in Call, ExecuteAsync(c) \/ Consume(c) PROVE [ChainNext]_chainVars
  BY <1>4 DEF ExecuteAsync, Consume
<1>5. ASSUME NEW p \in Provider, AddFallbackProvider(p) PROVE [ChainNext]_chainVars
  BY <1>5 DEF AddFallbackProvider
<1>6. CASE BreakerTimerFires \/ ProviderTimersFire \/ Refill \/ Reset
  BY <1>6 DEF BreakerTimerFires, ProviderTimersFire, Refill, Reset
<1>7. CASE UNCHANGED hardeningVars
  BY <1>7 DEF hardeningVars
<1> QED BY <1>2, <1>3, <1>4, <1>5, <1>6, <1>7 DEF Next

\* The hardened call implements its breaker and its chain.
THEOREM Composition == Spec => BreakerSpec /\ ChainSpec
<1>1. Init => BreakerInit /\ ChainInit
  BY DEF Init
<1> QED BY <1>1, NextIsBreakerStep, NextIsChainStep, PTL
        DEF Spec, BreakerSpec, ChainSpec

\* In a hardened call the breaker is open exactly while its timer runs, for
\* any number of calls and attempts, whatever comes late.
THEOREM BreakerTimer == Spec => []OpenHasTimer
<1>1. BreakerInv => OpenHasTimer
  BY DEF BreakerInv
<1> QED BY <1>1, Composition, BreakerInvariant, PTL

\* A closed breaker is below its threshold.
THEOREM BreakerThreshold == Spec => []ClosedBelowThreshold
<1>1. BreakerInv => ClosedBelowThreshold
  BY DEF BreakerInv
<1> QED BY <1>1, Composition, BreakerInvariant, PTL

\* A provider is open exactly while its timer runs.
THEOREM ProviderTimer == Spec => []ProviderOpenHasTimer
<1>1. ChainInv => ProviderOpenHasTimer
  BY DEF ChainInv
<1> QED BY <1>1, Composition, ChainInvariant, PTL
=============================================================================
