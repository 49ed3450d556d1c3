---------------------------- MODULE CircuitBreaker ----------------------------
(***************************************************************************)
(* A circuit breaker (resilience/circuitBreaker.ts) and the calls that go  *)
(* through it.  A call is admitted unless the breaker is open, then waits  *)
(* for its function; other calls, and the reset timer, run meanwhile, so a *)
(* result may come in a state other than the one its call was admitted in. *)
(*                                                                         *)
(* The request window is left out: the code fills it and never reads it.   *)
(* The failure rate is over all results since the last reset.              *)
(***************************************************************************)
EXTENDS Naturals

CONSTANTS
  Call,              \* calls that may be in flight
  FailureThreshold,  \* consecutive failures that open the breaker
  RateNum, RateDen   \* failureRateThreshold, as a fraction

ASSUME BreakerConstants ==
  /\ FailureThreshold \in Nat \ {0}
  /\ RateNum \in Nat /\ RateDen \in Nat \ {0}

VARIABLES
  breaker,      \* state
  consecutive,  \* consecutiveFailures
  failures,     \* failureCount
  total,        \* totalRequests
  resetTimer,   \* resetTimer is armed
  inFlight      \* the calls whose function has not settled

breakerVars == <<breaker, consecutive, failures, total, resetTimer, inFlight>>

BreakerInit ==
  /\ breaker = "CLOSED"
  /\ consecutive = 0 /\ failures = 0 /\ total = 0
  /\ resetTimer = FALSE
  /\ inFlight = {}

\* execute, up to the await; it throws at once when the breaker is open.
Admit(c) ==
  /\ breaker # "OPEN"
  /\ c \in Call \ inFlight
  /\ inFlight' = inFlight \cup {c}
  /\ UNCHANGED <<breaker, consecutive, failures, total, resetTimer>>

\* Slip: any success closes the breaker, and the timer goes on.
RecordSuccessAlways(c) ==
  /\ c \in inFlight
  /\ inFlight' = inFlight \ {c}
  /\ consecutive' = 0
  /\ total' = total + 1
  /\ breaker' = "CLOSED"
  /\ UNCHANGED <<failures, resetTimer>>

\* The result of a call that was admitted before the breaker opened counts
\* as any other.
RecordSuccess(c) ==
  /\ c \in inFlight
  /\ inFlight' = inFlight \ {c}
  /\ consecutive' = 0
  /\ total' = total + 1
  /\ breaker' = IF breaker = "HALF_OPEN" THEN "CLOSED" ELSE breaker
  /\ resetTimer' = (resetTimer /\ breaker # "HALF_OPEN")
  /\ UNCHANGED failures

RateReached(f, t) == f * RateDen >= RateNum * t

\* Slip: the threshold is passed, not reached.
TripsAbove(n, f, t) == n > FailureThreshold \/ RateReached(f, t)

Trips(n, f, t) == n >= FailureThreshold \/ RateReached(f, t)

RecordFailure(c) ==
  /\ c \in inFlight
  /\ inFlight' = inFlight \ {c}
  /\ consecutive' = consecutive + 1
  /\ failures' = failures + 1
  /\ total' = total + 1
  /\ LET trips == Trips(consecutive + 1, failures + 1, total + 1)
     IN /\ breaker' = IF trips THEN "OPEN" ELSE breaker
        /\ resetTimer' = (resetTimer \/ trips)

\* Slip: a timer that fires while calls are in flight is ignored.
ResetTimerFiresLate ==
  /\ resetTimer
  /\ resetTimer' = FALSE
  /\ breaker' = IF inFlight = {} THEN "HALF_OPEN" ELSE breaker
  /\ UNCHANGED <<consecutive, failures, total, inFlight>>

ResetTimerFires ==
  /\ resetTimer
  /\ breaker' = "HALF_OPEN"
  /\ resetTimer' = FALSE
  /\ UNCHANGED <<consecutive, failures, total, inFlight>>

\* reset: calls in flight will still report.
ResetBreaker ==
  /\ breaker' = "CLOSED"
  /\ consecutive' = 0 /\ failures' = 0 /\ total' = 0
  /\ resetTimer' = FALSE
  /\ UNCHANGED inFlight

BreakerNext ==
  \/ \E c \in Call : Admit(c) \/ RecordSuccess(c) \/ RecordFailure(c)
  \/ ResetTimerFires
  \/ ResetBreaker

BreakerSpec == BreakerInit /\ [][BreakerNext]_breakerVars

----------------------------------------------------------------------------
(* Properties.                                                             *)

\* The breaker is in one of its three states and its counters count.
BreakerTypeOK ==
  /\ breaker \in {"CLOSED", "OPEN", "HALF_OPEN"}
  /\ consecutive \in Nat /\ failures \in Nat /\ total \in Nat
  /\ resetTimer \in BOOLEAN
  /\ inFlight \subseteq Call

\* The reset timer is armed exactly while the breaker is open, whatever late
\* results, resets and rearmings there are (circuitBreaker.ts:98-118, 146):
\* an open breaker without a timer would refuse calls for ever, and a timer
\* left behind would reopen a closed one.
OpenHasTimer == resetTimer = (breaker = "OPEN")

\* A closed breaker has not had as many failures in a row as open it, also
\* after late results of earlier calls (circuitBreaker.ts:66-101).
ClosedBelowThreshold == breaker = "CLOSED" => consecutive < FailureThreshold

\* queue-resilience-testing-design.md:37 says that in HALF-OPEN a "failure
\* re-opens circuit breaker immediately": no failure that comes in HALF_OPEN
\* leaves the breaker there.
ProbeFailureReopens ==
  [][\A c \in Call :
       breaker = "HALF_OPEN" /\ RecordFailure(c) => breaker' = "OPEN"]_breakerVars
=============================================================================
