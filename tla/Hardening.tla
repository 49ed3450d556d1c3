------------------------------ MODULE Hardening ------------------------------
(***************************************************************************)
(* The hardened call of a provider (resilience/hardeningOrchestrator.ts):  *)
(* rate limiter, circuit breaker, retries with a timeout, fallback chain.  *)
(* Calls run on one thread and interleave at their awaits; up to its first *)
(* await a call is one step.                                               *)
(*                                                                         *)
(* The timeout does not stop a function, it stops waiting for it, so an    *)
(* attempt that times out is one that fails.  Tokens come one at a time;   *)
(* their fractions are left out.                                           *)
(***************************************************************************)
EXTENDS CircuitBreaker, FallbackChain

CONSTANTS
  MaxAttempts,   \* attempts of the retry handler
  Burst,         \* maxTokens of the rate limiter
  MaxCalls       \* bound on the calls ever made

ASSUME HardeningConstants ==
  Walker = Call /\ MaxAttempts \in Nat \ {0} /\ Burst \in Nat \ {0} /\ MaxCalls \in Nat

VARIABLES
  tokens,    \* of the rate limiter
  pc,        \* where each call stands
  attempt,   \* its attempt
  made       \* calls made so far

hardeningVars == <<breakerVars, chainVars, tokens, pc, attempt, made>>

Init ==
  /\ BreakerInit /\ ChainInit
  /\ tokens = Burst
  /\ pc = [c \in Call |-> "idle"] /\ attempt = [c \in Call |-> 0]
  /\ made = 0

Goto(c, from, to) == pc[c] = from /\ pc' = [pc EXCEPT ![c] = to]

\* tryConsume, then the breaker, then the first attempt.
Rejected(c, from) ==
  /\ tokens = 0
  /\ Goto(c, from, "idle")
  /\ UNCHANGED <<breakerVars, tokens, attempt>>

Refused(c, from) ==
  /\ tokens > 0 /\ tokens' = tokens - 1
  /\ breaker = "OPEN"
  /\ Goto(c, from, "fallback")
  /\ UNCHANGED <<breakerVars, attempt>>

Admitted(c, from) ==
  /\ tokens > 0 /\ tokens' = tokens - 1
  /\ Admit(c)
  /\ Goto(c, from, "attempt")
  /\ attempt' = [attempt EXCEPT ![c] = 1]

Execute(c) ==
  /\ made < MaxCalls /\ made' = made + 1
  /\ Rejected(c, "idle") \/ Refused(c, "idle") \/ Admitted(c, "idle")
  /\ UNCHANGED chainVars

\* executeWithAsyncRateLimit waits for a token, and then calls execute, which
\* takes another.
ExecuteAsync(c) ==
  /\ made < MaxCalls /\ made' = made + 1
  /\ Goto(c, "idle", "waiting")
  /\ UNCHANGED <<breakerVars, chainVars, tokens, attempt>>

Consume(c) ==
  /\ tokens > 0 /\ tokens' = tokens - 1
  /\ Goto(c, "waiting", "consumed")
  /\ UNCHANGED <<breakerVars, chainVars, attempt, made>>

ExecuteConsumed(c) ==
  /\ Rejected(c, "consumed") \/ Refused(c, "consumed") \/ Admitted(c, "consumed")
  /\ UNCHANGED <<chainVars, made>>

Refill ==
  /\ tokens < Burst
  /\ tokens' = tokens + 1
  /\ UNCHANGED <<breakerVars, chainVars, pc, attempt, made>>

AttemptSucceeds(c) ==
  /\ Goto(c, "attempt", "idle")
  /\ RecordSuccess(c)
  /\ UNCHANGED <<chainVars, tokens, attempt, made>>

\* The breaker hears of the last attempt only.
AttemptFails(c) ==
  /\ \/ /\ attempt[c] < MaxAttempts
        /\ Goto(c, "attempt", "backoff")
        /\ UNCHANGED breakerVars
     \/ /\ attempt[c] = MaxAttempts
        /\ Goto(c, "attempt", "fallback")
        /\ RecordFailure(c)
  /\ UNCHANGED <<chainVars, tokens, attempt, made>>

\* Slip: the attempts are not counted.
RetryForEver(c) ==
  /\ Goto(c, "backoff", "attempt")
  /\ UNCHANGED <<breakerVars, chainVars, tokens, attempt, made>>

\* The next attempt is made whatever the breaker has become.
Retry(c) ==
  /\ Goto(c, "backoff", "attempt")
  /\ attempt' = [attempt EXCEPT ![c] = @ + 1]
  /\ UNCHANGED <<breakerVars, chainVars, tokens, made>>

\* Without providers the call throws what the primary threw.
Fallback(c) ==
  /\ \/ providers = <<>> /\ Goto(c, "fallback", "idle") /\ UNCHANGED chainVars
     \/ Goto(c, "fallback", "chain") /\ ChainStart(c)
  /\ UNCHANGED <<breakerVars, tokens, attempt, made>>

FallbackSucceeds(c) ==
  /\ Goto(c, "chain", "idle")
  /\ ProviderSucceeds(c)
  /\ UNCHANGED <<breakerVars, tokens, attempt, made>>

FallbackFails(c) ==
  /\ Goto(c, "chain", IF Len(todo[c]) = 1 THEN "idle" ELSE "chain")
  /\ ProviderFails(c)
  /\ UNCHANGED <<breakerVars, tokens, attempt, made>>

AddFallbackProvider(p) ==
  /\ AddProvider(p)
  /\ UNCHANGED <<breakerVars, tokens, pc, attempt, made>>

BreakerTimerFires ==
  /\ ResetTimerFires
  /\ UNCHANGED <<chainVars, tokens, pc, attempt, made>>

ProviderTimersFire ==
  /\ \E p \in Provider : ProviderTimerFires(p)
  /\ UNCHANGED <<breakerVars, tokens, pc, attempt, made>>

Reset ==
  /\ ResetBreaker /\ ResetChain
  /\ tokens' = Burst
  /\ UNCHANGED <<pc, attempt, made>>

\* What a call does when something it awaits has settled.
Settle(c) ==
  \/ AttemptSucceeds(c) \/ AttemptFails(c) \/ Retry(c)
  \/ Fallback(c) \/ FallbackSucceeds(c) \/ FallbackFails(c)

Next ==
  \/ \E c \in Call : \/ Execute(c) \/ ExecuteAsync(c) \/ Consume(c)
                     \/ ExecuteConsumed(c) \/ Settle(c)
  \/ \E p \in Provider : AddFallbackProvider(p)
  \/ BreakerTimerFires \/ ProviderTimersFire \/ Refill \/ Reset

Spec == Init /\ [][Next]_hardeningVars

\* Timers fire and tokens come.  The primary may hang: the timeout ends the
\* attempt.  The providers of the chain have no timeout: that they settle is
\* assumed.  Who waits for a token polls, and may lose each to a rival: that
\* it gets one in the end rests on the rivals being finitely many (MaxCalls).
FairSpec ==
  /\ Spec
  /\ WF_hardeningVars(BreakerTimerFires)
  /\ WF_hardeningVars(Refill)
  /\ \A c \in Call : /\ WF_hardeningVars(AttemptFails(c) \/ Retry(c))
                     /\ WF_hardeningVars(Fallback(c))
                     /\ WF_hardeningVars(FallbackSucceeds(c) \/ FallbackFails(c))
                     /\ WF_hardeningVars(ExecuteConsumed(c))
                     /\ WF_hardeningVars(Consume(c))

----------------------------------------------------------------------------
(* Properties.                                                             *)

\* Every call ends, though the primary may hang for ever
\* (hardeningOrchestrator.ts:66-105).
CallsEnd == \A c \in Call : pc[c] # "idle" ~> pc[c] = "idle"

\* An open breaker does not stay open for ever.
BreakerRecovers == breaker = "OPEN" ~> breaker # "OPEN"
=============================================================================
