---------------------------- MODULE FallbackChain ----------------------------
(***************************************************************************)
(* A chain of providers that are tried in the order of their priority      *)
(* (resilience/fallbackChain.ts), each with a health state of its own.     *)
(* Calls walk along the chain concurrently.  The list a call walks is the  *)
(* one that was eligible when it began or, when every provider was open,   *)
(* the list of the chain itself, which changes under it when a provider is *)
(* added.  The states it writes are shared.                                *)
(*                                                                         *)
(* A provider is added once: adding a name again would leave the calls     *)
(* under way, and the timer, with a state object nobody reads.             *)
(***************************************************************************)
EXTENDS Naturals, SequencesExt

CONSTANTS
  Walker,                    \* calls that may walk the chain
  Provider,                  \* provider names
  Priority,                  \* their priorities, small first
  ProviderFailureThreshold

ASSUME ChainConstants ==
  /\ Priority \in [Provider -> Nat]
  /\ ProviderFailureThreshold \in Nat \ {0}

VARIABLES
  providers,   \* the providers added, sorted
  health,      \* state, by provider
  fails,       \* consecutiveFailures, by provider
  timer,       \* resetTimer is armed, by provider
  todo,        \* by call: the provider it is trying and those after it
  live         \* the calls that walk the chain's own list

chainVars == <<providers, health, fails, timer, todo, live>>

ChainInit ==
  /\ providers = <<>>
  /\ health = [p \in Provider |-> "CLOSED"]
  /\ fails  = [p \in Provider |-> 0]
  /\ timer  = [p \in Provider |-> FALSE]
  /\ todo   = [c \in Walker |-> <<>>]
  /\ live   = {}

\* What a call on the chain's own list has before it once the list has grown:
\* it keeps its place, so it may come upon the provider it is trying again.
Regrown(c, list) ==
  LET at == Len(providers) - Len(todo[c]) + 1
  IN <<Head(todo[c])>> \o SubSeq(list, at + 1, Len(list))

\* The sort is stable: behind those of the same priority.
AddProvider(p) ==
  /\ p \notin ToSet(providers)
  /\ LET Before(q) == Priority[q] <= Priority[p]
         After(q)  == Priority[q] > Priority[p]
     IN providers' = SelectSeq(providers, Before) \o <<p>> \o SelectSeq(providers, After)
  /\ todo' = [c \in Walker |-> IF c \in live THEN Regrown(c, providers') ELSE todo[c]]
  /\ UNCHANGED <<health, fails, timer, live>>

Eligible(p) == health[p] # "OPEN"

\* When every provider is open, all of them are tried.
ChainStart(c) ==
  /\ todo[c] = <<>>
  /\ providers # <<>>
  /\ \/ /\ \E p \in ToSet(providers) : Eligible(p)
        /\ todo' = [todo EXCEPT ![c] = SelectSeq(providers, Eligible)]
        /\ UNCHANGED live
     \/ /\ \A p \in ToSet(providers) : ~Eligible(p)
        /\ todo' = [todo EXCEPT ![c] = providers]
        /\ live' = live \cup {c}
  /\ UNCHANGED <<providers, health, fails, timer>>

\* Slip: the timer is not cleared.
ProviderSucceedsTimed(c) ==
  /\ todo[c] # <<>>
  /\ LET p == Head(todo[c])
     IN /\ health' = [health EXCEPT ![p] = "CLOSED"]
        /\ fails'  = [fails EXCEPT ![p] = 0]
  /\ todo' = [todo EXCEPT ![c] = <<>>]
  /\ live' = live \ {c}
  /\ UNCHANGED <<providers, timer>>

ProviderSucceeds(c) ==
  /\ todo[c] # <<>>
  /\ LET p == Head(todo[c])
     IN /\ health' = [health EXCEPT ![p] = "CLOSED"]
        /\ fails'  = [fails EXCEPT ![p] = 0]
        /\ timer'  = [timer EXCEPT ![p] = FALSE]
  /\ todo' = [todo EXCEPT ![c] = <<>>]
  /\ live' = live \ {c}
  /\ UNCHANGED providers

\* A failure opens a closed provider at the threshold and a half-open one at
\* once.  One that is open already, because another call has opened it or
\* because there is no other to try, stays open, and its timer runs on.
ProviderFails(c) ==
  /\ todo[c] # <<>>
  /\ LET p     == Head(todo[c])
         opens == \/ health[p] = "HALF_OPEN"
                  \/ health[p] = "CLOSED" /\ fails[p] + 1 >= ProviderFailureThreshold
     IN /\ fails'  = [fails EXCEPT ![p] = @ + 1]
        /\ health' = [health EXCEPT ![p] = IF opens THEN "OPEN" ELSE @]
        /\ timer'  = [timer EXCEPT ![p] = @ \/ opens]
  /\ todo' = [todo EXCEPT ![c] = Tail(@)]
  /\ live' = IF Tail(todo[c]) = <<>> THEN live \ {c} ELSE live
  /\ UNCHANGED providers

ProviderTimerFires(p) ==
  /\ timer[p]
  /\ health' = [health EXCEPT ![p] = "HALF_OPEN"]
  /\ timer'  = [timer EXCEPT ![p] = FALSE]
  /\ UNCHANGED <<providers, fails, todo, live>>

\* reset: calls under way go on.
ResetChain ==
  /\ health' = [p \in Provider |-> "CLOSED"]
  /\ fails'  = [p \in Provider |-> 0]
  /\ timer'  = [p \in Provider |-> FALSE]
  /\ UNCHANGED <<providers, todo, live>>

ChainNext ==
  \/ \E c \in Walker : ChainStart(c) \/ ProviderSucceeds(c) \/ ProviderFails(c)
  \/ \E p \in Provider : AddProvider(p) \/ ProviderTimerFires(p)
  \/ ResetChain

ChainSpec == ChainInit /\ [][ChainNext]_chainVars

----------------------------------------------------------------------------
(* Properties.                                                             *)

\* Health states, counters and the lists of the calls are of their types: a
\* call tries providers that have been added, and one that walks the chain's
\* own list is at a place of it.
ChainTypeOK ==
  /\ providers \in Seq(Provider) /\ IsInjective(providers)
  /\ health \in [Provider -> {"CLOSED", "OPEN", "HALF_OPEN"}]
  /\ fails \in [Provider -> Nat]
  /\ timer \in [Provider -> BOOLEAN]
  /\ todo \in [Walker -> Seq(ToSet(providers))]
  /\ live \subseteq {c \in Walker : todo[c] # <<>> /\ Len(todo[c]) <= Len(providers)}

\* A provider that is open has a timer that will let it be tried again, and
\* no other has one, whatever calls succeed or fail late
\* (fallbackChain.ts:103-151).
ProviderOpenHasTimer == \A p \in Provider : timer[p] = (health[p] = "OPEN")
=============================================================================
