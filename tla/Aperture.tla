------------------------------ MODULE Aperture ------------------------------
(***************************************************************************)
(* The aperture: calls of one agent to one adapter, checked against the    *)
(* agent's policy (PolicyEngine), run in a sandbox of their own or in one  *)
(* the caller lends (SandboxRuntime), retried and timed out                *)
(* (ExecutionOrchestrator.execute).  A call is a chain of awaits: between  *)
(* two of them other calls run, policies are loaded, limits are reset.     *)
(* Promise.race does not stop the adapter it gives up on: the straggler    *)
(* goes on in the sandbox, and a file write re-creates a directory that    *)
(* was removed (FileWriteAdapter's ensureDir).                             *)
(*                                                                         *)
(* A sandbox has the name of the call it was made for, Lent is the one a   *)
(* caller made, whose directory is left out; a call that starts again has  *)
(* a new sandbox, and what its former run left behind is forgotten with    *)
(* it.  cleanupAll sweeps the sandboxes under the calls that use them.     *)
(***************************************************************************)
EXTENDS Integers, Sequences, FiniteSets, SequencesExt

CONSTANTS Call,         \* calls that may be in progress at the same time
          Lent,         \* the sandbox a caller owns
          Definition,   \* policies of the agent: name, allowed, calls, approve
          HighestLimit, \* the largest max_calls of a definition
          MaxRetries    \* adapterDef.policy.maxRetries || 1

ASSUME ApertureAssumption ==
  /\ IsFiniteSet(Call) /\ Lent \notin Call
  /\ HighestLimit \in Nat \ {0}
  /\ \A d \in Definition : d.calls \in 0..HighestLimit
  /\ MaxRetries \in Nat \ {0}

VARIABLES policies,    \* the agent's policies in the order of the Map
          counted,     \* the agent's "calls" counter
          stage,       \* where each call is
          box,         \* the sandbox each call uses
          attempt,     \* its attempt, from 0
          lastError,   \* "some" when an attempt of it has failed
          running,     \* adapter executions of the call still in progress
          registered,  \* sandboxes the runtime knows
          sweep,       \* what a cleanupAll has still to do with each sandbox
          directory,   \* calls whose sandbox has its directory
          excused      \* calls whose directory a fault, a straggler or a sweep may leave

perCall == <<stage, box, attempt, lastError, running>>
apertureVars == <<policies, counted, perCall, registered, sweep, directory, excused>>

ApertureInit ==
  /\ policies = <<>>
  /\ counted = 0
  /\ stage = [c \in Call |-> "idle"]
  /\ box = [c \in Call |-> c]
  /\ attempt = [c \in Call |-> 0]
  /\ lastError = [c \in Call |-> "none"]
  /\ running = [c \in Call |-> 0]
  /\ registered = {}
  /\ sweep = [c \in Call |-> "none"]
  /\ directory = {}
  /\ excused = {}

(* load: a name that is known keeps its place in the Map. *)
Load(d) ==
  /\ LET same == {i \in DOMAIN policies : policies[i].name = d.name}
     IN policies' = IF same = {} THEN Append(policies, d)
                    ELSE [i \in DOMAIN policies |-> IF i \in same THEN d ELSE policies[i]]
  /\ UNCHANGED <<counted, perCall, registered, sweep, directory, excused>>

ResetLimits ==
  /\ counted' = 0
  /\ UNCHANGED <<policies, perCall, registered, sweep, directory, excused>>

(* getPolicyForAgent, authorize and checkLimits: the last of the Map governs. *)
Governing == Last(policies)

(* Slip: a limit that is compared with <= lets one call more through. *)
AdmittedAtLimit == policies # <<>> /\ Governing.allowed /\ counted =< Governing.calls
Admitted == policies # <<>> /\ Governing.allowed /\ counted < Governing.calls

(* Steps 1 to 5 of execute, without an await: a call that is refused ends here. *)
Start(c, lends) ==
  /\ stage[c] = "idle" /\ running[c] = 0 /\ sweep[c] = "none"
  /\ lends => Lent \in registered
  /\ Admitted
  /\ stage' = [stage EXCEPT ![c] = IF Governing.approve THEN "gate"
                             ELSE IF lends THEN "attempt" ELSE "create"]
  /\ box' = [box EXCEPT ![c] = IF lends THEN Lent ELSE c]
  /\ attempt' = [attempt EXCEPT ![c] = 0]
  /\ lastError' = [lastError EXCEPT ![c] = "none"]
  /\ directory' = directory \ {c}
  /\ excused' = excused \ {c}
  /\ UNCHANGED <<policies, counted, running, registered, sweep>>

(* The gate approves, or fails (the call goes on as "pending"), or rejects. *)
GateAnswers(c, rejects) ==
  /\ stage[c] = "gate"
  /\ stage' = [stage EXCEPT ![c] = IF rejects THEN "idle"
                             ELSE IF box[c] = Lent THEN "attempt" ELSE "create"]
  /\ UNCHANGED <<policies, counted, box, attempt, lastError, running, registered, sweep, directory, excused>>

(* SandboxRuntime.create: the directory, then the credentials, then the handle.  A
   failure of the injector leaves a directory that no handle knows. *)
MakeDirectory(c, fails) ==
  /\ stage[c] = "create"
  /\ stage' = [stage EXCEPT ![c] = IF fails THEN "idle" ELSE "inject"]
  /\ directory' = IF fails THEN directory ELSE directory \cup {c}
  /\ UNCHANGED <<policies, counted, box, attempt, lastError, running, registered, sweep, excused>>

InjectCredentials(c, fails) ==
  /\ stage[c] = "inject"
  /\ stage' = [stage EXCEPT ![c] = IF fails THEN "idle" ELSE "attempt"]
  /\ registered' = IF fails THEN registered ELSE registered \cup {c}
  /\ excused' = IF fails THEN excused \cup {c} ELSE excused
  /\ UNCHANGED <<policies, counted, box, attempt, lastError, running, sweep, directory>>

(* Step 7: one round of the retry loop starts the adapter and a timer. *)
StartAdapter(c) ==
  /\ stage[c] = "attempt"
  /\ stage' = [stage EXCEPT ![c] = "racing"]
  /\ running' = [running EXCEPT ![c] = @ + 1]
  /\ UNCHANGED <<policies, counted, box, attempt, lastError, registered, sweep, directory, excused>>

(* An execution ends.  It may have written into its sandbox, and what it writes makes the
   directory again that somebody has removed. *)
ExecutionEnds(c, writes) ==
  /\ running' = [running EXCEPT ![c] = @ - 1]
  /\ directory' = IF writes THEN directory \cup ({box[c]} \cap Call) ELSE directory

(* SandboxRuntime.cleanup by the call: a sandbox that is not registered any more is left
   alone. *)
OwnCleanup(c) == IF box[c] \in registered THEN "remove" ELSE "idle"

(* After the last failed attempt an own sandbox is cleaned up, a lent one is not. *)
(* Slip: the failure path returns without the cleanup. *)
LeaveSandbox(c) == "idle"
AfterFailure(c) == IF box[c] = Lent THEN "idle" ELSE OwnCleanup(c)

(* An attempt fails: it is retried, up to maxRetries times. *)
Fail(c) ==
  /\ lastError' = [lastError EXCEPT ![c] = "some"]
  /\ attempt' = [attempt EXCEPT ![c] = IF @ < MaxRetries THEN @ + 1 ELSE @]
  /\ stage' = [stage EXCEPT ![c] = IF attempt[c] < MaxRetries THEN "attempt" ELSE AfterFailure(c)]
  /\ UNCHANGED counted

AdapterThrows(c, writes) ==
  /\ stage[c] = "racing"
  /\ Fail(c)
  /\ ExecutionEnds(c, writes)
  /\ UNCHANGED <<policies, box, registered, sweep, excused>>

TimerFires(c) ==
  /\ stage[c] = "racing"
  /\ Fail(c)
  /\ excused' = excused \cup {c}
  /\ UNCHANGED <<policies, box, running, registered, sweep, directory>>

(* Steps 8 to 10 of a call whose adapter answered.  An adapter that answers undefined
   makes the size of the output throw, unless an attempt failed before it: then the call
   counts as failed.  The limits are counted only here. *)
AdapterAnswers(c, undefined, writes) ==
  /\ stage[c] = "racing"
  /\ ExecutionEnds(c, writes)
  /\ IF undefined
     THEN /\ stage' = [stage EXCEPT ![c] = IF lastError[c] = "none" THEN OwnCleanup(c) ELSE AfterFailure(c)]
          /\ UNCHANGED counted
     ELSE /\ stage' = [stage EXCEPT ![c] = IF box[c] = Lent THEN "idle" ELSE OwnCleanup(c)]
          /\ counted' = counted + 1
  /\ UNCHANGED <<policies, box, attempt, lastError, registered, sweep, excused>>

(* An execution that lost its race ends late. *)
Straggler(c) == running[c] > (IF stage[c] = "racing" THEN 1 ELSE 0)

StragglerEnds(c, writes) ==
  /\ Straggler(c)
  /\ ExecutionEnds(c, writes)
  /\ UNCHANGED <<policies, counted, stage, box, attempt, lastError, registered, sweep, excused>>

(* The removal may fail, which is ignored; the registration goes in any case, after the
   credentials have been revoked. *)
RemoveDirectory(c, fails) ==
  /\ stage[c] = "remove"
  /\ stage' = [stage EXCEPT ![c] = "deregister"]
  /\ directory' = IF fails THEN directory ELSE directory \ {box[c]}
  /\ excused' = IF fails THEN excused \cup {c} ELSE excused
  /\ UNCHANGED <<policies, counted, box, attempt, lastError, running, registered, sweep>>

Deregister(c) ==
  /\ stage[c] = "deregister"
  /\ stage' = [stage EXCEPT ![c] = "idle"]
  /\ registered' = registered \ {box[c]}
  /\ UNCHANGED <<policies, counted, box, attempt, lastError, running, sweep, directory, excused>>

(* A caller makes a sandbox of its own, and cleans it up; or cleanupAll does. *)
Lend ==
  /\ Lent \notin registered
  /\ registered' = registered \cup {Lent}
  /\ UNCHANGED <<policies, counted, perCall, sweep, directory, excused>>

TakeBack ==
  /\ Lent \in registered
  /\ registered' = registered \ {Lent}
  /\ UNCHANGED <<policies, counted, perCall, sweep, directory, excused>>

(* cleanupAll starts, under the calls that are in progress.  What is being swept already is
   not swept twice: the second rm and delete find nothing. *)
CleanupAll ==
  /\ sweep' = [c \in Call |-> IF c \in registered /\ sweep[c] = "none" THEN "remove" ELSE sweep[c]]
  /\ sweep' # sweep
  /\ excused' = excused \cup {c \in Call \cap registered : stage[c] \in {"attempt", "racing"}}
  /\ UNCHANGED <<policies, counted, perCall, registered, directory>>

(* Its cleanup of a sandbox, like the call's own. *)
SweepRemoves(c, fails) ==
  /\ sweep[c] = "remove"
  /\ sweep' = [sweep EXCEPT ![c] = "deregister"]
  /\ directory' = IF fails THEN directory ELSE directory \ {c}
  /\ excused' = IF fails THEN excused \cup {c} ELSE excused
  /\ UNCHANGED <<policies, counted, perCall, registered>>

SweepDeregisters(c) ==
  /\ sweep[c] = "deregister"
  /\ sweep' = [sweep EXCEPT ![c] = "none"]
  /\ registered' = registered \ {c}
  /\ UNCHANGED <<policies, counted, perCall, directory, excused>>

ApertureNext ==
  \/ \E d \in Definition : Load(d)
  \/ ResetLimits \/ Lend \/ TakeBack \/ CleanupAll
  \/ \E c \in Call, b \in BOOLEAN :
       \/ Start(c, b) \/ GateAnswers(c, b) \/ MakeDirectory(c, b) \/ InjectCredentials(c, b)
       \/ AdapterThrows(c, b) \/ StragglerEnds(c, b) \/ RemoveDirectory(c, b) \/ SweepRemoves(c, b)
       \/ \E undefined \in BOOLEAN : AdapterAnswers(c, undefined, b)
  \/ \E c \in Call : StartAdapter(c) \/ TimerFires(c) \/ Deregister(c) \/ SweepDeregisters(c)

ApertureSpec == ApertureInit /\ [][ApertureNext]_apertureVars
-----------------------------------------------------------------------------
(* The call limit is read before four awaits and counted after them, and only for calls
   that succeed (ExecutionOrchestrator.ts:108, 262): calls in progress together overrun
   it, but never by as many as there are of them. *)
LimitOverrunBounded == counted =< HighestLimit + Cardinality(Call) - 1

(* The sandbox a call made for itself is gone when the call is over, on every path out of
   execute and whatever sweeps cross it (ExecutionOrchestrator.ts:240, 269, 337): it is not
   registered, and its directory is left only when a removal or the injector failed
   (SandboxRuntime.ts:105, 269), an attempt timed out, or a cleanupAll swept the sandbox
   while the call was at its attempts: an execution then makes the directory again, and the
   call's own cleanup returns early (FileWriteAdapter.ts:85, SandboxRuntime.ts:216). *)
SandboxesCleaned ==
  \A c \in Call : stage[c] = "idle" => c \notin registered /\ (c \in directory => c \in excused)
=============================================================================
