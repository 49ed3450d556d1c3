----------------------------- MODULE SandboxEnv -----------------------------
(***************************************************************************)
(* SandboxRuntime.execute points the process's one TMPDIR at the sandbox,  *)
(* awaits the function, and puts back what it found on entry.  Executions  *)
(* in different sandboxes of one process overlap at the await.             *)
(***************************************************************************)
EXTENDS Naturals, Sequences, SequencesExt

CONSTANTS Sandbox,   \* sandboxes of the process, each with a directory of its own
          Home       \* TMPDIR of the process at its start: "" when it is not set

ASSUME EnvAssumption == Home \notin Sandbox

VARIABLES tmpdir,    \* process.env.TMPDIR
          entered,   \* executions in progress in the order they entered: sandbox, saved
          unnested    \* an execution has left while one that entered after it went on

envVars == <<tmpdir, entered, unnested>>

EnvInit == tmpdir = Home /\ entered = <<>> /\ unnested = FALSE

Entered(s) == \E i \in DOMAIN entered : entered[i].sandbox = s

(* Slip: the value to restore is read after the new one is set. *)
EnterLate(s) ==
  /\ ~ Entered(s)
  /\ entered' = Append(entered, [sandbox |-> s, saved |-> s])
  /\ tmpdir' = s
  /\ UNCHANGED unnested

Enter(s) ==
  /\ ~ Entered(s)
  /\ entered' = Append(entered, [sandbox |-> s, saved |-> tmpdir])
  /\ tmpdir' = s
  /\ UNCHANGED unnested

(* The finally block, whether the function returned or threw. *)
Leave(i) ==
  /\ tmpdir' = entered[i].saved
  /\ unnested' = (unnested \/ i # Len(entered))
  /\ entered' = RemoveAt(entered, i)

EnvNext == (\E s \in Sandbox : Enter(s)) \/ (\E i \in DOMAIN entered : Leave(i))

EnvSpec == EnvInit /\ [][EnvNext]_envVars
-----------------------------------------------------------------------------
(* As long as executions nest, each runs with the TMPDIR of its own sandbox, the last one
   entered at the moment, and the process has its own back at the end
   (SandboxRuntime.ts:146-158).  Only an execution that leaves before a later one does can
   leave the process with the directory of a sandbox that is gone. *)
TmpdirNests ==
  ~ unnested => tmpdir = (IF entered = <<>> THEN Home ELSE Last(entered).sandbox)
=============================================================================
