------------------------------- MODULE TaskPolicy -------------------------------
(***************************************************************************)
(* Execution policy of scheduled tasks: the contexts that are registered   *)
(* for tasks, the one context that is current in the process, the records  *)
(* of executions (autonomy/TaskMetadataStore.ts), the policy that judges a *)
(* call (ExecutionPolicy.ts), and the interceptor that asks it             *)
(* (ExecutionPolicyInterceptor.ts, routes/execution.ts).  Agents of        *)
(* several tasks run in one process; a call may name its task or not.      *)
(***************************************************************************)
EXTENDS Naturals

CONSTANTS
  Task,
  Tool,
  Context,      \* what may be asked for: records [task, mode, preapproved, exit], exit
                \*   TRUE, FALSE or Unstated
  Unstated,
  Settings,     \* by mode, for the modes of the settings file: the defaults
                \*   [preapproved, exit]
  NoContext

Mode == {"INTERACTIVE", "UNATTENDED", "BATCH", "MAINTENANCE"}

TaskContext == [task : Task, mode : Mode, preapproved : SUBSET Tool, exit : {TRUE, FALSE, Unstated}]

ASSUME PolicyConstants ==
  /\ Context \subseteq TaskContext /\ NoContext \notin TaskContext
  /\ \A mode \in DOMAIN Settings : Settings[mode] \in [preapproved : SUBSET Tool, exit : BOOLEAN]

VARIABLES
  contexts,    \* by task: the registered context, with the defaults filled in
  current,     \* globalTaskContext, as it was given
  executions,  \* by task: the record, its calls as a set
  agents       \* by task that runs: its context, the calls whose answer is its own, and
               \*   whether another task has come between

policyVars == <<contexts, current, executions, agents>>

NoRecord == [status |-> "none", calls |-> {}]
NoAgent  == [context |-> NoContext, calls |-> {}, shared |-> FALSE, renewed |-> FALSE]

PolicyInit ==
  /\ contexts = [t \in Task |-> NoContext] /\ current = NoContext
  /\ executions = [t \in Task |-> NoRecord] /\ agents = [t \in Task |-> NoAgent]

Running(t) == agents[t].context # NoContext

-----------------------------------------------------------------------------
\* The policy.  A tool stands for the calls that one pattern of the tables matches.

Working == {"Bash", "Bash(git)", "Bash(npm)", "PowerShell(docker)", "Read", "Grep"}
Editing == {"Bash(docker-)", "PowerShell(docker-compose)", "Glob", "Edit", "Write"}

AllowedIn(mode) ==
  CASE mode = "INTERACTIVE" -> Tool
    [] mode \in {"UNATTENDED", "BATCH"} -> Working \union Editing
    [] mode = "MAINTENANCE" -> Working \union {"Bash(docker)"}

DeniedIn(mode) ==
  CASE mode = "INTERACTIVE" -> {}
    [] mode \in {"UNATTENDED", "BATCH"} -> {"Agent", "AskUserQuestion", "ScheduleWakeup"}
    [] mode = "MAINTENANCE" -> {"Agent", "AskUserQuestion"}

RequiresPreapproval(mode) == mode \in {"UNATTENDED", "MAINTENANCE"}

GetModeSettings(mode) ==
  IF mode \in DOMAIN Settings THEN Settings[mode] ELSE [preapproved |-> {}, exit |-> FALSE]

MergeContextWithSettings(x) ==
  LET defaults == GetModeSettings(x.mode) IN
  [x EXCEPT !.preapproved = IF @ = {} THEN defaults.preapproved ELSE @,
            !.exit = IF @ = Unstated THEN defaults.exit ELSE @]

IsToolAllowed(tool, x) ==
  /\ tool \notin DeniedIn(x.mode)
  /\ tool \in AllowedIn(x.mode) \/ (RequiresPreapproval(x.mode) /\ tool \in x.preapproved)

ValidateContext(x) == RequiresPreapproval(x.mode) => x.preapproved # {}

-----------------------------------------------------------------------------
\* The interceptor.

\* POST /execution/register
RegisterTask(x) ==
  /\ ValidateContext(x)
  /\ contexts' = [contexts EXCEPT ![x.task] = MergeContextWithSettings(x)]
  /\ agents' = [agents EXCEPT ![x.task].renewed = Running(x.task)]
  /\ UNCHANGED <<current, executions>>

\* Slip: the task that starts does not become the current one when another runs.
StartTaskQuietly(x) ==
  /\ ValidateContext(x)
  /\ current' = IF current = NoContext THEN x ELSE current
  /\ contexts' = [contexts EXCEPT ![x.task] = MergeContextWithSettings(x)]
  /\ executions' = [executions EXCEPT ![x.task] = [status |-> "RUNNING", calls |-> {}]]
  /\ agents' = [t \in Task |-> IF t = x.task THEN [NoAgent EXCEPT !.context = x]
                               ELSE [agents[t] EXCEPT !.shared = Running(t)]]

\* replaces the context of the task that was current, and the record of an earlier run
StartTask(x) ==
  /\ ValidateContext(x)
  /\ current' = x
  /\ contexts' = [contexts EXCEPT ![x.task] = MergeContextWithSettings(x)]
  /\ executions' = [executions EXCEPT ![x.task] = [status |-> "RUNNING", calls |-> {}]]
  /\ agents' = [t \in Task |-> IF t = x.task THEN [NoAgent EXCEPT !.context = x]
                               ELSE [agents[t] EXCEPT !.shared = Running(t)]]

\* clears the current context, whichever task that is of; the status of a task that
\* failed fast is overwritten
EndTask(t, status) ==
  /\ Running(t)
  /\ executions' = IF executions[t] = NoRecord THEN executions
                   ELSE [executions EXCEPT ![t].status = status]
  /\ current' = NoContext
  /\ agents' = [u \in Task |-> IF u = t THEN NoAgent
                               ELSE [agents[u] EXCEPT !.shared = Running(u)]]
  /\ UNCHANGED contexts

\* the context a call is judged by
Judge(t, named) == IF named THEN contexts[t] ELSE current

Record(x, tool) ==
  LET allowed == IsToolAllowed(tool, x)
      failed  == ~ allowed /\ x.mode = "UNATTENDED" /\ x.exit = TRUE IN
  IF executions[x.task] = NoRecord THEN executions
  ELSE [executions EXCEPT ![x.task] =
         [status |-> IF failed THEN "FAILURE" ELSE @.status,
          calls  |-> @.calls \union {[tool |-> tool, allowed |-> allowed]}]]

\* with no context every tool is allowed, and nothing is recorded
CheckToolCall(t, tool, named) ==
  LET x == Judge(t, named)
      answer == [tool |-> tool, allowed |-> x = NoContext \/ IsToolAllowed(tool, x)]
      own == ~ agents[t].renewed /\ (named \/ ~ agents[t].shared) IN
  /\ Running(t)
  /\ executions' = IF x = NoContext THEN executions ELSE Record(x, tool)
  /\ agents' = IF own THEN [agents EXCEPT ![t].calls = @ \union {answer}] ELSE agents
  /\ UNCHANGED <<contexts, current>>

\* a record is old when it has ended, and it has when it failed fast
ClearOldExecutions ==
  LET old == {t \in Task : executions[t].status \notin {"none", "RUNNING"}} IN
  /\ old # {}
  /\ executions' = [t \in Task |-> IF t \in old THEN NoRecord ELSE executions[t]]
  /\ contexts' = [t \in Task |-> IF t \in old THEN NoContext ELSE contexts[t]]
  /\ agents' = [t \in Task |-> IF t \in old THEN [agents[t] EXCEPT !.renewed = Running(t)]
                                            ELSE agents[t]]
  /\ UNCHANGED current

PolicyNext ==
  \/ \E x \in Context : RegisterTask(x) \/ StartTask(x)
  \/ \E t \in Task : \/ \E status \in {"SUCCESS", "FAILURE", "PARTIAL_FAILURE"} : EndTask(t, status)
                     \/ \E tool \in Tool, named \in BOOLEAN : CheckToolCall(t, tool, named)
  \/ ClearOldExecutions

PolicySpec == PolicyInit /\ [][PolicyNext]_policyVars

-----------------------------------------------------------------------------
\* Property.

\* Tasks share one current context, and still a task is governed by its own policy
\* alone: while its context stands, each call that names the task, and each that does
\* not as long as no other task has started or ended, was answered by the policy of the
\* context it was started with, and is in the record of its execution.  The defaults of
\* the settings, which only named calls see, never change an answer
\* (ExecutionPolicyInterceptor.ts:36-130, ExecutionPolicy.ts:210-251).
OwnPolicyDecides ==
  \A t \in Task : Running(t) =>
    /\ \A call \in agents[t].calls : call.allowed <=> IsToolAllowed(call.tool, agents[t].context)
    /\ agents[t].renewed \/ agents[t].calls \subseteq executions[t].calls
=============================================================================
