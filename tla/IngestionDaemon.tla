---------------------------- MODULE IngestionDaemon ----------------------------
(***************************************************************************)
(* The ingestion daemon process with its state store, the dead-letter file *)
(* and the replayer that runs beside it.                                   *)
(*                                                                         *)
(* A timer starts a cycle whether or not the previous one has ended.  A    *)
(* cycle loads the control state, streams the session log, sends what it   *)
(* has not seen to extraction and verification, runs the documentation job *)
(* and saves the state it loaded.  Requests of the operator run on the     *)
(* same thread, between the awaits of the cycles.  The replayer is another *)
(* process: it reads the dead-letter file and then writes it anew.         *)
(*                                                                         *)
(* clientSessionExtractor keeps none of the fields id, source and payload  *)
(* that verifyIngestionEntry requires, so verification fails for every     *)
(* entry, in the daemon and in the replayer: no entry reaches the drift    *)
(* scores, none is recovered, and the steps for entries that pass are not  *)
(* reachable and not modelled.                                             *)
(***************************************************************************)
EXTENDS CicState, Sequences, FiniteSets

CONSTANTS
  Key,           \* timestamp-backend keys of log entries
  NoKey,         \* the key of a line that is no usable entry
  Id,            \* ids of log entries, which entries may share; no id is one of them
  LogLine,       \* the lines that may appear in the session log
  Cycle,         \* cycles that can be in flight at once
  Absent,        \* no state file
  Request,       \* what the operator may ask of the store
  MaxLines,      \* bound on the session log
  MaxDocs,       \* bound on the documentation events
  MaxRequests,   \* bound on the operator's requests
  MaxReplays,    \* bound on the runs of the replayer
  MaxMishaps,    \* bound on crashes and failed writes
  MaxBacklog,    \* slaSettings.maxBacklog
  MaxOscillations

Line == [key : Key \cup {NoKey}, id : Id, slow : BOOLEAN, deep : BOOLEAN, skip : BOOLEAN]

StoreRequest ==
  [kind : {"add"}, category : Category, severity : Severity]
    \cup [kind : {"clear"}, category : Category]
    \cup [kind : {"playbook"}, name : Playbook, active : BOOLEAN]
    \cup [kind : {"freeze"}, active : BOOLEAN, backend : BOOLEAN]
    \cup [kind : {"lockdown"}, active : BOOLEAN]

ASSUME DaemonConstants ==
  /\ NoKey \notin Key
  /\ LogLine \subseteq Line
  /\ Absent \notin State
  /\ Request \subseteq StoreRequest
  /\ MaxBacklog \in Nat /\ MaxOscillations \in Nat

VARIABLES
  routing,     \* the daemon is IngestionDaemonRouting
  timer,       \* intervalId is set
  log,         \* client_sessions.jsonl
  processed,   \* processedLines, in memory
  quarantined, \* quarantinedIds, in memory; by id, where processed goes by key
  cycle,       \* the cycles in flight
  disk,        \* the state file
  docLog,      \* the documentation events logged, by kind; the index is the id
  docSeen,     \* lastSeenSequenceId in the job's own state file
  dlq,         \* failed-jobs.log
  rotated,     \* the rotated dead-letter files, oldest first
  replay,      \* the replayer process
  ordered,     \* the operator's last word on a lockdown
  stale,       \* a request came while a cycle held a copy of the state
  overlap,     \* a cycle started while another was in flight
  requests, replays, mishaps,   \* counters, for the bounds
  mishap       \* what has happened that may lose something

store == <<disk, ordered, stale, overlap>>
docs  == <<docLog, docSeen>>
dead  == <<dlq, rotated, replay>>
count == <<requests, replays, mishaps>>
vars  == <<routing, timer, log, processed, quarantined, cycle, store, docs, dead,
           count, mishap>>

\* state is the copy loaded at the start, pos the lines read, fresh the new
\* entries not yet handled, slow how many of the new ones broke a limit.
IdleCycle == [pc |-> "idle", state |-> DefaultState, pos |-> 0, fresh |-> <<>>,
              slow |-> 0]
IdleReplay == [pc |-> "idle", remaining |-> <<>>]

Init ==
  /\ routing \in BOOLEAN
  /\ timer = FALSE /\ log = <<>> /\ processed = {} /\ quarantined = {}
  /\ cycle = [c \in Cycle |-> IdleCycle]
  /\ disk = Absent /\ ordered = FALSE /\ stale = FALSE /\ overlap = FALSE
  /\ docLog = <<>> /\ docSeen = 0
  /\ dlq = <<>> /\ rotated = <<>> /\ replay = IdleReplay
  /\ requests = 0 /\ replays = 0 /\ mishaps = 0
  /\ mishap = {}

----------------------------------------------------------------------------
(* Producers, and the daemon's timer.                                      *)

AppendLog(l) ==
  /\ Len(log) < MaxLines
  /\ log' = Append(log, l)
  /\ UNCHANGED <<routing, timer, processed, quarantined, cycle, store, docs, dead,
                 count, mishap>>

AppendDoc(kind) ==
  /\ Len(docLog) < MaxDocs
  /\ docLog' = Append(docLog, kind)
  /\ UNCHANGED <<routing, timer, log, processed, quarantined, cycle, store, docSeen,
                 dead, count, mishap>>

Start ==
  /\ ~timer
  /\ timer' = TRUE
  /\ UNCHANGED <<routing, log, processed, quarantined, cycle, store, docs, dead,
                 count, mishap>>

\* Cycles in flight go on.
Stop ==
  /\ timer
  /\ timer' = FALSE
  /\ UNCHANGED <<routing, log, processed, quarantined, cycle, store, docs, dead,
                 count, mishap>>

----------------------------------------------------------------------------
(* The state store.  A save is synchronous and nothing but this process    *)
(* looks at the file, so it is one step; but it removes the old file before *)
(* the new one takes its name, and may fail, or the process die, between.   *)

InFlight == {c \in Cycle : cycle[c].pc # "idle"}

Load == IF disk = Absent THEN DefaultState ELSE disk

\* The error of a save that fails is logged and the caller told nothing.
Save(s) ==
  \/ disk' = s /\ UNCHANGED <<mishaps, mishap>>
  \/ /\ mishaps < MaxMishaps
     /\ disk' \in {disk, Absent}
     /\ mishaps' = mishaps + 1
     /\ mishap' = mishap \cup {"saveFailed"}

\* What the store makes of a request of the operator.
Apply(s, r) ==
  CASE r.kind = "add"      -> AddViolation(s, r.category, r.severity)
    [] r.kind = "clear"    -> ClearViolation(s, r.category)
    [] r.kind = "playbook" -> TriggerPlaybook(s, r.name, r.active)
    [] r.kind = "freeze"   -> FreezeRouting(s, r.active, r.backend)
    [] r.kind = "lockdown" -> Lockdown(s, r.active)

\* A cycle in flight holds a copy of the state from before the request, and
\* will save it: stale notes that.
Operate(r) ==
  /\ requests < MaxRequests
  /\ Save(Apply(Load, r))
  /\ requests' = requests + 1
  /\ ordered' = Apply(Load, r).governanceLockdown
  /\ stale' = (stale \/ InFlight # {})
  /\ UNCHANGED <<routing, timer, log, processed, quarantined, cycle, overlap, docs,
                 dead, replays>>

----------------------------------------------------------------------------
(* One cycle.                                                              *)

\* runCycle returns at once when there is no session log.
CycleStart(c) ==
  /\ timer
  /\ log # <<>>
  /\ cycle[c].pc = "idle"
  /\ cycle' = [cycle EXCEPT ![c] = [IdleCycle EXCEPT !.pc = "reading", !.state = Load]]
  /\ overlap' = (overlap \/ InFlight # {})
  /\ UNCHANGED <<routing, timer, log, processed, quarantined, disk, ordered, stale,
                 docs, dead, count, mishap>>

\* Slip: the last line is never read.
ReadLineMissesLast(c) ==
  /\ cycle[c].pc = "reading"
  /\ cycle[c].pos + 1 < Len(log)
  /\ cycle' = [cycle EXCEPT ![c].pos = @ + 1]
  /\ UNCHANGED <<routing, timer, log, processed, quarantined, store, docs, dead,
                 count, mishap>>

\* One line of the stream: the key is marked before the entry is handled.
ReadLine(c) ==
  /\ cycle[c].pc = "reading"
  /\ cycle[c].pos < Len(log)
  /\ LET l     == log[cycle[c].pos + 1]
         fresh == l.key \in Key \ processed
     IN /\ cycle' = [cycle EXCEPT ![c].pos = @ + 1,
                                  ![c].fresh = IF fresh THEN Append(@, l) ELSE @,
                                  ![c].slow = IF fresh /\ l.slow THEN @ + 1 ELSE @]
        /\ processed' = IF fresh THEN processed \cup {l.key} ELSE processed
  /\ UNCHANGED <<routing, timer, log, quarantined, store, docs, dead, count, mishap>>

\* An error of the stream ends the cycle; the entries it has marked are
\* never handled.
ReadFails(c) ==
  /\ cycle[c].pc = "reading"
  /\ mishaps < MaxMishaps
  /\ cycle' = [cycle EXCEPT ![c] = IdleCycle]
  /\ mishaps' = mishaps + 1
  /\ mishap' = mishap \cup {"readFailed"}
  /\ UNCHANGED <<routing, timer, log, processed, quarantined, store, docs, dead,
                 requests, replays>>

EndOfLog(c) ==
  /\ cycle[c].pc = "reading"
  /\ cycle[c].pos = Len(log)
  /\ cycle' = [cycle EXCEPT ![c].pc = "extract"]
  /\ UNCHANGED <<routing, timer, log, processed, quarantined, store, docs, dead,
                 count, mishap>>

\* writeDlqEntry appends; what the replayer has already read past is about
\* to be overwritten.
WriteDlq(k) ==
  /\ dlq' = Append(dlq, k)
  /\ mishap' = IF replay.pc = "rewrite" THEN mishap \cup {"replayed"} ELSE mishap
  /\ UNCHANGED <<rotated, replay, mishaps>>

\* It swallows its own errors.
DlqFails ==
  /\ mishaps < MaxMishaps
  /\ mishaps' = mishaps + 1
  /\ mishap' = mishap \cup {"dlqFailed"}
  /\ UNCHANGED dead

\* Slip: an entry for the deep lane is dropped and not noted.
ExtractForgets(c) ==
  /\ cycle[c].pc = "extract"
  /\ cycle[c].fresh # <<>>
  /\ cycle' = [cycle EXCEPT ![c].fresh = Tail(@)]
  /\ routing /\ Head(cycle[c].fresh).deep
  /\ UNCHANGED <<routing, timer, log, processed, quarantined, store, docs, dead,
                 count, mishap>>

\* The next new entry of the cycle, from extraction to where it is put.
Extract(c) ==
  /\ cycle[c].pc = "extract"
  /\ cycle[c].fresh # <<>>
  /\ cycle' = [cycle EXCEPT ![c].fresh = Tail(@)]
  /\ LET l == Head(cycle[c].fresh)
     IN \/ /\ routing /\ l.skip                      \* operator override
           /\ UNCHANGED <<quarantined, dead, mishaps, mishap>>
        \/ /\ routing /\ ~l.skip /\ l.deep           \* kept out of the index
           /\ quarantined' = quarantined \cup {l.id}
           /\ UNCHANGED <<dead, mishaps, mishap>>
        \/ /\ ~routing \/ (~l.skip /\ ~l.deep)
           /\ WriteDlq(l.key) \/ DlqFails
           /\ UNCHANGED quarantined
  /\ UNCHANGED <<routing, timer, log, processed, store, docs, requests, replays>>

\* Drift events are those the job can process; the penalty of some is nought.
DriftEvents(from) == {i \in DOMAIN docLog : i > from /\ docLog[i] = "drift"}

Latest(ids) == CHOOSE i \in ids : \A j \in ids : j <= i

\* The documentation job of the plain daemon: the penalties of the drift
\* events it has not seen go into the cycle's copy of the state, the mark
\* into the job's own file.  The other events fail, because that copy has no
\* audits and no governance list, and are passed over by the mark of the
\* next drift event.
DocsJob(c) ==
  /\ cycle[c].pc = "extract"
  /\ cycle[c].fresh = <<>>
  /\ LET new == IF routing THEN {} ELSE DriftEvents(docSeen)
     IN /\ cycle' = [cycle EXCEPT ![c].pc = "evaluate", ![c].state.drift = @ \cup new]
        /\ docSeen' = IF new = {} THEN docSeen ELSE Latest(new)
  /\ UNCHANGED <<routing, timer, log, processed, quarantined, store, docLog, dead,
                 count, mishap>>

\* The daemons' own copies of what the store does.
AddViolationInline(s, category, severity) == AddViolation(s, category, severity)
ClearViolationInline(s, category) == ClearViolation(s, category)

\* Lines that are no entries, and entries with the key of an earlier one,
\* stay in the backlog for good.
CheckBacklog(c, s) ==
  IF cycle[c].pos > Cardinality(processed) + MaxBacklog
    THEN AddViolationInline(s, "ingestion_backlog", "SEV-2")
    ELSE ClearViolationInline(s, "ingestion_backlog")

\* A quiet cycle lifts a freeze, whoever ordered it.
CheckOscillation(c, s) ==
  IF cycle[c].slow > MaxOscillations
    THEN [AddViolationInline(s, "routing_oscillation", "SEV-2") EXCEPT !.frozenBackend = TRUE]
    ELSE ClearViolationInline(s, "routing_oscillation")

\* Slip: the checks are applied to the state as it is now, without what the
\* cycle has added to its copy.
EvaluateReloads(c) ==
  /\ cycle[c].pc = "evaluate"
  /\ Save(CheckOscillation(c, CheckBacklog(c, Load)))
  /\ cycle' = [cycle EXCEPT ![c] = IdleCycle]
  /\ UNCHANGED <<routing, timer, log, processed, quarantined, ordered, stale,
                 overlap, docs, dead, requests, replays>>

Evaluate(c) ==
  /\ cycle[c].pc = "evaluate"
  /\ Save(CheckOscillation(c, CheckBacklog(c, cycle[c].state)))
  /\ cycle' = [cycle EXCEPT ![c] = IdleCycle]
  /\ UNCHANGED <<routing, timer, log, processed, quarantined, ordered, stale,
                 overlap, docs, dead, requests, replays>>

\* The process dies: what is in memory goes, and the state file with it if
\* the process was in a save.
Crash ==
  /\ mishaps < MaxMishaps
  /\ timer \/ InFlight # {}
  /\ timer' = FALSE /\ processed' = {} /\ quarantined' = {}
  /\ cycle' = [c \in Cycle |-> IdleCycle]
  /\ mishaps' = mishaps + 1
  /\ \/ disk' = disk /\ mishap' = mishap \cup {"crash"}
     \/ /\ requests < MaxRequests \/ \E c \in Cycle : cycle[c].pc = "evaluate"
        /\ disk' = Absent
        /\ mishap' = mishap \cup {"crash", "crashInSave"}
  /\ UNCHANGED <<routing, log, ordered, stale, overlap, docs, dead, requests, replays>>

----------------------------------------------------------------------------
(* The replayer.  It reads a line at a time from a stream; what it has when *)
(* the stream ends is the file as it was at some moment.                    *)

\* A file that is too long or too old is moved out of the way first.  The
\* name is the day of the last write: a second file of that day replaces the
\* first.  If the daemon writes a new one at once, the replayer goes on.
ReplayRotate ==
  /\ replay.pc = "idle" /\ replays < MaxReplays
  /\ dlq # <<>>
  /\ dlq' = <<>>
  /\ \/ rotated' = Append(rotated, dlq) /\ UNCHANGED mishap
     \/ /\ rotated # <<>>
        /\ rotated' = [rotated EXCEPT ![Len(rotated)] = dlq]
        /\ mishap' = mishap \cup {"rotatedOver"}
  /\ replays' = replays + 1
  /\ replay' = [replay EXCEPT !.pc = "rotated"]
  /\ UNCHANGED <<routing, timer, log, processed, quarantined, cycle, store, docs,
                 requests, mishaps>>

\* Replaying fails verification as the first time did.
ReplayRead ==
  /\ \/ replay.pc = "idle" /\ replays < MaxReplays /\ replays' = replays + 1
     \/ replay.pc = "rotated" /\ UNCHANGED replays
  /\ dlq # <<>>
  /\ replay' = [pc |-> "rewrite", remaining |-> dlq]
  /\ UNCHANGED <<routing, timer, log, processed, quarantined, cycle, store, docs,
                 dlq, rotated, requests, mishaps, mishap>>

\* No file: it returns.
ReplayNothing ==
  /\ replay.pc = "rotated" /\ dlq = <<>>
  /\ replay' = IdleReplay
  /\ UNCHANGED <<routing, timer, log, processed, quarantined, cycle, store, docs,
                 dlq, rotated, count, mishap>>

\* What was appended since the file was read is overwritten.
ReplayRewrite ==
  /\ replay.pc = "rewrite"
  /\ dlq' = replay.remaining
  /\ replay' = IdleReplay
  /\ UNCHANGED <<routing, timer, log, processed, quarantined, cycle, store, docs,
                 rotated, count, mishap>>

\* It may die before the rewrite, or when that has emptied the file.
ReplayDies ==
  /\ replay.pc = "rewrite"
  /\ mishaps < MaxMishaps
  /\ dlq' \in {dlq, <<>>}
  /\ replay' = IdleReplay
  /\ mishaps' = mishaps + 1
  /\ mishap' = mishap \cup {"replayerDied"}
  /\ UNCHANGED <<routing, timer, log, processed, quarantined, cycle, store, docs,
                 rotated, requests, replays>>

----------------------------------------------------------------------------
CycleStep(c) ==
  ReadLine(c) \/ EndOfLog(c) \/ Extract(c) \/ DocsJob(c) \/ Evaluate(c)

Next ==
  \/ \E l \in LogLine : AppendLog(l)
  \/ \E kind \in {"drift", "other"} : AppendDoc(kind)
  \/ Start \/ Stop \/ Crash
  \/ \E r \in Request : Operate(r)
  \/ \E c \in Cycle : CycleStart(c) \/ CycleStep(c) \/ ReadFails(c)
  \/ ReplayRotate \/ ReplayRead \/ ReplayNothing \/ ReplayRewrite \/ ReplayDies

Spec == Init /\ [][Next]_vars

\* setInterval fires for ever, and the event loop comes back to every cycle
\* in flight.  Nobody has to run the replayer or the operator's commands.
FairSpec ==
  /\ Spec
  /\ WF_vars(\E c \in Cycle : CycleStart(c))
  /\ \A c \in Cycle : WF_vars(CycleStep(c))

----------------------------------------------------------------------------
(* Properties.                                                             *)

Occurs(k, s) == \E i \in DOMAIN s : s[i] = k

Pending(k)  == \E c \in Cycle : \E i \in DOMAIN cycle[c].fresh : cycle[c].fresh[i].key = k
Dead(k)     == Occurs(k, dlq) \/ \E i \in DOMAIN rotated : Occurs(k, rotated[i])
Skipped(k)  == routing /\ \E i \in DOMAIN log : log[i].key = k /\ log[i].skip
Quarantined(k) == \E i \in DOMAIN log : log[i].key = k /\ log[i].deep /\ log[i].id \in quarantined
Parked(k)   == Dead(k) \/ Quarantined(k) \/ Skipped(k)

\* What can lose an entry: a failed write or read, or a replayer that
\* overwrites or dies at the wrong moment.  A crash of the daemon is not
\* among them: it forgets the keys together with the entries.
LosesEntries == {"dlqFailed", "readFailed", "replayed", "rotatedOver", "replayerDied"}

\* An entry the daemon counts as processed is somewhere it can be found
\* again: waiting in a cycle, in the dead-letter files, quarantined or
\* skipped on an operator's order (daemon.ts:157-200), whatever cycles
\* overlap and wherever the daemon dies.  And although overlapping cycles
\* read the same lines, a run of the daemon puts it into the dead-letter
\* files once (the idempotency check of daemon.ts:156-160).
EntriesAccounted ==
  /\ mishap \cap LosesEntries = {} =>
       \A k \in processed : Pending(k) \/ Parked(k)
  /\ "crash" \notin mishap =>
       /\ \A i, j \in DOMAIN dlq : dlq[i] = dlq[j] => i = j
       /\ \A i \in DOMAIN dlq : \A n \in DOMAIN rotated : ~Occurs(dlq[i], rotated[n])

\* A lockdown the operator has ordered or lifted stays so through the cycles
\* that begin after the order and through restarts (daemon.ts:112, 249), as
\* long as no cycle was in flight at the order and no save was lost.
LockdownKept ==
  ~stale /\ mishap \cap {"saveFailed", "crashInSave"} = {} =>
    Load.governanceLockdown = ordered

\* A documentation event that is marked as seen has its penalty in the
\* control state, or in the copy of the cycle that is about to save it
\* (daemon.ts:203, 249), as long as cycles do not overlap and none is cut
\* short.
PenaltyKept ==
  ~overlap /\ mishap \cap {"saveFailed", "crash"} = {} =>
    \A i \in 1..docSeen : docLog[i] = "drift" =>
      \/ i \in Load.drift
      \/ \E c \in Cycle : cycle[c].pc = "evaluate" /\ i \in cycle[c].state.drift

\* What the operator orders and what the events cost are not lost between the
\* copies of the control state that cycles load, change and save.
ControlStateKept == LockdownKept /\ PenaltyKept

\* Every entry in the session log ends up parked, as long as the daemon is
\* not stopped and nothing that loses entries happens.
EventuallyParked ==
  \A k \in Key :
    (\E i \in DOMAIN log : log[i].key = k) ~> Parked(k) \/ ~timer \/ mishap \cap LosesEntries # {}

\* The comment of dlqReplayer.ts:157, "Rewrite DLQ with remaining failures
\* (in-place, no data loss)": the rewrite keeps every entry of the file.
RewriteLosesNothing ==
  [][ReplayRewrite => \A i \in DOMAIN dlq : Occurs(dlq[i], dlq')]_vars
=============================================================================
