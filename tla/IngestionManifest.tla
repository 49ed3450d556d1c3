-------------------------- MODULE IngestionManifest --------------------------
(***************************************************************************)
(* The ingestion manifest (src/src/ingestion): one JSON-lines file, an     *)
(* archive, a backup and a lock file, shared by processes that know        *)
(* nothing of each other.  A process runs one call at a time:              *)
(*   "record"            recordIngestion of the routing daemon             *)
(*   "approve", "reject" the review commands for quarantined records       *)
(*   "prune"             moves records past their retention to the archive *)
(*   "repair"            rewrites the manifest without unreadable lines    *)
(* Each call takes the lock file with an exclusive create, works in steps  *)
(* that other processes can interleave with, and unlinks the lock file.    *)
(*                                                                         *)
(* The manifest is a set of lines; a line's n is its place in the order in *)
(* which lines were ever appended, which is the order of the file.  A      *)
(* missing manifest file is an empty one.                                  *)
(*                                                                         *)
(* Operators whose comment starts with "Slip:" are not part of the         *)
(* specification.  Each is a mistake somebody could make in the operator   *)
(* that follows it; PROJECT.json names the property that notices it.       *)
(***************************************************************************)
EXTENDS Naturals, FiniteSets

CONSTANTS
  Proc,        \* operating-system processes
  Id,          \* record ids
  Entry,       \* what the daemon may record: id, lane and operator flags
  Garbled,     \* the content of a line that JSON.parse rejects
  NoRecord,    \* no record
  Retention,   \* RETENTION_DAYS, in ticks of the clock
  Faults,      \* what may go wrong: a subset of FaultKind
  MaxCalls,    \* bound on the appending calls ever started
  MaxClock     \* bound on the clock

Lane      == {"fast", "deep", "quarantine"}
Flag      == {"quarantine", "forceReingest", "skip"}
FaultKind == {"append", "rewrite", "crash"}
Op        == {"record", "approve", "reject", "prune", "repair"}

Record == [id : Id, lane : Lane, flags : SUBSET Flag, ingested : Nat]
Line   == [n : Nat, rec : Record \cup {Garbled}]

ASSUME ConstantsAssumption ==
  /\ Entry \subseteq [id : Id, lane : Lane, flags : SUBSET Flag]
  /\ Garbled \notin Record
  /\ NoRecord \notin Record
  /\ Retention \in Nat
  /\ Faults \subseteq FaultKind
  /\ MaxCalls \in Nat
  /\ MaxClock \in Nat

VARIABLES
  lock,        \* LOCK_PATH exists
  manifest,    \* the lines of MANIFEST_PATH
  terminated,  \* MANIFEST_PATH ends with a newline
  temp,        \* what TEMP_PATH holds, or NoRecord when there is none
  archive,     \* the lines of the files under ARCHIVE_DIR
  backup,      \* the lines of MANIFEST_BACKUP
  pc,          \* where each process stands in its call
  op,          \* the call each process makes
  rec,         \* the record it is about to append
  lines,       \* the lines it read from the manifest
  keep,        \* those of them it will write back
  now,         \* the clock
  calls,       \* appending calls started so far
  appends,     \* lines appended so far, whole or torn
  written,     \* the n of every line whose append returned
  failed       \* the kinds of fault that happened so far

files  == <<manifest, terminated, temp, archive, backup>>
locals == <<op, rec, lines, keep>>
steady == <<now, calls, appends, written, failed>>
vars   == <<lock, manifest, terminated, temp, archive, backup, pc, op, rec,
            lines, keep, now, calls, appends, written, failed>>

----------------------------------------------------------------------------
(* Reading the manifest.                                                   *)

Parses(l) == l.rec # Garbled

IsQuarantined(r) == r.lane = "quarantine" \/ "quarantine" \in r.flags

\* The lines with this id that are quarantined, by their lane or their flag.
Quarantined(id) ==
  {l \in manifest : Parses(l) /\ l.rec.id = id /\ IsQuarantined(l.rec)}

\* The copy approveQuarantine and rejectQuarantine append.
Reviewed(r, verdict, lane) ==
  IF verdict = "approve"
    THEN [r EXCEPT !.flags = (@ \ {"quarantine"}) \cup {"forceReingest"},
                   !.lane  = lane]
    ELSE [r EXCEPT !.flags = (@ \ {"quarantine"}) \cup {"skip"}]

Expired(r) == r.ingested + Retention < now

\* What a write of the lines S has put on disk when it stops half-way.
Prefixes(S) == {{l \in S : l.n <= k} : k \in 0 .. appends}

----------------------------------------------------------------------------
Critical == {"temp", "append", "untemp", "read", "archive", "backup",
             "truncate", "rewrite", "release"}

Holds(p) == pc[p] \in Critical

Init ==
  /\ lock = FALSE
  /\ manifest = {} /\ terminated = TRUE /\ temp = NoRecord
  /\ archive = {} /\ backup = {}
  /\ pc    = [p \in Proc |-> "idle"]
  /\ op    = [p \in Proc |-> "record"]
  /\ rec   = [p \in Proc |-> NoRecord]
  /\ lines = [p \in Proc |-> {}]
  /\ keep  = [p \in Proc |-> {}]
  /\ now = 0 /\ calls = 0 /\ appends = 0 /\ written = {}
  /\ failed = {}

\* p goes from one place in its call to the next.
Goto(p, from, to) == pc[p] = from /\ pc' = [pc EXCEPT ![p] = to]

\* The call of p is over, and its local variables with it.
Return(p, from) ==
  /\ Goto(p, from, "idle")
  /\ op'    = [op EXCEPT ![p] = "record"]
  /\ rec'   = [rec EXCEPT ![p] = NoRecord]
  /\ lines' = [lines EXCEPT ![p] = {}]
  /\ keep'  = [keep EXCEPT ![p] = {}]

----------------------------------------------------------------------------
(* Calls start.                                                            *)

\* The record gets its time when it is built, under the lock (Stamped).
RecordStart(p, e) ==
  /\ calls < MaxCalls
  /\ Goto(p, "idle", "waiting")
  /\ op'  = [op EXCEPT ![p] = "record"]
  /\ rec' = [rec EXCEPT ![p] = [id |-> e.id, lane |-> e.lane,
                                flags |-> e.flags, ingested |-> now]]
  /\ calls' = calls + 1
  /\ UNCHANGED <<files, lock, lines, keep, now, appends, written, failed>>

\* The review commands read the manifest before they ask for the lock, take
\* the first quarantined line with the id, and throw when there is none.
ReviewStart(p, id, verdict, lane) ==
  /\ calls < MaxCalls
  /\ Goto(p, "idle", "waiting")
  /\ op' = [op EXCEPT ![p] = verdict]
  /\ \E l \in Quarantined(id) :
       /\ \A m \in Quarantined(id) : l.n <= m.n
       /\ rec' = [rec EXCEPT ![p] = Reviewed(l.rec, verdict, lane)]
  /\ calls' = calls + 1
  /\ UNCHANGED <<files, lock, lines, keep, now, appends, written, failed>>

MaintenanceStart(p, o) ==
  /\ Goto(p, "idle", "waiting")
  /\ op' = [op EXCEPT ![p] = o]
  /\ UNCHANGED <<files, lock, rec, lines, keep, steady>>

----------------------------------------------------------------------------
(* acquireLock: tries at once, then spins until it succeeds or its time is *)
(* up.  It gives up only after an attempt that failed.                     *)

FirstStep(o) == CASE o = "record"                -> "temp"
                  [] o \in {"approve", "reject"} -> "append"
                  [] o \in {"prune", "repair"}   -> "read"

AcquireLock(p) ==
  /\ pc[p] \in {"waiting", "spinning"}
  /\ ~lock
  /\ lock' = TRUE
  /\ pc' = [pc EXCEPT ![p] = FirstStep(op[p])]
  /\ UNCHANGED <<files, locals, steady>>

LockBusy(p) ==
  /\ lock
  /\ Goto(p, "waiting", "spinning")
  /\ UNCHANGED <<files, locals, lock, steady>>

\* Slip: the throw stands inside the try block, whose finally releases.
LockTimeoutReleases(p) ==
  /\ Return(p, "spinning")
  /\ lock' = FALSE
  /\ UNCHANGED <<files, steady>>

\* Slip: no deadline.
LockTimeoutNever(p) == Return(p, "spinning") /\ FALSE

\* FileLockedError is thrown before the try block: nothing is released.
LockTimeout(p) ==
  /\ Return(p, "spinning")
  /\ UNCHANGED <<files, lock, steady>>

\* The finally block of every call.
ReleaseLock(p) ==
  /\ Return(p, "release")
  /\ lock' = FALSE
  /\ UNCHANGED <<files, steady>>

----------------------------------------------------------------------------
(* recordIngestion and appendRecord, holding the lock.                     *)

\* The record is built under the lock: it carries the time of this step.
Stamped(r) == [r EXCEPT !.ingested = now]

WriteTemp(p) ==
  /\ Goto(p, "temp", "append")
  /\ rec'  = [rec EXCEPT ![p] = Stamped(@)]
  /\ temp' = Stamped(rec[p])
  /\ UNCHANGED <<manifest, terminated, archive, backup, lock, op, lines, keep, steady>>

AfterAppend(p) == IF op[p] = "record" THEN "untemp" ELSE "release"

\* Slip: the line is written without its newline.
AppendLineUnterminated(p) ==
  /\ Goto(p, "append", AfterAppend(p))
  /\ manifest' = IF terminated
                   THEN manifest \cup {[n |-> appends + 1, rec |-> rec[p]]}
                   ELSE manifest
  /\ terminated' = FALSE
  /\ appends' = appends + 1
  /\ written' = written \cup {appends + 1}
  /\ UNCHANGED <<temp, archive, backup, locals, lock, now, calls, failed>>

\* A line appended behind an unterminated one becomes part of it, and the
\* two together do not parse.
AppendLine(p) ==
  /\ Goto(p, "append", AfterAppend(p))
  /\ manifest' = IF terminated
                   THEN manifest \cup {[n |-> appends + 1, rec |-> rec[p]]}
                   ELSE manifest
  /\ terminated' = TRUE
  /\ appends' = appends + 1
  /\ written' = written \cup {appends + 1}
  /\ UNCHANGED <<temp, archive, backup, locals, lock, now, calls, failed>>

RemoveTemp(p) ==
  /\ Goto(p, "untemp", "release")
  /\ temp' = NoRecord
  /\ UNCHANGED <<manifest, terminated, archive, backup, locals, lock, steady>>

\* A write throws (a full disk): none of the line is in the manifest, or its
\* beginning is.  The finally block releases the lock; TEMP_PATH stays.
AppendFails(p) ==
  /\ "append" \in Faults
  /\ pc[p] \in {"temp", "append"}
  /\ pc' = [pc EXCEPT ![p] = "release"]
  /\ \/ UNCHANGED <<manifest, terminated, appends>>
     \/ /\ pc[p] = "append"
        /\ manifest' = IF terminated
                         THEN manifest \cup {[n |-> appends + 1, rec |-> Garbled]}
                         ELSE manifest
        /\ terminated' = FALSE
        /\ appends' = appends + 1
  /\ failed' = failed \cup {"append"}
  /\ UNCHANGED <<temp, archive, backup, locals, lock, now, calls, written>>

----------------------------------------------------------------------------
(* pruneManifest and repairManifest, holding the lock.                     *)

\* Slip: repair applies the retention too.
ReadManifestExpires(p) ==
  /\ Goto(p, "read", IF op[p] = "prune" THEN "archive" ELSE "backup")
  /\ lines' = [lines EXCEPT ![p] = manifest]
  /\ keep' = [keep EXCEPT ![p] =
                {l \in manifest : Parses(l) /\ ~Expired(l.rec)}]
  /\ UNCHANGED <<files, lock, op, rec, steady>>

\* Prune keeps what parses and is young enough, repair what parses.
ReadManifest(p) ==
  /\ Goto(p, "read", IF op[p] = "prune" THEN "archive" ELSE "backup")
  /\ lines' = [lines EXCEPT ![p] = manifest]
  /\ keep' = [keep EXCEPT ![p] =
                {l \in manifest : /\ Parses(l)
                                  /\ op[p] = "prune" => ~Expired(l.rec)}]
  /\ UNCHANGED <<files, lock, op, rec, steady>>

\* Prune's archivedRecords: every line that parsed and is not retained.
ToArchive(p) == {l \in lines[p] \ keep[p] : Parses(l)}

\* Slip: the lock is released once the archive is safe.
WriteArchiveUnlocks(p) ==
  /\ Goto(p, "archive", "truncate")
  /\ archive' = archive \cup ToArchive(p)
  /\ lock' = FALSE
  /\ UNCHANGED <<manifest, terminated, temp, backup, locals, steady>>

WriteArchive(p) ==
  /\ Goto(p, "archive", "truncate")
  /\ archive' = archive \cup ToArchive(p)
  /\ UNCHANGED <<manifest, terminated, temp, backup, locals, lock, steady>>

\* Repair copies the file only when it found a corrupted line, over the
\* previous backup.
WriteBackup(p) ==
  /\ Goto(p, "backup", "truncate")
  /\ backup' = IF lines[p] # keep[p] THEN manifest ELSE backup
  /\ UNCHANGED <<manifest, terminated, temp, archive, locals, lock, steady>>

\* writeFileSync with flag "w" empties the file, then writes it.
Truncate(p) ==
  /\ Goto(p, "truncate", "rewrite")
  /\ manifest' = {}
  /\ terminated' = TRUE
  /\ UNCHANGED <<temp, archive, backup, locals, lock, steady>>

Rewrite(p) ==
  /\ Goto(p, "rewrite", "release")
  /\ manifest' = keep[p]
  /\ terminated' = TRUE
  /\ UNCHANGED <<temp, archive, backup, locals, lock, steady>>

\* A write throws: the archive, the backup or the emptied manifest has a
\* prefix of the lines it was to get.
RewriteFails(p) ==
  /\ "rewrite" \in Faults
  /\ \/ /\ Goto(p, "archive", "release")
        /\ \E S \in Prefixes(ToArchive(p)) : archive' = archive \cup S
        /\ UNCHANGED <<manifest, backup>>
     \/ /\ Goto(p, "backup", "release")
        /\ lines[p] # keep[p]
        /\ backup' \in Prefixes(manifest)
        /\ UNCHANGED <<manifest, archive>>
     \/ /\ Goto(p, "rewrite", "release")
        /\ manifest' \in Prefixes(keep[p])
        /\ UNCHANGED <<archive, backup>>
  /\ failed' = failed \cup {"rewrite"}
  /\ UNCHANGED <<terminated, temp, locals, lock, now, calls, appends, written>>

----------------------------------------------------------------------------
\* The process dies between two steps; whatever it left on disk stays, the
\* lock file too.  It may be started again.
Crash(p) ==
  /\ "crash" \in Faults
  /\ pc[p] # "idle"
  /\ Return(p, pc[p])
  /\ failed' = failed \cup {"crash"}
  /\ UNCHANGED <<files, lock, now, calls, appends, written>>

Tick ==
  /\ now < MaxClock
  /\ now' = now + 1
  /\ UNCHANGED <<files, locals, lock, pc, calls, appends, written, failed>>

\* What p does once its call has started.
Step(p) ==
  \/ AcquireLock(p) \/ LockBusy(p) \/ LockTimeout(p) \/ ReleaseLock(p)
  \/ WriteTemp(p) \/ AppendLine(p) \/ RemoveTemp(p) \/ AppendFails(p)
  \/ ReadManifest(p) \/ WriteArchive(p) \/ WriteBackup(p)
  \/ Truncate(p) \/ Rewrite(p) \/ RewriteFails(p)

Start(p) ==
  \/ \E e \in Entry : RecordStart(p, e)
  \/ \E id \in Id, verdict \in {"approve", "reject"}, lane \in {"fast", "deep"} :
       ReviewStart(p, id, verdict, lane)
  \/ \E o \in {"prune", "repair"} : MaintenanceStart(p, o)

Next == Tick \/ \E p \in Proc : Start(p) \/ Step(p) \/ Crash(p)

Spec == Init /\ [][Next]_vars

\* A process that runs is scheduled, and its clock reaches its deadline.
FairSpec == Spec /\ \A p \in Proc : WF_vars(Step(p))

----------------------------------------------------------------------------
(* Properties.                                                             *)

\* Every variable stays within what the code can put there, and a call that
\* is going to append has the record it appends.
TypeOK ==
  /\ lock \in BOOLEAN
  /\ manifest \subseteq Line
  /\ terminated \in BOOLEAN
  /\ temp \in Record \cup {NoRecord}
  /\ archive \subseteq Line
  /\ backup \subseteq Line
  /\ pc \in [Proc -> Critical \cup {"idle", "waiting", "spinning"}]
  /\ op \in [Proc -> Op]
  /\ rec \in [Proc -> Record \cup {NoRecord}]
  /\ \A p \in Proc :
       \/ pc[p] \in {"temp", "append"}
       \/ pc[p] \in {"waiting", "spinning"} /\ op[p] \in {"record", "approve", "reject"}
       => rec[p] \in Record
  /\ lines \in [Proc -> SUBSET Line]
  /\ keep \in [Proc -> SUBSET Line]
  /\ now \in Nat
  /\ calls \in Nat
  /\ appends \in Nat
  /\ written \subseteq Nat
  /\ failed \subseteq Faults

\* acquireLock/releaseLock: two processes are never between them at once,
\* and the lock file exists as long as one is, whatever crashes or throws.
MutualExclusion ==
  /\ \A p \in Proc : Holds(p) => lock
  /\ \A p, q \in Proc : Holds(p) /\ Holds(q) => p = q

\* prune and repair write back what they read some steps ago: until they
\* have emptied the file, it still is what they read, so no append of
\* another process is overwritten.
SnapshotFresh ==
  \A p \in Proc : pc[p] \in {"archive", "backup", "truncate"} => lines[p] = manifest

\* The lines the manifest stands for while a process is rewriting it.
Rewriting(p) ==
  pc[p] = "rewrite" \/ (pc[p] = "truncate" /\ op[p] = "prune")

Live == IF \E p \in Proc : Rewriting(p)
          THEN keep[CHOOSE p \in Proc : Rewriting(p)]
          ELSE manifest

Readable(S) == {l.n : l \in {m \in S : Parses(m)}}

\* As long as nothing has failed, a record whose append returned can be read in
\* the manifest or in the archive, whatever prunes, repairs and reviews run.
\* Appends that fail half-way may take later records with them, but each
\* takes at most one: the record appended next (ingestionManifest.ts:60-84,
\* pruneManifest.ts:96-157).
LossBoundedByTornAppends ==
  failed \subseteq {"append"} =>
  Cardinality(written \ (Readable(Live) \cup Readable(archive)))
    <= Cardinality((1 .. appends) \ written)

\* A lock whose holder died is never freed again: no process enters the
\* critical section any more, and every later call ends with a timeout.
Abandoned == lock /\ \A p \in Proc : ~Holds(p)

AbandonedForever == [][Abandoned => Abandoned']_vars

\* Every call ends, with its work done or with an error.
CallsEnd == \A p \in Proc : pc[p] # "idle" ~> pc[p] = "idle"

\* The manifest implements the log: the archive write is the moment the
\* expired lines leave the log.
Log == INSTANCE ManifestLog WITH log <- Live, archived <- archive

Implements == Log!Spec

\* quarantineReview.ts:29 says that approving clears the quarantine: when the
\* last line with an id is the copy an approval wrote, the id is no longer
\* listed as quarantined.
ApprovalClearsQuarantine ==
  \A l \in manifest :
    (/\ Parses(l) /\ "forceReingest" \in l.rec.flags
     /\ \A m \in manifest : Parses(m) /\ m.rec.id = l.rec.id => m.n <= l.n)
    => Quarantined(l.rec.id) = {}
=============================================================================
