----------------------- MODULE IngestionManifestProofs -----------------------
(***************************************************************************)
(* Theorems about IngestionManifest, for every set of processes, every     *)
(* retention and every combination of faults.                              *)
(***************************************************************************)
EXTENDS IngestionManifest, FiniteSetTheorems, TLAPS

\* A record approved or rejected is still a record.
LEMMA ReviewedType ==
  ASSUME NEW r \in Record, NEW verdict, NEW lane \in {"fast", "deep"}
  PROVE  Reviewed(r, verdict, lane) \in Record
  BY DEF Reviewed, Record, Lane, Flag

\* The step acquireLock leads to lies inside the critical section, and only
\* the calls that have a record to append go on to append one.
LEMMA FirstStepType ==
  ASSUME NEW o \in Op
  PROVE  /\ FirstStep(o) \in {"temp", "append", "read"}
         /\ FirstStep(o) # "read" => o \in {"record", "approve", "reject"}
  BY DEF FirstStep, Op

\* Every variable stays within its type, for whatever the faults: the type
\* invariant of the specification.
THEOREM Typing == Spec => []TypeOK
<1>1. Init => TypeOK
  <2> SUFFICES ASSUME Init PROVE TypeOK
    OBVIOUS
  <2>1. pc \in [Proc -> Critical \cup {"idle", "waiting", "spinning"}]
    BY DEF Init
  <2>2. op \in [Proc -> Op]
    BY DEF Init, Op
  <2>3. rec \in [Proc -> Record \cup {NoRecord}]
    BY DEF Init
  <2>4. lines \in [Proc -> SUBSET Line] /\ keep \in [Proc -> SUBSET Line]
    BY DEF Init
  <2>5. \A p \in Proc : pc[p] = "idle"
    BY SMTT(90) DEF Init
  <2> QED BY <2>1, <2>2, <2>3, <2>4, <2>5 DEF Init, TypeOK
<1>2. TypeOK /\ [Next]_vars => TypeOK'
  <2> SUFFICES ASSUME TypeOK, [Next]_vars PROVE TypeOK'
    OBVIOUS
  <2> USE DEF TypeOK, Critical, Op, Goto, files, locals, steady
  <2>1. ASSUME Tick PROVE TypeOK'
    BY <2>1 DEF Tick
  <2>2. ASSUME NEW p \in Proc, NEW e \in Entry, RecordStart(p, e) PROVE TypeOK'
    <3>1. [id |-> e.id, lane |-> e.lane, flags |-> e.flags, ingested |-> now] \in Record
      BY ConstantsAssumption DEF Record
    <3> QED BY <2>2, <3>1 DEF RecordStart
  <2>3. ASSUME NEW p \in Proc, NEW id \in Id, NEW verdict \in {"approve", "reject"},
               NEW lane \in {"fast", "deep"}, ReviewStart(p, id, verdict, lane)
        PROVE  TypeOK'
    <3>1. PICK l \in Quarantined(id) :
            rec' = [rec EXCEPT ![p] = Reviewed(l.rec, verdict, lane)]
      BY <2>3 DEF ReviewStart
    <3>2. l.rec \in Record
      BY <3>1 DEF Quarantined, Parses, Line
    <3>3. Reviewed(l.rec, verdict, lane) \in Record
      BY <3>2, ReviewedType
    <3> QED BY <2>3, <3>1, <3>3 DEF ReviewStart
  <2>4. ASSUME NEW p \in Proc, NEW o \in {"prune", "repair"}, MaintenanceStart(p, o)
        PROVE  TypeOK'
    BY <2>4 DEF MaintenanceStart
  <2>5. ASSUME NEW p \in Proc, AcquireLock(p) PROVE TypeOK'
    BY <2>5, FirstStepType DEF AcquireLock
  <2>6. ASSUME NEW p \in Proc, LockBusy(p) PROVE TypeOK'
    BY <2>6 DEF LockBusy
  <2>7. ASSUME NEW p \in Proc, LockTimeout(p) PROVE TypeOK'
    BY <2>7 DEF LockTimeout, Return
  <2>8. ASSUME NEW p \in Proc, ReleaseLock(p) PROVE TypeOK'
    BY <2>8 DEF ReleaseLock, Return
  <2>9. ASSUME NEW p \in Proc, WriteTemp(p) PROVE TypeOK'
    <3>1. rec[p] \in Record
      BY <2>9 DEF WriteTemp
    <3>2. Stamped(rec[p]) \in Record
      BY <3>1 DEF Stamped, Record
    <3> QED BY <2>9, <3>2 DEF WriteTemp
  <2>10. ASSUME NEW p \in Proc, AppendLine(p) PROVE TypeOK'
    BY <2>10 DEF AppendLine, AfterAppend, Line
  <2>11. ASSUME NEW p \in Proc, RemoveTemp(p) PROVE TypeOK'
    BY <2>11 DEF RemoveTemp
  <2>12. ASSUME NEW p \in Proc, AppendFails(p) PROVE TypeOK'
    <3>1. [n |-> appends + 1, rec |-> Garbled] \in Line
      BY DEF Line
    <3>2. manifest' \in {manifest, manifest \cup {[n |-> appends + 1, rec |-> Garbled]}}
      BY <2>12 DEF AppendFails
    <3>3. manifest' \subseteq Line
      BY <2>12, <3>1, <3>2 DEF AppendFails
    <3>4. terminated' \in BOOLEAN
      BY <2>12 DEF AppendFails
    <3>5. appends' \in Nat
      BY <2>12 DEF AppendFails
    <3>6. pc' = [pc EXCEPT ![p] = "release"]
      BY <2>12 DEF AppendFails
    <3>7. UNCHANGED <<temp, archive, backup, op, rec, lines, keep, now, calls,
                      written, lock>>
      BY <2>12 DEF AppendFails
    <3>8. failed' \subseteq Faults
      BY <2>12 DEF AppendFails
    <3> QED BY <3>3, <3>4, <3>5, <3>6, <3>7, <3>8
  <2>13. ASSUME NEW p \in Proc, ReadManifest(p) PROVE TypeOK'
    BY <2>13 DEF ReadManifest
  <2>14. ASSUME NEW p \in Proc, WriteArchive(p) PROVE TypeOK'
    BY <2>14 DEF WriteArchive, ToArchive
  <2>15. ASSUME NEW p \in Proc, WriteBackup(p) PROVE TypeOK'
    BY <2>15 DEF WriteBackup
  <2>16. ASSUME NEW p \in Proc, Truncate(p) PROVE TypeOK'
    BY <2>16 DEF Truncate
  <2>17. ASSUME NEW p \in Proc, Rewrite(p) PROVE TypeOK'
    BY <2>17 DEF Rewrite
  <2>18. ASSUME NEW p \in Proc, RewriteFails(p) PROVE TypeOK'
    BY <2>18 DEF RewriteFails, Prefixes, ToArchive
  <2>19. ASSUME NEW p \in Proc, Crash(p) PROVE TypeOK'
    BY <2>19 DEF Crash, Return
  <2>20. CASE UNCHANGED vars
    BY <2>20 DEF vars
  <2> QED
    BY <2>1, <2>2, <2>3, <2>4, <2>5, <2>6, <2>7, <2>8, <2>9, <2>10, <2>11, <2>12,
       <2>13, <2>14, <2>15, <2>16, <2>17, <2>18, <2>19, <2>20
       DEF Next, Start, Step
<1> QED
  BY <1>1, <1>2, PTL DEF Spec
----------------------------------------------------------------------------
(* Mutual exclusion.  A process gets into the critical section only through*)
(* AcquireLock, which finds no lock file; the lock file goes away only with *)
(* ReleaseLock, by the one process inside.                                  *)

\* Only the process that takes the lock enters, and nobody else moves.
LEMMA CriticalEntry ==
  ASSUME TypeOK, NEW p \in Proc, Start(p) \/ Step(p) \/ Crash(p), NEW q \in Proc, Holds(q)'
  PROVE  Holds(q) \/ (q = p /\ AcquireLock(p))
<1> USE DEF TypeOK, Holds, Critical, Goto, Return
<1>1. CASE Start(p)
  BY <1>1 DEF Start, RecordStart, ReviewStart, MaintenanceStart
<1>2. CASE AcquireLock(p)
  BY <1>2 DEF AcquireLock
<1>3. CASE Crash(p)
  BY <1>3 DEF Crash
<1>4. CASE LockBusy(p) \/ LockTimeout(p) \/ ReleaseLock(p)
  BY <1>4 DEF LockBusy, LockTimeout, ReleaseLock
<1>5. CASE WriteTemp(p) \/ AppendLine(p) \/ RemoveTemp(p) \/ AppendFails(p)
  BY <1>5 DEF WriteTemp, AppendLine, RemoveTemp, AppendFails, AfterAppend
<1>6. CASE ReadManifest(p) \/ WriteArchive(p) \/ WriteBackup(p)
  BY <1>6 DEF ReadManifest, WriteArchive, WriteBackup
<1>7. CASE Truncate(p) \/ Rewrite(p) \/ RewriteFails(p)
  BY <1>7 DEF Truncate, Rewrite, RewriteFails
<1> QED BY <1>1, <1>2, <1>3, <1>4, <1>5, <1>6, <1>7 DEF Step

\* The lock file appears with AcquireLock and goes with ReleaseLock.
LEMMA LockChange ==
  ASSUME NEW p \in Proc, Start(p) \/ Step(p) \/ Crash(p)
  PROVE  lock' = lock \/ AcquireLock(p) \/ ReleaseLock(p)
<1>1. CASE Start(p)
  BY <1>1 DEF Start, RecordStart, ReviewStart, MaintenanceStart
<1>2. CASE Step(p)
  BY <1>2 DEF Step, LockBusy, LockTimeout, WriteTemp, AppendLine, RemoveTemp,
     AppendFails, ReadManifest, WriteArchive, WriteBackup, Truncate, Rewrite, RewriteFails
<1>3. CASE Crash(p)
  BY <1>3 DEF Crash
<1> QED BY <1>1, <1>2, <1>3

\* acquireLock and releaseLock give mutual exclusion, for any number of
\* processes and whatever fails or crashes: the inductive invariant is the
\* property itself together with the types.
THEOREM Exclusion == Spec => []MutualExclusion
<1>1. Init => MutualExclusion
  BY DEF Init, MutualExclusion, Holds, Critical
<1>2. TypeOK /\ MutualExclusion /\ [Next]_vars => MutualExclusion'
  <2> SUFFICES ASSUME TypeOK, MutualExclusion, [Next]_vars PROVE MutualExclusion'
    OBVIOUS
  <2>1. CASE UNCHANGED vars
    BY <2>1 DEF vars, MutualExclusion, Holds
  <2>2. CASE Tick
    BY <2>2 DEF Tick, MutualExclusion, Holds
  <2>3. ASSUME NEW p \in Proc, Start(p) \/ Step(p) \/ Crash(p) PROVE MutualExclusion'
    <3>1. CASE AcquireLock(p)
      <4>1. ~lock /\ lock'
        BY <3>1 DEF AcquireLock
      <4>2. \A q \in Proc : Holds(q)' => q = p
        BY <2>3, <4>1, CriticalEntry DEF MutualExclusion
      <4> QED BY <4>1, <4>2 DEF MutualExclusion
    <3>2. CASE ReleaseLock(p)
      <4>1. Holds(p) /\ ~Holds(p)'
        BY <3>2 DEF ReleaseLock, Return, Goto, Holds, Critical, TypeOK
      <4>2. \A q \in Proc : ~Holds(q)'
        BY <2>3, <3>2, <4>1, CriticalEntry DEF MutualExclusion, ReleaseLock, AcquireLock
      <4> QED BY <4>2 DEF MutualExclusion
    <3>3. CASE ~AcquireLock(p) /\ ~ReleaseLock(p)
      <4>1. lock' = lock
        BY <2>3, <3>3, LockChange
      <4>2. \A q \in Proc : Holds(q)' => Holds(q)
        BY <2>3, <3>3, CriticalEntry
      <4> QED BY <4>1, <4>2 DEF MutualExclusion
    <3> QED BY <3>1, <3>2, <3>3
  <2> QED BY <2>1, <2>2, <2>3 DEF Next
<1> QED
  BY <1>1, <1>2, Typing, PTL DEF Spec
----------------------------------------------------------------------------
(* Nobody changes the manifest under a process that has read it.           *)

\* Only three steps and their failures write the manifest, and whoever
\* makes one is inside the critical section.
LEMMA ManifestWriter ==
  ASSUME TypeOK, NEW p \in Proc, Start(p) \/ Step(p) \/ Crash(p), manifest' # manifest
  PROVE  /\ pc[p] \in {"append", "truncate", "rewrite"}
         /\ pc'[p] \in {"untemp", "rewrite", "release"}
         /\ \A q \in Proc : q # p => pc'[q] = pc[q]
         /\ UNCHANGED lines
<1> USE DEF TypeOK, Goto, Return, files, locals, steady
<1>1. CASE Start(p)
  BY <1>1 DEF Start, RecordStart, ReviewStart, MaintenanceStart
<1>2. CASE Crash(p)
  BY <1>2 DEF Crash
<1>3. CASE AcquireLock(p) \/ LockBusy(p) \/ LockTimeout(p) \/ ReleaseLock(p)
  BY <1>3 DEF AcquireLock, LockBusy, LockTimeout, ReleaseLock
<1>4. CASE WriteTemp(p) \/ RemoveTemp(p) \/ ReadManifest(p) \/ WriteArchive(p) \/ WriteBackup(p)
  BY <1>4 DEF WriteTemp, RemoveTemp, ReadManifest, WriteArchive, WriteBackup
<1>5. CASE AppendLine(p)
  BY <1>5 DEF AppendLine, AfterAppend
<1>6. CASE AppendFails(p)
  BY <1>6 DEF AppendFails
<1>7. CASE Truncate(p) \/ Rewrite(p)
  BY <1>7 DEF Truncate, Rewrite
<1>8. CASE RewriteFails(p)
  BY <1>8 DEF RewriteFails
<1> QED BY <1>1, <1>2, <1>3, <1>4, <1>5, <1>6, <1>7, <1>8 DEF Step

\* A process comes to the places between its read and its first write only
\* from there, or by the read itself.
LEMMA SnapshotEntry ==
  ASSUME TypeOK, NEW p \in Proc, Start(p) \/ Step(p) \/ Crash(p), NEW q \in Proc,
         pc'[q] \in {"archive", "backup", "truncate"}
  PROVE  \/ pc[q] \in {"archive", "backup", "truncate"} /\ lines'[q] = lines[q]
         \/ lines'[q] = manifest /\ manifest' = manifest
<1> USE DEF TypeOK, Goto, Return, files, locals, steady, Op
<1>1. CASE Start(p)
  BY <1>1 DEF Start, RecordStart, ReviewStart, MaintenanceStart
<1>2. CASE Crash(p)
  BY <1>2 DEF Crash
<1>3. CASE AcquireLock(p)
  BY <1>3, FirstStepType DEF AcquireLock
<1>4. CASE LockBusy(p) \/ LockTimeout(p) \/ ReleaseLock(p)
  BY <1>4 DEF LockBusy, LockTimeout, ReleaseLock
<1>5. CASE WriteTemp(p) \/ RemoveTemp(p) \/ AppendLine(p) \/ AppendFails(p)
  BY <1>5 DEF WriteTemp, RemoveTemp, AppendLine, AfterAppend, AppendFails
<1>6. CASE ReadManifest(p)
  BY <1>6 DEF ReadManifest
<1>7. CASE WriteArchive(p) \/ WriteBackup(p) \/ Truncate(p) \/ Rewrite(p) \/ RewriteFails(p)
  BY <1>7 DEF WriteArchive, WriteBackup, Truncate, Rewrite, RewriteFails
<1> QED BY <1>1, <1>2, <1>3, <1>4, <1>5, <1>6, <1>7 DEF Step

\* prune and repair never overwrite a line they have not read: what they
\* read is the manifest until they empty it.
THEOREM Freshness == Spec => []SnapshotFresh
<1>1. Init => SnapshotFresh
  BY DEF Init, SnapshotFresh
<1>2. TypeOK /\ MutualExclusion /\ SnapshotFresh /\ [Next]_vars => SnapshotFresh'
  <2> SUFFICES ASSUME TypeOK, MutualExclusion, SnapshotFresh, [Next]_vars
               PROVE  SnapshotFresh'
    OBVIOUS
  <2>1. CASE UNCHANGED vars
    BY <2>1 DEF vars, SnapshotFresh
  <2>2. CASE Tick
    BY <2>2 DEF Tick, SnapshotFresh, files, locals
  <2>3. ASSUME NEW p \in Proc, Start(p) \/ Step(p) \/ Crash(p),
               NEW q \in Proc, pc'[q] \in {"archive", "backup", "truncate"}
        PROVE  lines'[q] = manifest'
    <3>1. CASE lines'[q] = manifest /\ manifest' = manifest
      BY <3>1
    <3>2. CASE pc[q] \in {"archive", "backup", "truncate"} /\ lines'[q] = lines[q]
      <4>1. lines[q] = manifest /\ Holds(q)
        BY <3>2 DEF SnapshotFresh, Holds, Critical
      <4>2. CASE manifest' = manifest
        BY <3>2, <4>1, <4>2
      <4>3. CASE manifest' # manifest
        <5>1. Holds(p) /\ pc'[p] \in {"untemp", "rewrite", "release"}
          BY <2>3, <4>3, ManifestWriter DEF Holds, Critical
        <5>2. q = p
          BY <4>1, <5>1 DEF MutualExclusion
        <5> QED BY <2>3, <5>1, <5>2
      <4> QED BY <4>2, <4>3
    <3> QED BY <2>3, <3>1, <3>2, SnapshotEntry
  <2> QED BY <2>1, <2>2, <2>3 DEF Next, SnapshotFresh
<1> QED
  BY <1>1, <1>2, Typing, Exclusion, PTL DEF Spec
----------------------------------------------------------------------------
(* A lock that nobody holds.                                               *)

\* A lock file whose owner died stays: releaseLock is only reached by a
\* process inside, and acquireLock lets none in while the file is there.  There
\* is no step that takes an old lock away (ingestionManifest.ts:135-165).
THEOREM LockStaysLost == Spec => AbandonedForever
<1>1. TypeOK /\ [Next]_vars => [Abandoned => Abandoned']_vars
  <2> SUFFICES ASSUME TypeOK, [Next]_vars, Abandoned PROVE Abandoned'
    OBVIOUS
  <2>1. CASE UNCHANGED vars
    BY <2>1 DEF vars, Abandoned, Holds
  <2>2. CASE Tick
    BY <2>2 DEF Tick, Abandoned, Holds
  <2>3. ASSUME NEW p \in Proc, Start(p) \/ Step(p) \/ Crash(p) PROVE Abandoned'
    <3>1. ~AcquireLock(p)
      BY DEF AcquireLock, Abandoned
    <3>2. ~ReleaseLock(p)
      BY DEF ReleaseLock, Return, Goto, Abandoned, Holds, Critical
    <3>3. lock'
      BY <2>3, <3>1, <3>2, LockChange DEF Abandoned
    <3>4. \A q \in Proc : ~Holds(q)'
      BY <2>3, <3>1, CriticalEntry DEF Abandoned
    <3> QED BY <3>3, <3>4 DEF Abandoned
  <2> QED BY <2>1, <2>2, <2>3 DEF Next
<1> QED
  BY <1>1, Typing, PTL DEF Spec, AbandonedForever

----------------------------------------------------------------------------
(* The manifest implements the log of ManifestLog.                         *)

\* A process changes nothing but its own place, call and snapshot.
LEMMA OthersStay ==
  ASSUME TypeOK, NEW p \in Proc, Start(p) \/ Step(p) \/ Crash(p), NEW q \in Proc, q # p
  PROVE  pc'[q] = pc[q] /\ op'[q] = op[q] /\ lines'[q] = lines[q] /\ keep'[q] = keep[q]
<1> USE DEF TypeOK, Goto, Return, files, locals, steady
<1>1. CASE Start(p)
  BY <1>1 DEF Start, RecordStart, ReviewStart, MaintenanceStart
<1>2. CASE Crash(p)
  BY <1>2 DEF Crash
<1>3. CASE AcquireLock(p) \/ LockBusy(p) \/ LockTimeout(p) \/ ReleaseLock(p)
  BY <1>3 DEF AcquireLock, LockBusy, LockTimeout, ReleaseLock
<1>4. CASE WriteTemp(p) \/ RemoveTemp(p) \/ AppendLine(p) \/ AppendFails(p)
  BY <1>4 DEF WriteTemp, RemoveTemp, AppendLine, AfterAppend, AppendFails
<1>5. CASE ReadManifest(p) \/ WriteArchive(p) \/ WriteBackup(p)
  BY <1>5 DEF ReadManifest, WriteArchive, WriteBackup
<1>6. CASE Truncate(p) \/ Rewrite(p) \/ RewriteFails(p)
  BY <1>6 DEF Truncate, Rewrite, RewriteFails
<1> QED BY <1>1, <1>2, <1>3, <1>4, <1>5, <1>6 DEF Step

\* What a process is going to write back.
Keeping == {"archive", "backup", "truncate", "rewrite"}

\* It comes from what the process has read, and leaves out what does not parse and,
\* in a prune, what has expired.
KeepsRead ==
  \A p \in Proc : pc[p] \in Keeping =>
    /\ keep[p] \subseteq lines[p]
    /\ op[p] # "prune" => \A l \in lines[p] \ keep[p] : ~ Parses(l)
    /\ pc[p] = "archive" => op[p] = "prune"
    /\ pc[p] = "backup" => op[p] # "prune"

\* Lines are numbered as they are appended.
Numbered ==
  /\ \A l \in manifest \cup archive : l.n <= appends
  /\ \A p \in Proc : \A l \in lines[p] : l.n <= appends

\* Both together.
LogInv == KeepsRead /\ Numbered

\* No step breaks KeepsRead: only a read sets what a process will write back.
LEMMA KeepsReadStep ==
  ASSUME TypeOK, KeepsRead, [Next]_vars PROVE KeepsRead'
<1>1. CASE UNCHANGED vars
  BY <1>1 DEF vars, KeepsRead, Keeping
<1>2. CASE Tick
  BY <1>2 DEF Tick, KeepsRead, Keeping, locals, files
<1>3. ASSUME NEW p \in Proc, Start(p) \/ Step(p) \/ Crash(p), NEW q \in Proc, pc'[q] \in Keeping
      PROVE  /\ keep'[q] \subseteq lines'[q]
             /\ op'[q] # "prune" => \A l \in lines'[q] \ keep'[q] : ~ Parses(l)
             /\ pc'[q] = "archive" => op'[q] = "prune"
             /\ pc'[q] = "backup" => op'[q] # "prune"
  <2>1. CASE q # p
    BY <1>3, <2>1, OthersStay DEF KeepsRead
  <2>2. CASE q = p
    <3> USE DEF TypeOK, Goto, Return, files, locals, steady, Keeping, Op
    <3>1. CASE Start(p)
      BY <1>3, <2>2, <3>1 DEF Start, RecordStart, ReviewStart, MaintenanceStart
    <3>2. CASE Crash(p)
      BY <1>3, <2>2, <3>2 DEF Crash
    <3>3. CASE AcquireLock(p)
      BY <1>3, <2>2, <3>3, FirstStepType DEF AcquireLock
    <3>4. CASE LockBusy(p) \/ LockTimeout(p) \/ ReleaseLock(p)
      BY <1>3, <2>2, <3>4 DEF LockBusy, LockTimeout, ReleaseLock
    <3>5. CASE WriteTemp(p) \/ RemoveTemp(p) \/ AppendLine(p) \/ AppendFails(p)
      BY <1>3, <2>2, <3>5 DEF WriteTemp, RemoveTemp, AppendLine, AfterAppend, AppendFails
    <3>6. CASE ReadManifest(p)
      BY <1>3, <2>2, <3>6 DEF ReadManifest
    <3>7. CASE WriteArchive(p) \/ WriteBackup(p) \/ Truncate(p) \/ Rewrite(p) \/ RewriteFails(p)
      BY <1>3, <2>2, <3>7 DEF WriteArchive, WriteBackup, Truncate, Rewrite, RewriteFails, KeepsRead
    <3> QED BY <1>3, <3>1, <3>2, <3>3, <3>4, <3>5, <3>6, <3>7 DEF Step
  <2> QED BY <2>1, <2>2
<1> QED BY <1>1, <1>2, <1>3 DEF Next, KeepsRead

\* No step breaks Numbered: lines are copied from the manifest or appended with the next number.
LEMMA NumberedStep ==
  ASSUME TypeOK, LogInv, [Next]_vars PROVE Numbered'
<1> USE DEF TypeOK, Goto, Return, files, locals, steady
<1>1. CASE UNCHANGED vars \/ Tick
  BY <1>1 DEF vars, Tick, Numbered, LogInv
<1>2. ASSUME NEW p \in Proc, Start(p) \/ Step(p) \/ Crash(p) PROVE Numbered'
  <2>1. CASE Start(p)
    BY <2>1 DEF Start, RecordStart, ReviewStart, MaintenanceStart, Numbered, LogInv
  <2>2. CASE Crash(p) \/ LockTimeout(p) \/ ReleaseLock(p)
    BY <2>2 DEF Crash, LockTimeout, ReleaseLock, Numbered, LogInv
  <2>3. CASE AcquireLock(p) \/ LockBusy(p) \/ WriteTemp(p) \/ RemoveTemp(p) \/ WriteBackup(p)
    BY <2>3 DEF AcquireLock, LockBusy, WriteTemp, RemoveTemp, WriteBackup, Numbered, LogInv
  <2>4. CASE AppendLine(p) \/ AppendFails(p)
    <3>1. appends' \in Nat /\ appends' >= appends
      BY <2>4 DEF AppendLine, AppendFails
    <3>2. archive' = archive /\ lines' = lines
      BY <2>4 DEF AppendLine, AppendFails
    <3>3. \A l \in manifest' : l \in manifest \/ l.n = appends'
      BY <2>4 DEF AppendLine, AppendFails
    <3>4. \A q \in Proc : \A l \in lines[q] : l.n \in Nat
      BY DEF Line
    <3> QED BY <3>1, <3>2, <3>3, <3>4 DEF Numbered, LogInv, Line
  <2>5. CASE ReadManifest(p)
    BY <2>5 DEF ReadManifest, Numbered, LogInv
  <2>6. CASE WriteArchive(p)
    BY <2>6 DEF WriteArchive, ToArchive, Numbered, LogInv
  <2>7. CASE Truncate(p) \/ Rewrite(p)
    BY <2>7 DEF Truncate, Rewrite, Numbered, LogInv, KeepsRead, Keeping
  <2>8. CASE RewriteFails(p)
    <3>1. appends' = appends /\ lines' = lines
      BY <2>8 DEF RewriteFails
    <3>2. \A l \in manifest' : l \in manifest \/ (l \in keep[p] /\ pc[p] = "rewrite")
      BY <2>8 DEF RewriteFails, Prefixes
    <3>3. \A l \in archive' : l \in archive \/ l \in lines[p]
      BY <2>8 DEF RewriteFails, Prefixes, ToArchive
    <3> QED BY <3>1, <3>2, <3>3 DEF Numbered, LogInv, KeepsRead, Keeping
  <2> QED BY <1>2, <2>1, <2>2, <2>3, <2>4, <2>5, <2>6, <2>7, <2>8 DEF Step
<1> QED BY <1>1, <1>2 DEF Next

\* What a process writes back comes from what it read, in every reachable state
\* (pruneManifest.ts, repairManifest.ts).
LEMMA LogTyping == Spec => []LogInv
<1>1. Init => LogInv
  BY DEF Init, LogInv, KeepsRead, Numbered, Keeping
<1>2. TypeOK /\ LogInv /\ [Next]_vars => LogInv'
  BY KeepsReadStep, NumberedStep DEF LogInv
<1> QED BY <1>1, <1>2, Typing, PTL DEF Spec

----------------------------------------------------------------------------
\* At most one process rewrites, and then the manifest stands for what it keeps.
LiveMeans ==
  /\ \A p \in Proc : Rewriting(p) => Live = keep[p]
  /\ (\A p \in Proc : ~ Rewriting(p)) => Live = manifest

\* Mutual exclusion leaves at most one process rewriting.
LEMMA LiveIs == MutualExclusion => LiveMeans
<1> SUFFICES ASSUME MutualExclusion PROVE LiveMeans
  OBVIOUS
<1>1. ASSUME NEW p \in Proc, Rewriting(p) PROVE Live = keep[p]
  <2> DEFINE other == CHOOSE q \in Proc : Rewriting(q)
  <2>1. other \in Proc /\ Rewriting(other)
    BY <1>1
  <2>2. other = p
    BY <1>1, <2>1 DEF MutualExclusion, Rewriting, Holds, Critical
  <2> QED BY <1>1, <2>2 DEF Live
<1>2. (\A p \in Proc : ~ Rewriting(p)) => Live = manifest
  BY DEF Live
<1> QED BY <1>1, <1>2 DEF LiveMeans

\* The same in the state after a step.
LEMMA LiveIsNext == MutualExclusion' => LiveMeans'
  BY LiveIs, PTL

\* Only these steps change what the manifest stands for, or the archive.
LEMMA LiveStays ==
  ASSUME TypeOK, MutualExclusion, MutualExclusion', LogInv, NEW p \in Proc,
         \/ Start(p)
         \/ AcquireLock(p) \/ LockBusy(p) \/ LockTimeout(p) \/ ReleaseLock(p)
         \/ WriteTemp(p) \/ RemoveTemp(p) \/ ReadManifest(p) \/ WriteBackup(p)
  PROVE  Live' = Live /\ archive' = archive
<1> USE DEF TypeOK, Goto, Return, files, locals, steady
<1>1. manifest' = manifest /\ archive' = archive
  BY DEF Start, RecordStart, ReviewStart, MaintenanceStart, AcquireLock, LockBusy,
     LockTimeout, ReleaseLock, WriteTemp, RemoveTemp, ReadManifest, WriteBackup
<1>2. \A q \in Proc : Rewriting(q)' <=> Rewriting(q)
  <2> USE DEF Rewriting
  <2>1. CASE Start(p)
    BY <2>1 DEF Start, RecordStart, ReviewStart, MaintenanceStart
  <2>2. CASE AcquireLock(p)
    BY <2>2, FirstStepType DEF AcquireLock
  <2>3. CASE LockBusy(p) \/ LockTimeout(p) \/ ReleaseLock(p)
    BY <2>3 DEF LockBusy, LockTimeout, ReleaseLock
  <2>4. CASE WriteTemp(p) \/ RemoveTemp(p) \/ ReadManifest(p) \/ WriteBackup(p)
    BY <2>4 DEF WriteTemp, RemoveTemp, ReadManifest, WriteBackup, LogInv, KeepsRead, Keeping
  <2> QED BY <2>1, <2>2, <2>3, <2>4
<1>3. \A q \in Proc : Rewriting(q) => keep'[q] = keep[q]
  BY DEF Start, RecordStart, ReviewStart, MaintenanceStart, AcquireLock, LockBusy,
     LockTimeout, ReleaseLock, WriteTemp, RemoveTemp, ReadManifest, WriteBackup, Rewriting
<1> QED BY <1>1, <1>2, <1>3, LiveIs, LiveIsNext DEF LiveMeans

\* A process in the critical section that does not rewrite is alone: the
\* manifest stands for itself.
LEMMA LiveOutside ==
  ASSUME MutualExclusion, LiveMeans, NEW p \in Proc, Holds(p), ~ Rewriting(p)
  PROVE  Live = manifest
<1>1. \A q \in Proc : ~ Rewriting(q)
  BY DEF MutualExclusion, Rewriting, Holds, Critical
<1> QED BY <1>1 DEF LiveMeans

\* An append, whole or torn, happens while nobody rewrites.
LEMMA AppendLive ==
  ASSUME TypeOK, MutualExclusion, MutualExclusion', NEW p \in Proc, AppendLine(p) \/ AppendFails(p)
  PROVE  Live = manifest /\ Live' = manifest' /\ archive' = archive
<1> USE DEF TypeOK, Goto
<1>1. Holds(p) /\ ~ Rewriting(p)
  BY DEF AppendLine, AppendFails, Holds, Critical, Rewriting
<1>2. Holds(p)' /\ ~ Rewriting(p)'
  BY DEF AppendLine, AppendFails, AfterAppend, Holds, Critical, Rewriting
<1>3. \A q \in Proc : ~ Rewriting(q)'
  BY <1>2 DEF MutualExclusion, Rewriting, Holds, Critical
<1> QED BY <1>1, <1>3, LiveIs, LiveIsNext, LiveOutside DEF LiveMeans, AppendLine, AppendFails

\* Every step of the manifest is a step of the log or leaves it as it is, as long as no
\* rewrite fails and nobody dies.
LEMMA LogStep ==
  ASSUME TypeOK, MutualExclusion, MutualExclusion', SnapshotFresh, LogInv,
         failed' \subseteq {"append"}, [Next]_vars
  PROVE  [Log!Next]_(Log!logVars)
<1> USE LiveIs, LiveIsNext DEF Log!logVars
<1>1. CASE UNCHANGED vars \/ Tick
  <2>1. UNCHANGED <<pc, op, keep, manifest, archive>>
    BY <1>1 DEF vars, Tick, files, locals
  <2>2. \A q \in Proc : Rewriting(q)' <=> Rewriting(q)
    BY <2>1 DEF Rewriting
  <2> QED BY <2>1, <2>2 DEF LiveMeans
<1>2. ASSUME NEW p \in Proc, Start(p) \/ Step(p) \/ Crash(p)
      PROVE  [Log!Next]_(Log!logVars)
  <2> USE DEF TypeOK, Goto, files, locals, steady
  <2> HIDE LiveIs, LiveIsNext
  <2>0. LiveMeans /\ LiveMeans'
    BY LiveIs, LiveIsNext
  <2>1. CASE \/ Start(p)
             \/ AcquireLock(p) \/ LockBusy(p) \/ LockTimeout(p) \/ ReleaseLock(p)
             \/ WriteTemp(p) \/ RemoveTemp(p) \/ ReadManifest(p) \/ WriteBackup(p)
    BY <2>1, LiveStays
  <2>6. ~ Crash(p) /\ ~ RewriteFails(p)
    BY DEF Crash, RewriteFails
  <2>2. CASE AppendLine(p) \/ AppendFails(p)
    <3>4. Live = manifest /\ Live' = manifest' /\ archive' = archive
      BY <2>2, AppendLive
    <3>5. \/ manifest' = manifest
          \/ \E l \in manifest' : l.n = appends + 1 /\ manifest' = manifest \cup {l}
      BY <2>2 DEF AppendLine, AppendFails
    <3>6. ASSUME NEW l \in manifest', l.n = appends + 1, manifest' = manifest \cup {l}
          PROVE  Log!Add(l)
      <4>1. \A m \in Live \cup archive : m.n < l.n
        BY <3>4, <3>6 DEF LogInv, Numbered, Line
      <4> QED BY <3>4, <3>6, <4>1 DEF Log!Add
    <3> QED BY <3>4, <3>5, <3>6 DEF Log!Next
  <2>3. CASE WriteArchive(p)
    <3> DEFINE torn == {l \in lines[p] \ keep[p] : ~ Parses(l)}
    <3>1. Holds(p) /\ ~ Rewriting(p) /\ lines[p] = manifest /\ keep[p] \subseteq lines[p] /\ op[p] = "prune"
      BY <2>3 DEF WriteArchive, Holds, Critical, Rewriting, SnapshotFresh, LogInv, KeepsRead, Keeping
    <3>2. Rewriting(p)' /\ keep' = keep /\ archive' = archive \cup ToArchive(p)
      BY <2>3, <3>1 DEF WriteArchive, Rewriting
    <3>3. Live = manifest /\ Live' = keep[p]
      BY <2>0, <3>1, <3>2, LiveOutside DEF LiveMeans
    <3>4. ToArchive(p) \in SUBSET Live /\ torn \in SUBSET Live
      BY <3>1, <3>3 DEF ToArchive
    <3>5. \A l \in torn : l.rec = Garbled
      BY DEF Parses
    <3>6. Live' = Live \ (ToArchive(p) \cup torn)
      BY <3>1, <3>3 DEF ToArchive
    <3>7. Log!Move(ToArchive(p), torn)
      BY <3>2, <3>5, <3>6 DEF Log!Move
    <3> QED BY <3>4, <3>7 DEF Log!Next
  <2>4. CASE Truncate(p)
    <3>1. Holds(p) /\ lines[p] = manifest /\ keep[p] \subseteq lines[p]
      BY <2>4 DEF Truncate, Holds, Critical, SnapshotFresh, LogInv, KeepsRead, Keeping
    <3>2. Rewriting(p)' /\ keep' = keep /\ archive' = archive
      BY <2>4 DEF Truncate, Rewriting
    <3>3. Live' = keep[p]
      BY <2>0, <3>2 DEF LiveMeans
    <3>4. CASE op[p] = "prune"
      <4>1. Rewriting(p)
        BY <2>4, <3>4 DEF Truncate, Rewriting
      <4> QED BY <2>0, <3>2, <3>3, <4>1 DEF LiveMeans
    <3>5. CASE op[p] # "prune"
      <4>1. ~ Rewriting(p)
        BY <2>4, <3>5 DEF Truncate, Rewriting
      <4>2. Live = manifest
        BY <2>0, <3>1, <4>1, LiveOutside
      <4>3. \A l \in lines[p] \ keep[p] : l.rec = Garbled
        BY <2>4, <3>5 DEF Truncate, LogInv, KeepsRead, Keeping, Parses
      <4>4. Log!Move({}, lines[p] \ keep[p])
        BY <3>1, <3>2, <3>3, <4>2, <4>3 DEF Log!Move
      <4> QED BY <3>1, <4>2, <4>4 DEF Log!Next
    <3> QED BY <3>4, <3>5
  <2>5. CASE Rewrite(p)
    <3>1. Rewriting(p) /\ Holds(p)' /\ ~ Rewriting(p)' /\ manifest' = keep[p] /\ archive' = archive
      BY <2>5 DEF Rewrite, Rewriting, Holds, Critical
    <3>2. \A q \in Proc : ~ Rewriting(q)'
      BY <3>1 DEF MutualExclusion, Rewriting, Holds, Critical
    <3> QED BY <2>0, <3>1, <3>2 DEF LiveMeans
  <2> QED BY <1>2, <2>1, <2>2, <2>3, <2>4, <2>5, <2>6 DEF Step
<1> QED BY <1>1, <1>2 DEF Next

\* The manifest is a log whose lines leave only for the archive or because they do not parse.
THEOREM Refinement == Faults \subseteq {"append"} => (Spec => Implements)
<1> SUFFICES ASSUME Faults \subseteq {"append"} PROVE Spec => Implements
  OBVIOUS
<1>1. Init => Log!Init
  BY DEF Init, Log!Init, Live, Rewriting
<1>2. TypeOK /\ TypeOK' /\ MutualExclusion /\ MutualExclusion' /\ SnapshotFresh /\ LogInv
        /\ [Next]_vars => [Log!Next]_(Log!logVars)
  BY LogStep DEF TypeOK
<1> QED BY <1>1, <1>2, Typing, Exclusion, Freshness, LogTyping, PTL DEF Spec, Implements, Log!Spec

----------------------------------------------------------------------------
(* What appends that fail half-way may lose.                               *)

\* Appends that returned and whose record cannot be read any more.
Lost == written \ (Readable(Live) \cup Readable(archive))

\* Appends that did not return.
Torn == (1 .. appends) \ written

\* A line that is not terminated has lost nothing yet, but its torn append has been
\* made: the next record may be lost for it.
LossInv ==
  failed \subseteq {"append"} =>
    /\ written \subseteq 1 .. appends
    /\ Cardinality(Lost) + (IF terminated THEN 0 ELSE 1) <= Cardinality(Torn)

\* The lost and the torn appends can be counted.
LEMMA LossSets ==
  ASSUME TypeOK, written \subseteq 1 .. appends
  PROVE  /\ IsFiniteSet(Lost) /\ Cardinality(Lost) \in Nat
         /\ IsFiniteSet(Torn) /\ Cardinality(Torn) \in Nat
<1>1. IsFiniteSet(1 .. appends)
  BY FS_Interval DEF TypeOK
<1>2. Lost \subseteq 1 .. appends /\ Torn \subseteq 1 .. appends
  BY DEF Lost, Torn
<1>3. IsFiniteSet(Lost) /\ IsFiniteSet(Torn)
  BY <1>1, <1>2, FS_Subset
<1> QED BY <1>3, FS_CardinalityType

\* Moving lines to the archive and dropping what does not parse loses no record, nor
\* does an append.
LEMMA ReadableStays ==
  ASSUME [Log!Next]_(Log!logVars)
  PROVE  Readable(Live) \cup Readable(archive) \subseteq Readable(Live') \cup Readable(archive')
<1>1. \A l \in Live \cup archive : Parses(l) => l \in Live' \cup archive'
  BY DEF Log!Next, Log!Add, Log!Move, Log!logVars, Parses
<1> QED BY <1>1 DEF Readable

\* A step loses at most one record, and only behind a torn append.
LEMMA LossStep ==
  ASSUME TypeOK, TypeOK', MutualExclusion, MutualExclusion', SnapshotFresh, LogInv, LossInv,
         failed' \subseteq {"append"}, [Next]_vars
  PROVE  /\ written' \subseteq 1 .. appends'
         /\ Cardinality(Lost') + (IF terminated' THEN 0 ELSE 1) <= Cardinality(Torn')
<1>1. failed \subseteq {"append"}
  BY ZenonT(90) DEF vars, Next, Tick, Start, RecordStart, ReviewStart, MaintenanceStart, Step, Crash,
     AcquireLock, LockBusy, LockTimeout, ReleaseLock, WriteTemp, AppendLine, RemoveTemp, AppendFails,
     ReadManifest, WriteArchive, WriteBackup, Truncate, Rewrite, RewriteFails, steady
<1>2. /\ written \subseteq 1 .. appends
      /\ Cardinality(Lost) + (IF terminated THEN 0 ELSE 1) <= Cardinality(Torn)
      /\ IsFiniteSet(Lost) /\ Cardinality(Lost) \in Nat
      /\ IsFiniteSet(Torn) /\ Cardinality(Torn) \in Nat
  BY <1>1, LossSets DEF LossInv
<1>3. Readable(Live) \cup Readable(archive) \subseteq Readable(Live') \cup Readable(archive')
  BY LogStep, ReadableStays
<1>4. ASSUME written' = written, appends' = appends, terminated' \in {terminated, TRUE}
      PROVE  /\ written' \subseteq 1 .. appends'
             /\ Cardinality(Lost') + (IF terminated' THEN 0 ELSE 1) <= Cardinality(Torn')
  <2>1. Lost' \subseteq Lost /\ Torn' = Torn
    BY <1>3, <1>4 DEF Lost, Torn
  <2>2. Cardinality(Lost') \in Nat /\ Cardinality(Lost') <= Cardinality(Lost)
    BY <1>2, <2>1, FS_Subset, FS_CardinalityType
  <2>3. CASE terminated'
    BY <1>2, <1>4, <2>1, <2>2, <2>3
  <2>4. CASE ~ terminated'
    <3>1. ~ terminated
      BY <1>4, <2>4
    <3> QED BY <1>2, <1>4, <2>1, <2>2, <2>4, <3>1
  <2> QED BY <2>3, <2>4
<1>5. ASSUME NEW p \in Proc, AppendLine(p)
      PROVE  /\ written' \subseteq 1 .. appends'
             /\ Cardinality(Lost') + (IF terminated' THEN 0 ELSE 1) <= Cardinality(Torn')
  <2>1. /\ appends \in Nat /\ appends' = appends + 1 /\ terminated'
        /\ written' = written \cup {appends + 1}
    BY <1>5 DEF AppendLine, TypeOK
  <2>2. written' \subseteq 1 .. appends' /\ Torn' = Torn
    BY <1>2, <2>1 DEF Torn
  <2>3. CASE terminated
    <3>1. /\ manifest' = manifest \cup {[n |-> appends + 1, rec |-> rec[p]]}
          /\ rec[p] \in Record
      BY <1>5, <2>3 DEF AppendLine, Goto, TypeOK
    <3>2. Live' = manifest'
      BY <1>5, AppendLive
    <3>3. appends + 1 \in Readable(Live')
      <4>1. rec[p] # Garbled
        BY <3>1, ConstantsAssumption
      <4>2. PICK line : line = [n |-> appends + 1, rec |-> rec[p]]
        OBVIOUS
      <4>3. line \in Live' /\ Parses(line) /\ line.n = appends + 1
        BY <3>1, <3>2, <4>1, <4>2 DEF Parses
      <4> QED BY <4>3 DEF Readable
    <3>4. Lost' \subseteq Lost
      BY <1>3, <2>1, <3>3 DEF Lost
    <3>5. Cardinality(Lost') \in Nat /\ Cardinality(Lost') <= Cardinality(Lost)
      BY <1>2, <3>4, FS_Subset, FS_CardinalityType
    <3> QED BY <1>2, <2>1, <2>2, <2>3, <3>5
  <2>4. CASE ~ terminated
    <3>1. Lost' \subseteq Lost \cup {appends + 1}
      BY <1>3, <2>1 DEF Lost
    <3>2. /\ IsFiniteSet(Lost \cup {appends + 1})
          /\ Cardinality(Lost \cup {appends + 1}) \in {Cardinality(Lost), Cardinality(Lost) + 1}
      BY <1>2, FS_AddElement
    <3>3. Cardinality(Lost') \in Nat /\ Cardinality(Lost') <= Cardinality(Lost) + 1
      <4>1. Cardinality(Lost') <= Cardinality(Lost \cup {appends + 1})
        BY <3>1, <3>2, FS_Subset
      <4>2. IsFiniteSet(Lost')
        BY <3>1, <3>2, FS_Subset
      <4> QED BY <1>2, <3>2, <4>1, <4>2, FS_CardinalityType
    <3> QED BY <1>2, <2>1, <2>2, <2>4, <3>3
  <2> QED BY <2>3, <2>4 DEF TypeOK
<1>6. ASSUME NEW p \in Proc, AppendFails(p), appends' # appends
      PROVE  /\ written' \subseteq 1 .. appends'
             /\ Cardinality(Lost') + (IF terminated' THEN 0 ELSE 1) <= Cardinality(Torn')
  <2>1. appends \in Nat /\ appends' = appends + 1 /\ ~ terminated' /\ written' = written
    BY <1>6 DEF AppendFails, TypeOK
  <2>2. Lost' \subseteq Lost /\ Torn' = Torn \cup {appends + 1} /\ appends + 1 \notin Torn
    BY <1>2, <1>3, <2>1 DEF Lost, Torn
  <2>3. Cardinality(Lost') \in Nat /\ Cardinality(Lost') <= Cardinality(Lost)
    BY <1>2, <2>2, FS_Subset, FS_CardinalityType
  <2>4. Cardinality(Torn') = Cardinality(Torn) + 1
    BY <1>2, <2>2, FS_AddElement
  <2> QED BY <1>2, <2>1, <2>3, <2>4
<1>7. ASSUME ~ \E p \in Proc : AppendLine(p) \/ (AppendFails(p) /\ appends' # appends)
      PROVE  written' = written /\ appends' = appends /\ terminated' \in {terminated, TRUE}
  <2> USE DEF files, steady
  <2>1. CASE UNCHANGED vars \/ Tick
    BY <2>1 DEF vars, Tick
  <2>2. ASSUME NEW p \in Proc, Start(p) \/ Step(p) \/ Crash(p)
        PROVE  written' = written /\ appends' = appends /\ terminated' \in {terminated, TRUE}
    <3>1. CASE AppendFails(p)
      <4>1. appends' = appends /\ appends \in Nat
        BY <1>7, <3>1 DEF TypeOK
      <4>2. /\ \/ terminated' = terminated
               \/ appends' = appends + 1
            /\ written' = written
        BY <3>1 DEF AppendFails
      <4>3. appends' # appends + 1
        BY <4>1
      <4> QED BY <4>1, <4>2, <4>3
    <3>2. CASE ~ AppendFails(p)
      BY <1>7, <2>2, <3>2 DEF Start, RecordStart, ReviewStart, MaintenanceStart, Step, Crash,
         AcquireLock, LockBusy, LockTimeout, ReleaseLock, WriteTemp, RemoveTemp,
         ReadManifest, WriteArchive, WriteBackup, Truncate, Rewrite, RewriteFails
    <3> QED BY <3>1, <3>2
  <2> QED BY <2>1, <2>2 DEF Next
<1> QED BY <1>4, <1>5, <1>6, <1>7

\* However many appends fail half-way, each takes at most one record with it that was
\* reported as written (ingestionManifest.ts:60-84).
THEOREM LossBounded == Spec => []LossBoundedByTornAppends
<1>1. Init => LossInv
  <2> SUFFICES ASSUME Init PROVE written \subseteq 1 .. appends
                               /\ Cardinality(Lost) + (IF terminated THEN 0 ELSE 1) <= Cardinality(Torn)
    BY DEF LossInv
  <2>1. Lost = {} /\ Torn = {} /\ terminated /\ written = {}
    BY DEF Init, Lost, Torn
  <2> QED BY <2>1, FS_EmptySet
<1>2. /\ TypeOK /\ TypeOK' /\ MutualExclusion /\ MutualExclusion' /\ SnapshotFresh /\ LogInv
      /\ LossInv /\ [Next]_vars
      => LossInv'
  BY LossStep DEF LossInv
<1>3. TypeOK /\ LossInv => LossBoundedByTornAppends
  BY LossSets DEF LossInv, LossBoundedByTornAppends, Lost, Torn, TypeOK
<1> QED BY <1>1, <1>2, <1>3, Typing, Exclusion, Freshness, LogTyping, PTL DEF Spec
=============================================================================
