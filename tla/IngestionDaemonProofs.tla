------------------------ MODULE IngestionDaemonProofs ------------------------
(***************************************************************************)
(* Theorems about IngestionDaemon: for any number of cycles and lines, any *)
(* requests of the operator and any docs events, whichever daemon it is.   *)
(***************************************************************************)
EXTENDS IngestionDaemon, FiniteSetTheorems, SequenceTheorems, WellFoundedInduction, TLAPS

-----------------------------------------------------------------------------
(* The rules of the control state.                                         *)

\* Neither a playbook nor a violation of the daemons touches the drift or a lockdown.
Keeps(s, t) ==
  t \in State /\ t.drift = s.drift /\ t.governanceLockdown = s.governanceLockdown

\* A playbook switched on or off changes nothing that is proved about.
LEMMA PlaybookKeeps ==
  ASSUME NEW s \in State, NEW name \in Playbook, NEW active \in BOOLEAN
  PROVE  Keeps(s, SetPlaybook(s, name, active))
BY DEF Keeps, SetPlaybook, State

\* A lockdown switched on or off is what the state then says.
LEMMA LockdownGives ==
  ASSUME NEW s \in State, NEW active \in BOOLEAN
  PROVE  /\ Lockdown(s, active) \in State /\ Lockdown(s, active).drift = s.drift
         /\ Lockdown(s, active).governanceLockdown = active
<1> DEFINE t == SetPlaybook(s, "governanceLockdown", active)
<1>1. t \in State /\ t.drift = s.drift
  BY PlaybookKeeps DEF Keeps, Playbook
<1> HIDE DEF t
<1>2. Lockdown(s, active) = [t EXCEPT !.governanceLockdown = active, !.promotionsFrozen = active,
                                      !.rollbacksFrozen = active]
  BY DEF Lockdown, t
<1> QED BY <1>1, <1>2, ZenonT(90) DEF State

\* Another set of violations changes nothing that is proved about.
LEMMA ViolationStays ==
  ASSUME NEW s \in State, NEW v \in SUBSET Category
  PROVE  Keeps(s, [s EXCEPT !.violations = v])
BY DEF Keeps, State

\* Nor do the freezes of the routing.
LEMMA FreezeStays ==
  ASSUME NEW s \in State, NEW a \in BOOLEAN, NEW b \in BOOLEAN
  PROVE  /\ Keeps(s, [s EXCEPT !.routingFrozen = a])
         /\ Keeps(s, [s EXCEPT !.frozenBackend = a])
         /\ Keeps(s, [s EXCEPT !.routingFrozen = a, !.frozenBackend = b])
BY ZenonT(90) DEF Keeps, State

\* What several mutators each leave alone, they leave alone together.
LEMMA KeepsTransitive ==
  ASSUME NEW s, NEW t, NEW u, Keeps(s, t), Keeps(t, u)
  PROVE  Keeps(s, u)
BY DEF Keeps

\* A violation keeps the drift, and but for a broken chain a lockdown too.
LEMMA AddKeeps ==
  ASSUME NEW s \in State, NEW category \in Category, NEW severity \in Severity
  PROVE  LET new == AddViolation(s, category, severity) IN
         /\ new \in State /\ new.drift = s.drift
         /\ ~ (severity = "SEV-1" /\ category = "governance_chain_break") => Keeps(s, new)
<1> DEFINE t == [s EXCEPT !.violations = @ \cup {category}]
<1>1. Keeps(s, t) /\ t \in State
  <2>1. s.violations \cup {category} \in SUBSET Category
    BY DEF State
  <2> QED BY <2>1, ViolationStays DEF Keeps
<1> HIDE DEF t
<1>2. AddViolation(s, category, severity) =
        CASE severity = "SEV-1" /\ category = "governance_chain_break" -> Lockdown(t, TRUE)
          [] severity = "SEV-2" /\ category = "routing_oscillation" ->
               [SetPlaybook(t, "routingStability", TRUE) EXCEPT !.routingFrozen = TRUE]
          [] severity = "SEV-2" /\ category = "ingestion_backlog" ->
               SetPlaybook(t, "ingestionRecovery", TRUE)
          [] severity = "SEV-3" /\ category = "drift_spike" -> SetPlaybook(t, "driftSpike", TRUE)
          [] OTHER -> t
  BY DEF AddViolation, t
<1>3. CASE severity = "SEV-1" /\ category = "governance_chain_break"
  BY <1>1, <1>2, <1>3, LockdownGives, ZenonT(90) DEF Keeps
<1>4. CASE severity = "SEV-2" /\ category = "routing_oscillation"
  <2> DEFINE u == SetPlaybook(t, "routingStability", TRUE)
  <2>1. Keeps(t, u)
    BY <1>1, PlaybookKeeps DEF Playbook
  <2> HIDE DEF u
  <2>2. Keeps(u, [u EXCEPT !.routingFrozen = TRUE])
    BY <2>1, FreezeStays DEF Keeps
  <2>3. AddViolation(s, category, severity) = [u EXCEPT !.routingFrozen = TRUE]
    BY <1>2, <1>4 DEF u
  <2> QED BY <1>1, <2>1, <2>2, <2>3, KeepsTransitive DEF Keeps
<1>5. CASE severity = "SEV-2" /\ category = "ingestion_backlog"
  <2>1. Keeps(t, SetPlaybook(t, "ingestionRecovery", TRUE))
    BY <1>1, PlaybookKeeps DEF Playbook
  <2>2. AddViolation(s, category, severity) = SetPlaybook(t, "ingestionRecovery", TRUE)
    BY <1>2, <1>5
  <2> QED BY <1>1, <2>1, <2>2, KeepsTransitive DEF Keeps
<1>6. CASE severity = "SEV-3" /\ category = "drift_spike"
  <2>1. Keeps(t, SetPlaybook(t, "driftSpike", TRUE))
    BY <1>1, PlaybookKeeps DEF Playbook
  <2>2. AddViolation(s, category, severity) = SetPlaybook(t, "driftSpike", TRUE)
    BY <1>2, <1>6
  <2> QED BY <1>1, <2>1, <2>2, KeepsTransitive DEF Keeps
<1>7. CASE /\ ~ (severity = "SEV-1" /\ category = "governance_chain_break")
           /\ ~ (severity = "SEV-2" /\ category \in {"routing_oscillation", "ingestion_backlog"})
           /\ ~ (severity = "SEV-3" /\ category = "drift_spike")
  <2>1. AddViolation(s, category, severity) = t
    BY <1>2, <1>7
  <2> QED BY <2>1, <1>1 DEF Keeps
<1> QED BY <1>3, <1>4, <1>5, <1>6, <1>7

\* The same of a violation that is cleared.
LEMMA ClearKeeps ==
  ASSUME NEW s \in State, NEW category \in Category
  PROVE  LET new == ClearViolation(s, category) IN
         /\ new \in State /\ new.drift = s.drift
         /\ category # "governance_chain_break" => Keeps(s, new)
<1> DEFINE t == [s EXCEPT !.violations = @ \ {category}]
<1>1. Keeps(s, t) /\ t \in State
  <2>1. s.violations \ {category} \in SUBSET Category
    BY DEF State
  <2> QED BY <2>1, ViolationStays DEF Keeps
<1> HIDE DEF t
<1>2. ClearViolation(s, category) =
        CASE category = "governance_chain_break" -> Lockdown(t, FALSE)
          [] category = "routing_oscillation" ->
               [SetPlaybook(t, "routingStability", FALSE) EXCEPT
                  !.routingFrozen = FALSE, !.frozenBackend = FALSE]
          [] category = "ingestion_backlog" -> SetPlaybook(t, "ingestionRecovery", FALSE)
          [] category = "drift_spike" -> SetPlaybook(t, "driftSpike", FALSE)
  BY DEF ClearViolation, t
<1>3. CASE category = "governance_chain_break"
  BY <1>1, <1>2, <1>3, LockdownGives DEF Keeps
<1>4. CASE category = "routing_oscillation"
  <2> DEFINE u == SetPlaybook(t, "routingStability", FALSE)
  <2>1. Keeps(t, u)
    BY <1>1, PlaybookKeeps DEF Playbook
  <2> HIDE DEF u
  <2>2. Keeps(u, [u EXCEPT !.routingFrozen = FALSE, !.frozenBackend = FALSE])
    BY <2>1, FreezeStays DEF Keeps
  <2>3. ClearViolation(s, category) = [u EXCEPT !.routingFrozen = FALSE, !.frozenBackend = FALSE]
    BY <1>2, <1>4 DEF u
  <2> QED BY <1>1, <2>1, <2>2, <2>3, KeepsTransitive DEF Keeps
<1>5. CASE category = "ingestion_backlog"
  <2>1. Keeps(t, SetPlaybook(t, "ingestionRecovery", FALSE))
    BY <1>1, PlaybookKeeps DEF Playbook
  <2>2. ClearViolation(s, category) = SetPlaybook(t, "ingestionRecovery", FALSE)
    BY <1>2, <1>5
  <2> QED BY <1>1, <2>1, <2>2, KeepsTransitive DEF Keeps
<1>6. CASE category = "drift_spike"
  <2>1. Keeps(t, SetPlaybook(t, "driftSpike", FALSE))
    BY <1>1, PlaybookKeeps DEF Playbook
  <2>2. ClearViolation(s, category) = SetPlaybook(t, "driftSpike", FALSE)
    BY <1>2, <1>6
  <2> QED BY <1>1, <2>1, <2>2, KeepsTransitive DEF Keeps
<1> QED BY <1>3, <1>4, <1>5, <1>6 DEF Category


\* No request of the operator touches the drift.
LEMMA ApplyKeepsDrift ==
  ASSUME NEW s \in State, NEW r \in Request
  PROVE  Apply(s, r) \in State /\ Apply(s, r).drift = s.drift
<1>1. r \in StoreRequest
  BY DaemonConstants
<1>2. CASE r \in [kind : {"add"}, category : Category, severity : Severity]
  <2>1. Apply(s, r) = AddViolation(s, r.category, r.severity)
    BY <1>2 DEF Apply
  <2> QED BY <1>2, <2>1, AddKeeps
<1>3. CASE r \in [kind : {"clear"}, category : Category]
  <2>1. Apply(s, r) = ClearViolation(s, r.category)
    BY <1>3 DEF Apply
  <2> QED BY <1>3, <2>1, ClearKeeps
<1>4. CASE r \in [kind : {"playbook"}, name : Playbook, active : BOOLEAN]
  <2>1. Apply(s, r) = TriggerPlaybook(s, r.name, r.active) /\ r.name \in Playbook
        /\ r.active \in BOOLEAN
    BY <1>4 DEF Apply
  <2>2. CASE r.name = "governanceLockdown"
    BY <2>1, <2>2, LockdownGives DEF TriggerPlaybook
  <2>3. CASE r.name = "routingStability"
    <3> DEFINE u == SetPlaybook(s, r.name, r.active)
    <3>1. Keeps(s, u)
      BY <2>1, PlaybookKeeps, SMTT(90)
    <3> HIDE DEF u
    <3>2. Keeps(u, [u EXCEPT !.routingFrozen = r.active])
      BY <2>1, <3>1, FreezeStays DEF Keeps
    <3>3. Apply(s, r) = [u EXCEPT !.routingFrozen = r.active]
      BY <2>1, <2>3 DEF TriggerPlaybook, u
    <3> QED BY <3>1, <3>2, <3>3 DEF Keeps
  <2>4. CASE r.name \notin {"governanceLockdown", "routingStability"}
    <3>1. Apply(s, r) = SetPlaybook(s, r.name, r.active)
      BY <2>1, <2>4 DEF TriggerPlaybook
    <3> QED BY <2>1, <3>1, PlaybookKeeps DEF Keeps
  <2> QED BY <2>2, <2>3, <2>4
<1>5. CASE r \in [kind : {"freeze"}, active : BOOLEAN, backend : BOOLEAN]
  <2>1. PICK b \in BOOLEAN : b = IF r.active THEN s.frozenBackend \/ r.backend ELSE FALSE
    OBVIOUS
  <2>2. Apply(s, r) = FreezeRouting(s, r.active, r.backend) /\ r.active \in BOOLEAN
    BY <1>5 DEF Apply
  <2>3. Apply(s, r) = [s EXCEPT !.routingFrozen = r.active, !.frozenBackend = b]
    BY <2>1, <2>2 DEF FreezeRouting
  <2>4. r.active \in BOOLEAN
    BY <2>2
  <2>5. Keeps(s, [s EXCEPT !.routingFrozen = r.active, !.frozenBackend = b])
    BY <2>4, FreezeStays
  <2> QED BY <2>3, <2>5 DEF Keeps
<1>6. CASE r \in [kind : {"lockdown"}, active : BOOLEAN]
  <2>1. Apply(s, r) = Lockdown(s, r.active)
    BY <1>6 DEF Apply
  <2> QED BY <1>6, <2>1, LockdownGives
<1> QED BY <1>1, <1>2, <1>3, <1>4, <1>5, <1>6 DEF StoreRequest

\* The checks at the end of a cycle keep the drift and a lockdown.
LEMMA ChecksKeep ==
  ASSUME NEW c, NEW s \in State
  PROVE  Keeps(s, CheckOscillation(c, CheckBacklog(c, s)))
<1>1. ASSUME NEW t \in State PROVE Keeps(t, CheckBacklog(c, t))
  <2>1. /\ Keeps(t, AddViolation(t, "ingestion_backlog", "SEV-2"))
        /\ Keeps(t, ClearViolation(t, "ingestion_backlog"))
    BY AddKeeps, ClearKeeps DEF Category, Severity
  <2> QED BY <2>1 DEF CheckBacklog, AddViolationInline, ClearViolationInline
<1>2. ASSUME NEW t \in State PROVE Keeps(t, CheckOscillation(c, t))
  <2> DEFINE u == AddViolation(t, "routing_oscillation", "SEV-2")
  <2>1. Keeps(t, u) /\ Keeps(t, ClearViolation(t, "routing_oscillation"))
    BY AddKeeps, ClearKeeps, SMTT(90) DEF Category, Severity
  <2> HIDE DEF u
  <2>2. Keeps(u, [u EXCEPT !.frozenBackend = TRUE])
    BY <2>1, FreezeStays DEF Keeps
  <2>3. CASE cycle[c].slow > MaxOscillations
    BY <2>1, <2>2, <2>3, KeepsTransitive DEF CheckOscillation, AddViolationInline, u
  <2>4. CASE ~ (cycle[c].slow > MaxOscillations)
    BY <2>1, <2>4 DEF CheckOscillation, ClearViolationInline
  <2> QED BY <2>3, <2>4
<1>3. Keeps(s, CheckBacklog(c, s)) /\ CheckBacklog(c, s) \in State
  BY <1>1 DEF Keeps
<1> QED BY <1>2, <1>3, KeepsTransitive

-----------------------------------------------------------------------------
(* Types.                                                                  *)

Usable == {l \in LogLine : l.key \in Key}

CycleRecord ==
  [pc : {"idle", "reading", "extract", "evaluate"}, state : State, pos : Nat,
   fresh : Seq(Usable), slow : Nat]

CyclesTyping ==
  /\ cycle \in [Cycle -> CycleRecord]
  /\ disk \in State \cup {Absent}

FilesTyping ==
  /\ log \in Seq(LogLine)
  /\ docLog \in Seq({"drift", "other"}) /\ docSeen \in 0..Len(docLog)
  /\ processed \subseteq Key /\ quarantined \subseteq Id
  /\ dlq \in Seq(Key) /\ rotated \in Seq(Seq(Key))
  /\ replay \in [pc : {"idle", "rotated", "rewrite"}, remaining : Seq(Key)]

DaemonTypeOK == CyclesTyping /\ FilesTyping

\* The default state, and so whatever a load returns, is a state.
LEMMA DefaultTyping == DefaultState \in State
BY DEF DefaultState, State

\* A load returns a state.
LEMMA LoadTyping == CyclesTyping => Load \in State
BY DefaultTyping DEF CyclesTyping, Load

\* A cycle that has not begun has read nothing.
LEMMA IdleTyping == IdleCycle \in CycleRecord /\ IdleCycle.fresh = <<>> /\ IdleCycle.pc = "idle"
BY DefaultTyping, SMTT(90) DEF IdleCycle, CycleRecord

\* What a cycle that reads a line becomes.
LEMMA ReadLineGives ==
  ASSUME DaemonTypeOK, NEW c \in Cycle, ReadLine(c)
  PROVE  LET l == log[cycle[c].pos + 1]
             fresh == l.key \in Key \ processed
         IN \E new \in CycleRecord :
              /\ cycle' = [cycle EXCEPT ![c] = new]
              /\ new.pc = cycle[c].pc /\ new.state = cycle[c].state
              /\ l \in LogLine
              /\ new.fresh = IF fresh THEN Append(cycle[c].fresh, l) ELSE cycle[c].fresh
              /\ fresh => l \in Usable /\ processed' = processed \cup {l.key}
              /\ ~ fresh => processed' = processed
              /\ \E i \in DOMAIN log : log[i] = l
<1> DEFINE l == log[cycle[c].pos + 1]
           fresh == l.key \in Key \ processed
           f == IF fresh THEN Append(cycle[c].fresh, l) ELSE cycle[c].fresh
           n == IF fresh /\ l.slow THEN cycle[c].slow + 1 ELSE cycle[c].slow
           p == cycle[c].pos + 1
<1>1. cycle[c] \in CycleRecord
  BY DEF DaemonTypeOK, CyclesTyping
<1>2. cycle[c].pos \in Nat /\ cycle[c].fresh \in Seq(Usable) /\ cycle[c].slow \in Nat
  BY <1>1 DEF CycleRecord
<1>3. cycle[c].pos + 1 \in DOMAIN log /\ l \in LogLine
  BY <1>2, SMTT(90) DEF ReadLine, DaemonTypeOK, FilesTyping
<1>4. fresh => l \in Usable
  BY <1>3 DEF Usable
<1>5. f \in Seq(Usable) /\ n \in Nat /\ p \in Nat
  BY <1>2, <1>4, SMTT(90)
<1>6. cycle' = [cycle EXCEPT ![c] = [cycle[c] EXCEPT !.pos = p, !.fresh = f, !.slow = n]]
  BY ZenonT(90) DEF ReadLine, DaemonTypeOK, CyclesTyping
<1>7. processed' = IF fresh THEN processed \cup {l.key} ELSE processed
  BY DEF ReadLine
<1> HIDE DEF f, n, p
<1>8. PICK r \in CycleRecord : r = cycle[c]
  BY <1>1
<1> DEFINE new == [r EXCEPT !.pos = p, !.fresh = f, !.slow = n]
<1>9. new \in CycleRecord /\ new.pc = r.pc /\ new.state = r.state /\ new.fresh = f
  <2> HIDE DEF l, fresh
  <2> QED BY ONLY r \in CycleRecord, <1>5 DEF CycleRecord
<1> QED BY <1>3, <1>4, <1>6, <1>7, <1>8, <1>9 DEF f

\* What the other steps make of the record of a cycle.
LEMMA StartGives ==
  ASSUME DaemonTypeOK, NEW c \in Cycle, CycleStart(c)
  PROVE  \E new \in CycleRecord :
           /\ cycle' = [cycle EXCEPT ![c] = new]
           /\ new.pc = "reading" /\ new.state = Load /\ new.fresh = <<>>
<1>1. PICK s \in State : s = Load
  BY LoadTyping DEF DaemonTypeOK
<1>2. PICK r \in CycleRecord : r = IdleCycle /\ r.fresh = <<>>
  BY IdleTyping
<1> DEFINE new == [r EXCEPT !.pc = "reading", !.state = s]
<1>3. new \in CycleRecord /\ new.pc = "reading" /\ new.state = s /\ new.fresh = r.fresh
  BY ONLY r \in CycleRecord, s \in State DEF CycleRecord
<1>4. cycle' = [cycle EXCEPT ![c] = new]
  BY <1>1, <1>2 DEF CycleStart
<1> HIDE DEF new
<1> QED BY <1>1, <1>2, <1>3, <1>4

\* What a cycle that has read its lines becomes.
LEMMA EndOfLogGives ==
  ASSUME DaemonTypeOK, NEW c \in Cycle, EndOfLog(c)
  PROVE  \E new \in CycleRecord :
           /\ cycle' = [cycle EXCEPT ![c] = new]
           /\ new.pc = "extract" /\ new.state = cycle[c].state /\ new.fresh = cycle[c].fresh
<1>1. PICK r \in CycleRecord : r = cycle[c]
  BY DEF DaemonTypeOK, CyclesTyping
<1> DEFINE new == [r EXCEPT !.pc = "extract"]
<1>2. new \in CycleRecord /\ new.pc = "extract" /\ new.state = r.state /\ new.fresh = r.fresh
  BY ONLY r \in CycleRecord DEF CycleRecord
<1>3. cycle' = [cycle EXCEPT ![c] = new]
  BY <1>1 DEF EndOfLog, DaemonTypeOK, CyclesTyping
<1> QED BY <1>1, <1>2, <1>3

\* What a cycle that takes its next entry becomes.
LEMMA ExtractGives ==
  ASSUME DaemonTypeOK, NEW c \in Cycle, Extract(c)
  PROVE  \E new \in CycleRecord :
           /\ cycle' = [cycle EXCEPT ![c] = new]
           /\ new.pc = "extract" /\ new.state = cycle[c].state
           /\ cycle[c].fresh \in Seq(Usable) /\ cycle[c].fresh # <<>>
           /\ new.fresh = Tail(cycle[c].fresh)
<1>1. PICK r \in CycleRecord : r = cycle[c]
  BY DEF DaemonTypeOK, CyclesTyping
<1>2. r.pc = "extract" /\ r.fresh # <<>> /\ r.fresh \in Seq(Usable)
  BY <1>1 DEF Extract, CycleRecord
<1>3. PICK f \in Seq(Usable) : f = Tail(r.fresh)
  <2>1. Tail(r.fresh) \in Seq(Usable)
    BY <1>2, HeadTailProperties
  <2> QED BY <2>1
<1> DEFINE new == [r EXCEPT !.fresh = f]
<1>4. new \in CycleRecord /\ new.pc = r.pc /\ new.state = r.state /\ new.fresh = f
  BY ONLY r \in CycleRecord, f \in Seq(Usable) DEF CycleRecord
<1>5. cycle' = [cycle EXCEPT ![c] = new]
  BY <1>1, <1>3 DEF Extract, DaemonTypeOK, CyclesTyping
<1> QED BY <1>1, <1>2, <1>3, <1>4, <1>5

\* What a cycle becomes when the docs job has run for it.
LEMMA DocsJobGives ==
  ASSUME DaemonTypeOK, NEW c \in Cycle, DocsJob(c)
  PROVE  LET seen == IF routing THEN {} ELSE DriftEvents(docSeen)
         IN \E new \in CycleRecord :
              /\ cycle' = [cycle EXCEPT ![c] = new]
              /\ new.pc = "evaluate" /\ cycle[c].fresh = <<>> /\ new.fresh = <<>>
              /\ new.state.drift = cycle[c].state.drift \cup seen
              /\ new.state.governanceLockdown = cycle[c].state.governanceLockdown
              /\ docSeen' = IF seen = {} THEN docSeen ELSE Latest(seen)
<1> DEFINE seen == IF routing THEN {} ELSE DriftEvents(docSeen)
<1>1. PICK r \in CycleRecord : r = cycle[c]
  BY DEF DaemonTypeOK, CyclesTyping
<1>2. PICK s \in State : s = r.state
  BY DEF CycleRecord
<1>3. seen \in SUBSET Nat
  BY DEF DriftEvents, DaemonTypeOK, FilesTyping
<1>4. docSeen' = IF seen = {} THEN docSeen ELSE Latest(seen)
  BY DEF DocsJob
<1>5. cycle' = [cycle EXCEPT ![c] = [r EXCEPT !.pc = "evaluate", !.state = [s EXCEPT !.drift = s.drift \cup seen]]]
  BY <1>1, <1>2, ZenonT(90) DEF DocsJob, DaemonTypeOK, CyclesTyping
<1> HIDE DEF seen
<1>6. PICK d \in SUBSET Nat : d = s.drift \cup seen
  BY <1>3 DEF State
<1> DEFINE t == [s EXCEPT !.drift = d]
           new == [r EXCEPT !.pc = "evaluate", !.state = t]
<1>7. t \in State /\ t.drift = d /\ t.governanceLockdown = s.governanceLockdown
  BY ONLY s \in State, d \in SUBSET Nat DEF State
<1> HIDE DEF t
<1>8. new \in CycleRecord /\ new.pc = "evaluate" /\ new.state = t /\ new.fresh = r.fresh
  BY ONLY r \in CycleRecord, <1>7 DEF CycleRecord
<1>9. cycle' = [cycle EXCEPT ![c] = new]
  BY <1>5, <1>6 DEF t
<1>10. cycle[c].fresh = <<>>
  BY DEF DocsJob
<1> HIDE DEF new
<1> QED BY <1>1, <1>2, <1>4, <1>6, <1>7, <1>8, <1>9, <1>10 DEF seen

\* A set of numbers up to n that is not empty has a latest.
LEMMA LatestIn ==
  ASSUME NEW n \in Nat, NEW S \in SUBSET (1..n), S # {}
  PROVE  Latest(S) \in S /\ \A j \in S : j <= Latest(S)
<1> DEFINE T == {n - i : i \in S}
<1>1. \A i \in S : i \in Nat /\ n - i \in Nat
  OBVIOUS
<1>2. T \subseteq Nat /\ T # {}
  BY <1>1
<1> HIDE DEF T
<1>3. PICK x \in T : \A y \in T : <<y, x>> \notin OpToRel(<, Nat)
  BY <1>2, NatLessThanWellFounded, WFMin, Zenon
<1>4. \A y \in T : y \in Nat /\ x \in Nat /\ ~ (y < x)
  BY <1>2, <1>3, Zenon DEF OpToRel
<1>5. PICK i \in S : x = n - i
  BY DEF T
<1>6. \A j \in S : j <= i
  <2> TAKE j \in S
  <2>1. n - j \in T
    BY DEF T
  <2> QED BY <1>1, <1>4, <1>5, <2>1
<1> QED BY <1>5, <1>6 DEF Latest

\* A save puts the state it is given on the disk, or says that it did not.
LEMMA SaveGives ==
  ASSUME NEW s \in State, Save(s)
  PROVE  /\ disk' = s \/ (disk' \in {disk, Absent} /\ "saveFailed" \in mishap')
         /\ mishap \subseteq mishap' /\ mishap' \subseteq mishap \cup {"saveFailed"}
BY DEF Save

\* Every reachable state has the types above.
THEOREM DaemonTyping == Spec => []DaemonTypeOK
<1>1. Init => DaemonTypeOK
  <2> SUFFICES ASSUME Init PROVE DaemonTypeOK
    OBVIOUS
  <2>1. CyclesTyping
    BY IdleTyping DEF Init, CyclesTyping
  <2>2. FilesTyping
    BY DEF Init, FilesTyping, IdleReplay
  <2> QED BY <2>1, <2>2 DEF DaemonTypeOK
<1>2. DaemonTypeOK /\ [Next]_vars => DaemonTypeOK'
  <2> SUFFICES ASSUME DaemonTypeOK, [Next]_vars PROVE DaemonTypeOK'
    OBVIOUS
  <2> USE DEF DaemonTypeOK
  <2>1. CASE UNCHANGED vars
    BY <2>1 DEF CyclesTyping, FilesTyping, vars, store, docs, dead, count
  <2>2. ASSUME NEW l \in LogLine, AppendLog(l) PROVE DaemonTypeOK'
    BY <2>2 DEF AppendLog, CyclesTyping, FilesTyping, store, docs, dead, count
  <2>3. ASSUME NEW kind \in {"drift", "other"}, AppendDoc(kind) PROVE DaemonTypeOK'
    <3>1. docLog' = Append(docLog, kind) /\ docSeen' = docSeen
      BY <2>3 DEF AppendDoc
    <3>2. docLog' \in Seq({"drift", "other"}) /\ docSeen' \in 0..Len(docLog')
      BY <3>1 DEF FilesTyping
    <3> QED BY <2>3, <3>2 DEF AppendDoc, CyclesTyping, FilesTyping, store, dead, count
  <2>4. CASE Start \/ Stop
    BY <2>4, SMTT(90) DEF Start, Stop, CyclesTyping, FilesTyping, store, docs, dead, count
  <2>5. CASE Crash
    <3>1. cycle' = [c \in Cycle |-> IdleCycle] /\ disk' \in {disk, Absent}
      BY <2>5 DEF Crash
    <3>2. CyclesTyping'
      BY <3>1, IdleTyping DEF CyclesTyping
    <3> QED BY <2>5, <3>2 DEF Crash, FilesTyping, docs, dead
  <2>6. ASSUME NEW r \in Request, Operate(r) PROVE DaemonTypeOK'
    <3>1. Apply(Load, r) \in State
      BY LoadTyping, ApplyKeepsDrift
    <3>2. disk' \in State \cup {Absent}
      BY <2>6, <3>1, SaveGives DEF Operate, CyclesTyping
    <3> QED BY <2>6, <3>2 DEF Operate, CyclesTyping, FilesTyping, docs, dead
  <2>7. ASSUME NEW c \in Cycle, CycleStart(c) PROVE DaemonTypeOK'
    <3>1. CyclesTyping'
      BY <2>7, StartGives, ZenonT(90) DEF CycleStart, CyclesTyping
    <3> QED BY <2>7, <3>1, SMTT(90) DEF CycleStart, FilesTyping, docs, dead
  <2>8. ASSUME NEW c \in Cycle, ReadLine(c) PROVE DaemonTypeOK'
    <3> DEFINE l == log[cycle[c].pos + 1]
    <3>1. PICK new \in CycleRecord :
            /\ cycle' = [cycle EXCEPT ![c] = new]
            /\ processed' \in {processed, processed \cup {l.key}}
            /\ l.key \in Key \/ processed' = processed
      BY <2>8, ReadLineGives DEF Usable
    <3>2. processed' \subseteq Key
      BY <3>1, SMTT(90) DEF FilesTyping
    <3>3. cycle' \in [Cycle -> CycleRecord]
      BY <3>1, SMTT(90) DEF CyclesTyping
    <3>4. CyclesTyping'
      BY <2>8, <3>3 DEF ReadLine, CyclesTyping, store
    <3> QED BY <2>8, <3>2, <3>4, SMTT(90) DEF ReadLine, FilesTyping, docs, dead
  <2>9. ASSUME NEW c \in Cycle, ReadFails(c) PROVE DaemonTypeOK'
    <3>1. CyclesTyping'
      BY <2>9, IdleTyping DEF ReadFails, CyclesTyping, store
    <3> QED BY <2>9, <3>1 DEF ReadFails, FilesTyping, docs, dead
  <2>10. ASSUME NEW c \in Cycle, EndOfLog(c) PROVE DaemonTypeOK'
    <3>1. CyclesTyping'
      BY <2>10, EndOfLogGives, ZenonT(90) DEF EndOfLog, CyclesTyping, store
    <3> QED BY <2>10, <3>1 DEF EndOfLog, FilesTyping, docs, dead
  <2>11. ASSUME NEW c \in Cycle, Extract(c) PROVE DaemonTypeOK'
    <3>1. CyclesTyping'
      BY <2>11, ExtractGives, ZenonT(90) DEF Extract, CyclesTyping, store
    <3>2. Head(cycle[c].fresh).key \in Key /\ Head(cycle[c].fresh).id \in Id
      <4>1. cycle[c].fresh \in Seq(Usable) /\ cycle[c].fresh # <<>>
        BY <2>11, ExtractGives
      <4>2. Head(cycle[c].fresh) \in Usable
        BY <4>1, HeadTailProperties, SMTT(90)
      <4>3. \A l \in Usable : l.key \in Key /\ l.id \in Id
        BY DaemonConstants DEF Usable, Line
      <4> QED BY <4>2, <4>3
    <3>3. quarantined' \subseteq Id
      BY <2>11, <3>2 DEF Extract, FilesTyping
    <3>4. dlq' \in Seq(Key) /\ rotated' = rotated /\ replay' = replay
      <4>1. dlq' \in {dlq, Append(dlq, Head(cycle[c].fresh).key)} /\ rotated' = rotated
            /\ replay' = replay
        BY <2>11 DEF Extract, WriteDlq, DlqFails, dead
      <4>2. PICK h \in Key : h = Head(cycle[c].fresh).key
        BY <3>2
      <4>3. dlq \in Seq(Key)
        BY DEF FilesTyping
      <4>4. Append(dlq, h) \in Seq(Key)
        BY <4>3, AppendProperties
      <4> QED BY <4>1, <4>2, <4>3, <4>4, SMTT(90)
    <3> QED BY <2>11, <3>1, <3>3, <3>4 DEF Extract, FilesTyping, docs
  <2>12. ASSUME NEW c \in Cycle, DocsJob(c) PROVE DaemonTypeOK'
    <3> DEFINE seen == IF routing THEN {} ELSE DriftEvents(docSeen)
    <3>1. CyclesTyping'
      <4>1. \E new \in CycleRecord : cycle' = [cycle EXCEPT ![c] = new]
        BY <2>12, DocsJobGives
      <4>2. disk' = disk
        BY <2>12 DEF DocsJob, store
      <4> QED BY <4>1, <4>2 DEF CyclesTyping
    <3>2. docSeen' = IF seen = {} THEN docSeen ELSE Latest(seen)
      BY <2>12, DocsJobGives
    <3>3. seen \in SUBSET (1..Len(docLog)) /\ Len(docLog) \in Nat
      BY DEF DriftEvents, FilesTyping
    <3> HIDE DEF seen
    <3>4. seen # {} => Latest(seen) \in seen
      BY <3>3, LatestIn
    <3>5. docSeen' \in 0..Len(docLog)
      BY <3>2, <3>3, <3>4 DEF FilesTyping
    <3> QED BY <2>12, <3>1, <3>5 DEF DocsJob, FilesTyping, dead
  <2>13. ASSUME NEW c \in Cycle, Evaluate(c) PROVE DaemonTypeOK'
    <3>1. cycle[c].state \in State
      BY DEF CyclesTyping, CycleRecord
    <3>2. CheckOscillation(c, CheckBacklog(c, cycle[c].state)) \in State
      BY <3>1, ChecksKeep DEF Keeps
    <3>3. disk' \in State \cup {Absent}
      BY <2>13, <3>2, SaveGives DEF Evaluate, CyclesTyping
    <3>4. CyclesTyping'
      BY <2>13, <3>3, IdleTyping DEF Evaluate, CyclesTyping
    <3> QED BY <2>13, <3>4 DEF Evaluate, FilesTyping, docs, dead
  <2>14. CASE ReplayRotate
    <3>1. dlq' \in Seq(Key) /\ dlq \in Seq(Key) /\ rotated \in Seq(Seq(Key))
      BY <2>14 DEF ReplayRotate, FilesTyping
    <3>2. rotated' \in Seq(Seq(Key))
      <4>1. \/ rotated' = Append(rotated, dlq)
            \/ rotated # <<>> /\ rotated' = [rotated EXCEPT ![Len(rotated)] = dlq]
        BY <2>14 DEF ReplayRotate
      <4>2. PICK q \in Seq(Key) : q = dlq
        BY <3>1
      <4>3. Append(rotated, q) \in Seq(Seq(Key))
        BY <3>1, AppendProperties
      <4>4. rotated # <<>> => [rotated EXCEPT ![Len(rotated)] = q] \in Seq(Seq(Key))
        BY <3>1, ExceptSeq
      <4> QED BY <3>1, <4>1, <4>2, <4>3, <4>4
    <3>3. replay' \in [pc : {"idle", "rotated", "rewrite"}, remaining : Seq(Key)]
      BY <2>14 DEF ReplayRotate, FilesTyping
    <3> QED BY <2>14, <3>1, <3>2, <3>3 DEF ReplayRotate, CyclesTyping, FilesTyping, store, docs
  <2>15. CASE ReplayRead \/ ReplayNothing \/ ReplayRewrite \/ ReplayDies
    <3> USE DEF ReplayRead, ReplayNothing, ReplayRewrite, ReplayDies
    <3>1. /\ dlq' \in {dlq, replay.remaining, <<>>}
          /\ replay' = IdleReplay \/ replay' = [pc |-> "rewrite", remaining |-> dlq]
      BY <2>15
    <3>2. dlq \in Seq(Key) /\ replay.remaining \in Seq(Key) /\ <<>> \in Seq(Key)
      BY DEF FilesTyping
    <3>3. dlq' \in Seq(Key)
      BY <3>1, <3>2
    <3>4. replay' \in [pc : {"idle", "rotated", "rewrite"}, remaining : Seq(Key)]
      <4>1. IdleReplay \in [pc : {"idle", "rotated", "rewrite"}, remaining : Seq(Key)]
        BY DEF IdleReplay
      <4>2. [pc |-> "rewrite", remaining |-> dlq]
              \in [pc : {"idle", "rotated", "rewrite"}, remaining : Seq(Key)]
        BY <3>2
      <4> QED BY <3>1, <4>1, <4>2
    <3>5. CyclesTyping'
      BY <2>15 DEF CyclesTyping, store
    <3>6. UNCHANGED <<log, processed, quarantined, docLog, docSeen, rotated>>
      BY <2>15 DEF docs
    <3> QED BY <3>3, <3>4, <3>5, <3>6 DEF FilesTyping
  <2> QED BY <2>1, <2>2, <2>3, <2>4, <2>5, <2>6, <2>7, <2>8, <2>9, <2>10, <2>11, <2>12, <2>13,
             <2>14, <2>15 DEF Next, CycleStep
<1> QED BY <1>1, <1>2, PTL DEF Spec

-----------------------------------------------------------------------------
(* The invariants.                                                         *)

Filed(k) == Dead(k) \/ Occurs(k, replay.remaining)

\* What a cycle holds is in the log; a cycle that is over holds nothing; and
\* what the replayer is about to write is what it found.
Held ==
  /\ \A c \in Cycle : \A i \in DOMAIN cycle[c].fresh :
       \E j \in DOMAIN log : log[j] = cycle[c].fresh[i]
  /\ \A c \in Cycle : cycle[c].pc \in {"idle", "evaluate"} => cycle[c].fresh = <<>>
  /\ replay.pc = "rewrite" /\ mishap \cap LosesEntries = {} => dlq = replay.remaining

Accounted ==
  mishap \cap LosesEntries = {} => \A k \in processed : Pending(k) \/ Parked(k)

Distinct(s) == \A i, j \in DOMAIN s : s[i] = s[j] => i = j

\* Nothing is pending twice, nothing pending is filed, nothing is filed twice.
Once ==
  "crash" \notin mishap =>
    /\ Distinct(dlq) /\ Distinct(replay.remaining)
    /\ \A c, d \in Cycle : \A i \in DOMAIN cycle[c].fresh : \A j \in DOMAIN cycle[d].fresh :
         cycle[c].fresh[i].key = cycle[d].fresh[j].key => c = d /\ i = j
    /\ \A k \in Key : Pending(k) \/ Filed(k) => k \in processed
    /\ \A k \in Key : ~ (Pending(k) /\ Filed(k))
    /\ \A k \in Key : \A i \in DOMAIN rotated : Occurs(k, rotated[i]) =>
         ~ Occurs(k, dlq) /\ ~ Occurs(k, replay.remaining)
    /\ replay.pc # "rewrite" => replay.remaining = <<>>

EntriesInv == Held /\ Accounted /\ Once

Flying(c) == cycle[c].pc # "idle"

LockdownInv ==
  ~ stale /\ mishap \cap {"saveFailed", "crashInSave"} = {} =>
    /\ Load.governanceLockdown = ordered
    /\ \A c \in Cycle : Flying(c) => cycle[c].state.governanceLockdown = ordered

PenaltyInv ==
  ~ overlap /\ mishap \cap {"saveFailed", "crash"} = {} =>
    /\ \A c, d \in Cycle : Flying(c) /\ Flying(d) => c = d
    /\ \A c \in Cycle : Flying(c) => Load.drift \subseteq cycle[c].state.drift
    /\ PenaltyKept

ControlInv == LockdownInv /\ PenaltyInv

-----------------------------------------------------------------------------
(* The control state.                                                      *)

\* Steps that leave the disk, the cycles' copies and the flags alone.
LEMMA ControlStays ==
  ASSUME UNCHANGED <<cycle, store>>, mishap \subseteq mishap', docSeen' = docSeen,
         DaemonTypeOK, ControlInv,
         docLog' = docLog \/ \E kind \in {"drift", "other"} : docLog' = Append(docLog, kind)
  PROVE  ControlInv'
<1>1. \A i \in 1..docSeen : docLog'[i] = docLog[i]
  <2>1. /\ docLog \in Seq({"drift", "other"}) /\ docSeen \in Nat
        /\ \A i \in 1..docSeen : i \in 1..Len(docLog)
    BY DEF DaemonTypeOK, FilesTyping
  <2>2. ASSUME NEW kind \in {"drift", "other"}, docLog' = Append(docLog, kind), NEW i \in 1..docSeen
        PROVE  docLog'[i] = docLog[i]
    BY <2>1, <2>2
  <2> QED BY <2>2
<1>2. Load' = Load
  BY DEF Load, store
<1> QED BY <1>1, <1>2 DEF ControlInv, LockdownInv, PenaltyInv, PenaltyKept, Flying, store

(* A lockdown the operator has ordered and the penalty of every docs event    *)
(* are in the control state, or in that of a cycle that is about to save it,  *)
(* unless cycles overlapped or a save failed or was cut short                 *)
(* (daemon.ts:112, 203, 249; cicStateStore.ts), for any number of cycles.     *)
THEOREM ControlKept == Spec => []ControlStateKept
<1>1. Init => ControlInv
  <2> SUFFICES ASSUME Init PROVE ControlInv
    OBVIOUS
  <2>1. Load.governanceLockdown = ordered /\ docSeen = 0 /\ \A c \in Cycle : ~ Flying(c)
    BY IdleTyping DEF Init, Flying, Load, DefaultState
  <2> QED BY <2>1 DEF ControlInv, LockdownInv, PenaltyInv, PenaltyKept
<1>2. DaemonTypeOK /\ DaemonTypeOK' /\ ControlInv /\ [Next]_vars => ControlInv'
  <2> SUFFICES ASSUME DaemonTypeOK, DaemonTypeOK', ControlInv, [Next]_vars PROVE ControlInv'
    OBVIOUS
  <2>1. CASE UNCHANGED vars
    BY <2>1, ControlStays DEF vars, docs
  <2>2. ASSUME NEW l \in LogLine, AppendLog(l) PROVE ControlInv'
    BY <2>2, ControlStays DEF AppendLog, docs
  <2>3. ASSUME NEW kind \in {"drift", "other"}, AppendDoc(kind) PROVE ControlInv'
    BY <2>3, ControlStays DEF AppendDoc
  <2>4. CASE Start \/ Stop
    BY <2>4, ControlStays DEF Start, Stop, docs
  <2>5. CASE Crash
    <3>1. /\ \A c \in Cycle : cycle'[c].pc = "idle"
          /\ disk' = disk \/ "crashInSave" \in mishap'
          /\ "crash" \in mishap' /\ mishap \subseteq mishap'
          /\ stale' = stale /\ ordered' = ordered
      BY <2>5, IdleTyping DEF Crash
    <3>2. disk' = disk => Load' = Load
      BY DEF Load
    <3> QED BY <3>1, <3>2 DEF ControlInv, LockdownInv, PenaltyInv, Flying
  <2>6. ASSUME NEW r \in Request, Operate(r) PROVE ControlInv'
    <3> DEFINE s == Apply(Load, r)
    <3>1. s \in State /\ s.drift = Load.drift
      BY LoadTyping, ApplyKeepsDrift DEF DaemonTypeOK
    <3>2. /\ disk' = s \/ "saveFailed" \in mishap'
          /\ mishap \subseteq mishap'
      BY <2>6, <3>1, SaveGives DEF Operate
    <3>3. /\ ordered' = s.governanceLockdown /\ cycle' = cycle /\ overlap' = overlap
          /\ docLog' = docLog /\ docSeen' = docSeen
          /\ stale' = (stale \/ InFlight # {})
      BY <2>6 DEF Operate, docs
    <3> HIDE DEF s
    <3>4. "saveFailed" \notin mishap' => Load' = s
      BY <3>1, <3>2, DaemonConstants DEF Load
    <3>5. LockdownInv'
      BY <3>3, <3>4 DEF LockdownInv, InFlight, Flying
    <3>6. PenaltyInv'
      BY <3>1, <3>2, <3>3, <3>4 DEF ControlInv, PenaltyInv, PenaltyKept, Flying
    <3> QED BY <3>5, <3>6 DEF ControlInv
  <2>7. ASSUME NEW c \in Cycle, CycleStart(c) PROVE ControlInv'
    <3>1. PICK new \in CycleRecord :
            cycle' = [cycle EXCEPT ![c] = new] /\ new.pc = "reading" /\ new.state = Load
      BY <2>7, StartGives
    <3>2. cycle'[c] = new /\ \A d \in Cycle : d # c => cycle'[d] = cycle[d]
      BY <3>1 DEF DaemonTypeOK, CyclesTyping
    <3>3. /\ UNCHANGED <<disk, ordered, stale, docLog, docSeen, mishap>>
          /\ overlap' = (overlap \/ InFlight # {})
          /\ cycle[c].pc = "idle"
      BY <2>7 DEF CycleStart, docs, count
    <3>4. Load' = Load
      BY <3>3 DEF Load
    <3>5. LockdownInv'
      BY <3>1, <3>2, <3>3, <3>4 DEF ControlInv, LockdownInv, Flying
    <3>6. PenaltyInv'
      BY <3>1, <3>2, <3>3, <3>4, ZenonT(90)
         DEF ControlInv, PenaltyInv, PenaltyKept, InFlight, Flying
    <3> QED BY <3>5, <3>6 DEF ControlInv
  <2>8. ASSUME NEW c \in Cycle, ReadLine(c) \/ EndOfLog(c) \/ Extract(c) PROVE ControlInv'
    <3>1. PICK new \in CycleRecord :
            /\ cycle' = [cycle EXCEPT ![c] = new] /\ new.state = cycle[c].state
            /\ new.pc \in {"reading", "extract"}
      <4>1. CASE ReadLine(c)
        <5>1. \E new \in CycleRecord :
                /\ cycle' = [cycle EXCEPT ![c] = new] /\ new.state = cycle[c].state
                /\ new.pc = cycle[c].pc
          BY <4>1, ReadLineGives
        <5>2. cycle[c].pc = "reading"
          BY <4>1 DEF ReadLine
        <5> QED BY <5>1, <5>2
      <4>2. CASE EndOfLog(c)
        BY <4>2, EndOfLogGives
      <4>3. CASE Extract(c)
        BY <4>3, ExtractGives
      <4> QED BY <2>8, <4>1, <4>2, <4>3
    <3>2. cycle'[c] = new /\ \A d \in Cycle : d # c => cycle'[d] = cycle[d]
      BY <3>1, SMTT(90) DEF DaemonTypeOK, CyclesTyping
    <3>3. /\ UNCHANGED <<store, docs>> /\ mishap \subseteq mishap'
          /\ cycle[c].pc \in {"reading", "extract"}
      BY <2>8 DEF ReadLine, EndOfLog, Extract, WriteDlq, DlqFails
    <3>4. Load' = Load
      BY <3>3 DEF Load, store
    <3>5. LockdownInv'
      BY <3>1, <3>2, <3>3, <3>4 DEF ControlInv, LockdownInv, Flying, store
    <3>6. PenaltyInv'
      BY <3>1, <3>2, <3>3, <3>4 DEF ControlInv, PenaltyInv, PenaltyKept, Flying, store, docs
    <3> QED BY <3>5, <3>6 DEF ControlInv
  <2>9. ASSUME NEW c \in Cycle, ReadFails(c) PROVE ControlInv'
    <3>1. cycle'[c].pc = "idle" /\ \A d \in Cycle : d # c => cycle'[d] = cycle[d]
      BY <2>9, IdleTyping DEF ReadFails, DaemonTypeOK, CyclesTyping
    <3>2. UNCHANGED <<store, docs>> /\ mishap \subseteq mishap' /\ cycle[c].pc = "reading"
      BY <2>9 DEF ReadFails
    <3>3. Load' = Load
      BY <3>2 DEF Load, store
    <3>4. LockdownInv'
      BY <3>1, <3>2, <3>3 DEF ControlInv, LockdownInv, Flying, store
    <3>5. PenaltyInv'
      BY <3>1, <3>2, <3>3 DEF ControlInv, PenaltyInv, PenaltyKept, Flying, store, docs
    <3> QED BY <3>4, <3>5 DEF ControlInv
  <2>10. ASSUME NEW c \in Cycle, DocsJob(c) PROVE ControlInv'
    <3> DEFINE seen == IF routing THEN {} ELSE DriftEvents(docSeen)
    <3>1. PICK new \in CycleRecord :
            /\ cycle' = [cycle EXCEPT ![c] = new]
            /\ new.pc = "evaluate"
            /\ new.state.drift = cycle[c].state.drift \cup seen
            /\ new.state.governanceLockdown = cycle[c].state.governanceLockdown
            /\ docSeen' = IF seen = {} THEN docSeen ELSE Latest(seen)
      BY <2>10, DocsJobGives
    <3>2. cycle'[c] = new /\ \A d \in Cycle : d # c => cycle'[d] = cycle[d]
      BY <3>1 DEF DaemonTypeOK, CyclesTyping
    <3>3. UNCHANGED <<store, docLog, mishap>> /\ cycle[c].pc = "extract"
      BY <2>10 DEF DocsJob
    <3>4. Load' = Load
      BY <3>3 DEF Load, store
    <3>5. LockdownInv'
      BY <3>1, <3>2, <3>3, <3>4 DEF ControlInv, LockdownInv, Flying, store
    <3>6. PenaltyInv'
      <4> SUFFICES ASSUME ~ overlap, mishap \cap {"saveFailed", "crash"} = {} PROVE
              /\ \A d, e \in Cycle : Flying(d)' /\ Flying(e)' => d = e
              /\ \A d \in Cycle : Flying(d)' => Load.drift \subseteq cycle'[d].state.drift
              /\ PenaltyKept'
        BY <3>3, <3>4 DEF PenaltyInv, store
      <4>1. /\ \A d, e \in Cycle : Flying(d) /\ Flying(e) => d = e
            /\ \A d \in Cycle : Flying(d) => Load.drift \subseteq cycle[d].state.drift
            /\ PenaltyKept
        BY DEF ControlInv, PenaltyInv
      <4>2. \A d \in Cycle : Flying(d)' <=> Flying(d)
        BY <3>1, <3>2, <3>3 DEF Flying
      <4>3. \A d \in Cycle : Flying(d)' => Load.drift \subseteq cycle'[d].state.drift
        BY <3>1, <3>2, <4>1, <4>2
      <4>4. ASSUME NEW i \in 1..docSeen', docLog[i] = "drift"
            PROVE  i \in Load.drift \/ i \in cycle'[c].state.drift
        <5>1. CASE i <= docSeen
          <6>1. i \in 1..docSeen
            BY <4>4, <5>1 DEF DaemonTypeOK, FilesTyping
          <6>2. ~ \E d \in Cycle : cycle[d].pc = "evaluate"
            BY <3>3, <4>1 DEF Flying
          <6> QED BY <4>1, <4>4, <6>1, <6>2 DEF PenaltyKept
        <5>2. CASE ~ (i <= docSeen)
          <6>1. seen # {} /\ ~ routing
            BY <3>1, <4>4, <5>2
          <6>2. i \in DOMAIN docLog /\ i > docSeen
            BY <3>3, <4>4, <5>2, SMTT(90) DEF DaemonTypeOK, FilesTyping
          <6>3. i \in seen
            BY <4>4, <6>1, <6>2 DEF DriftEvents
          <6> QED BY <3>1, <3>2, <6>3
        <5> QED BY <5>1, <5>2
      <4>5. PenaltyKept'
        BY <3>1, <3>2, <3>3, <3>4, <4>4 DEF PenaltyKept
      <4> QED BY <4>1, <4>2, <4>3, <4>5
    <3> QED BY <3>5, <3>6 DEF ControlInv
  <2>11. ASSUME NEW c \in Cycle, Evaluate(c) PROVE ControlInv'
    <3> DEFINE s == cycle[c].state
               t == CheckOscillation(c, CheckBacklog(c, s))
    <3>1. s \in State
      BY DEF DaemonTypeOK, CyclesTyping, CycleRecord
    <3>2. t \in State /\ t.drift = s.drift /\ t.governanceLockdown = s.governanceLockdown
      BY <3>1, ChecksKeep DEF Keeps
    <3>3. (disk' = t \/ "saveFailed" \in mishap') /\ mishap \subseteq mishap'
      BY <2>11, <3>2, SaveGives DEF Evaluate
    <3>4. /\ UNCHANGED <<docs, ordered, stale, overlap>> /\ cycle[c].pc = "evaluate"
          /\ cycle'[c].pc = "idle" /\ \A d \in Cycle : d # c => cycle'[d] = cycle[d]
      BY <2>11, IdleTyping DEF Evaluate, DaemonTypeOK, CyclesTyping
    <3> HIDE DEF t
    <3>5. "saveFailed" \notin mishap' => Load' = t
      BY <3>2, <3>3, DaemonConstants DEF Load
    <3>6. LockdownInv'
      BY <3>2, <3>3, <3>4, <3>5 DEF ControlInv, LockdownInv, Flying
    <3>7. PenaltyInv'
      BY <3>2, <3>3, <3>4, <3>5 DEF ControlInv, PenaltyInv, PenaltyKept, Flying, docs
    <3> QED BY <3>6, <3>7 DEF ControlInv
  <2>12. CASE ReplayRotate \/ ReplayRead \/ ReplayNothing \/ ReplayRewrite \/ ReplayDies
    BY <2>12, ControlStays DEF ReplayRotate, ReplayRead, ReplayNothing, ReplayRewrite, ReplayDies,
                               docs, count
  <2> QED BY <2>1, <2>2, <2>3, <2>4, <2>5, <2>6, <2>7, <2>8, <2>9, <2>10, <2>11, <2>12
          DEF Next, CycleStep
<1>3. ControlInv => ControlStateKept
  BY DEF ControlInv, LockdownInv, PenaltyInv, ControlStateKept, LockdownKept, PenaltyKept
<1> QED BY <1>1, <1>2, <1>3, DaemonTyping, PTL DEF Spec

-----------------------------------------------------------------------------
(* The entries.                                                            *)

\* What occurs in a list that has grown.
LEMMA OccursAppended ==
  ASSUME NEW s \in Seq(Key), NEW k \in Key, NEW x
  PROVE  Occurs(x, Append(s, k)) <=> Occurs(x, s) \/ x = k
<1>1. /\ DOMAIN Append(s, k) = 1..(Len(s) + 1) /\ DOMAIN s = 1..Len(s) /\ Len(s) \in Nat
      /\ Append(s, k)[Len(s) + 1] = k
      /\ \A i \in 1..Len(s) : Append(s, k)[i] = s[i]
  OBVIOUS
<1> QED BY <1>1 DEF Occurs

\* A list that grows by what it lacks repeats nothing.
LEMMA DistinctAppended ==
  ASSUME NEW s \in Seq(Key), NEW k \in Key, Distinct(s), ~ Occurs(k, s)
  PROVE  Distinct(Append(s, k))
<1>1. /\ DOMAIN Append(s, k) = 1..(Len(s) + 1) /\ DOMAIN s = 1..Len(s) /\ Len(s) \in Nat
      /\ Append(s, k)[Len(s) + 1] = k
      /\ \A i \in 1..Len(s) : Append(s, k)[i] = s[i]
  OBVIOUS
<1> QED BY <1>1 DEF Occurs, Distinct

\* The places of a list are those of its tail, one later.
LEMMA TailPlaces ==
  ASSUME NEW S, NEW f \in Seq(S), f # <<>>
  PROVE  /\ \A i \in DOMAIN Tail(f) : i + 1 \in DOMAIN f /\ Tail(f)[i] = f[i + 1] /\ i \in Nat
                                      /\ i + 1 # 1
         /\ \A i \in DOMAIN f : i # 1 =>
              i - 1 \in DOMAIN Tail(f) /\ Tail(f)[i - 1] = f[i] /\ i \in Nat
         /\ 1 \in DOMAIN f /\ f[1] = Head(f) /\ Head(f) \in S
  BY SMTT(90)

\* Steps that keep what the cycles hold and the files.
LEMMA EntriesStay ==
  ASSUME DaemonTypeOK, EntriesInv, \A c \in Cycle : cycle'[c].fresh = cycle[c].fresh,
         \A c \in Cycle : cycle'[c].pc \in {"idle", "evaluate"} => cycle[c].fresh = <<>>,
         UNCHANGED <<dead, processed, quarantined, routing>>,
         \A j \in DOMAIN log : j \in DOMAIN log' /\ log'[j] = log[j],
         mishap \subseteq mishap'
  PROVE  EntriesInv'
<1>1. Held'
  BY DEF EntriesInv, Held, dead
<1>2. \A k : (Pending(k)' <=> Pending(k)) /\ (Filed(k)' <=> Filed(k)) /\ (Parked(k) => Parked(k)')
  BY DEF Pending, Filed, Parked, Dead, Quarantined, Skipped, Occurs, dead
<1>3. Accounted'
  BY <1>2 DEF EntriesInv, Accounted
<1>4. Once'
  BY <1>2, SMTT(90) DEF EntriesInv, Once, dead
<1> QED BY <1>1, <1>3, <1>4 DEF EntriesInv

\* An entry that is read is marked and waits in its cycle, and in no other.
LEMMA EntriesRead ==
  ASSUME DaemonTypeOK, DaemonTypeOK', EntriesInv, NEW c \in Cycle, ReadLine(c)
  PROVE  EntriesInv'
<1> DEFINE l == log[cycle[c].pos + 1]
<1>1. PICK new \in CycleRecord :
        /\ cycle' = [cycle EXCEPT ![c] = new] /\ new.pc = cycle[c].pc
        /\ IF l.key \in Key \ processed
             THEN l \in Usable /\ new.fresh = Append(cycle[c].fresh, l)
                  /\ processed' = processed \cup {l.key}
             ELSE new.fresh = cycle[c].fresh /\ processed' = processed
        /\ \E i \in DOMAIN log : log[i] = l
  BY ReadLineGives
<1>2. cycle'[c] = new /\ \A d \in Cycle : d # c => cycle'[d] = cycle[d]
  BY <1>1 DEF DaemonTypeOK, CyclesTyping
<1>3. UNCHANGED <<dead, quarantined, routing, log, mishap>> /\ cycle[c].pc = "reading"
  BY SMTT(90) DEF ReadLine
<1>4. CASE l.key \notin Key \ processed
  BY <1>1, <1>2, <1>3, <1>4, EntriesStay DEF EntriesInv, Held
<1>5. CASE l.key \in Key \ processed
  <2> DEFINE f == cycle[c].fresh
             n == Len(f) + 1
  <2>1. /\ f \in Seq(Usable) /\ DOMAIN f = 1..Len(f) /\ Len(f) \in Nat
        /\ new.fresh = Append(f, l) /\ l \in Usable
    BY <1>1, <1>5, SMTT(90) DEF DaemonTypeOK, CyclesTyping, CycleRecord
  <2>2. /\ DOMAIN new.fresh = 1..n /\ new.fresh[n] = l /\ n \in DOMAIN new.fresh
        /\ \A i \in DOMAIN f : i \in DOMAIN new.fresh /\ new.fresh[i] = f[i]
        /\ \A i \in DOMAIN new.fresh : i = n \/ i \in DOMAIN f
    BY <2>1, SMTT(90)
  <2> HIDE DEF n, f, l
  <2>3. \A k : Pending(k)' <=> Pending(k) \/ k = l.key
    BY <1>2, <2>2, SMTT(90) DEF Pending, f
  <2>4. \A k : (Filed(k)' <=> Filed(k)) /\ (Parked(k) => Parked(k)')
    BY <1>3 DEF Filed, Parked, Dead, Quarantined, Skipped, Occurs, dead
  <2>5. Held'
    BY <1>1, <1>2, <1>3, <2>2, SMTT(90) DEF EntriesInv, Held, f, dead
  <2>6. Accounted'
    BY <1>1, <1>3, <1>5, <2>3, <2>4, SMTT(90) DEF EntriesInv, Accounted
  <2>7. Once'
    <3> SUFFICES ASSUME "crash" \notin mishap PROVE Once'
      BY <1>3 DEF Once
    <3>1. ~ Pending(l.key) /\ ~ Filed(l.key) /\ l.key \in Key
      BY <1>5 DEF EntriesInv, Once
    <3>2. \A d \in Cycle : \A i \in DOMAIN cycle[d].fresh : cycle[d].fresh[i].key # l.key
      BY <3>1 DEF Pending
    <3>3. ASSUME NEW a \in Cycle, NEW b \in Cycle, NEW i \in DOMAIN cycle'[a].fresh,
                 NEW j \in DOMAIN cycle'[b].fresh,
                 cycle'[a].fresh[i].key = cycle'[b].fresh[j].key
          PROVE  a = b /\ i = j
      <4>1. \/ a = c /\ i = n
            \/ i \in DOMAIN cycle[a].fresh /\ cycle'[a].fresh[i] = cycle[a].fresh[i]
        BY <1>2, <2>2 DEF f
      <4>2. \/ b = c /\ j = n
            \/ j \in DOMAIN cycle[b].fresh /\ cycle'[b].fresh[j] = cycle[b].fresh[j]
        BY <1>2, <2>2 DEF f
      <4>3. cycle'[c].fresh[n] = l
        BY <1>2, <2>2
      <4> QED BY <3>2, <3>3, <4>1, <4>2, <4>3, SMTT(90) DEF EntriesInv, Once
    <3>4. processed' = processed \cup {l.key}
      BY <1>1, <1>5
    <3> QED BY <1>3, <2>3, <2>4, <3>1, <3>3, <3>4 DEF EntriesInv, Once, dead
  <2> QED BY <2>5, <2>6, <2>7 DEF EntriesInv
<1> QED BY <1>4, <1>5

\* An entry that is taken is parked, dead-lettered, skipped by order, or has its mishap.
LEMMA EntriesExtracted ==
  ASSUME DaemonTypeOK, DaemonTypeOK', EntriesInv, NEW c \in Cycle, Extract(c)
  PROVE  EntriesInv'
<1> DEFINE f == cycle[c].fresh
<1>0. PICK h : h = Head(f)
  OBVIOUS
<1>1. PICK new \in CycleRecord :
        /\ cycle' = [cycle EXCEPT ![c] = new] /\ new.pc = "extract"
        /\ f \in Seq(Usable) /\ f # <<>> /\ new.fresh = Tail(f)
  BY ExtractGives
<1>2. cycle'[c] = new /\ \A d \in Cycle : d # c => cycle'[d] = cycle[d]
  BY <1>1 DEF DaemonTypeOK, CyclesTyping
<1>3. /\ UNCHANGED <<processed, routing, log, rotated, replay>> /\ mishap \subseteq mishap'
      /\ \/ routing /\ h.skip /\ UNCHANGED <<quarantined, dlq>>
         \/ h.deep /\ quarantined' = quarantined \cup {h.id} /\ UNCHANGED dlq
         \/ /\ dlq' = Append(dlq, h.key) /\ UNCHANGED quarantined
            /\ replay.pc = "rewrite" => "replayed" \in mishap'
         \/ UNCHANGED <<quarantined, dlq>> /\ "dlqFailed" \in mishap'
  BY <1>0 DEF Extract, WriteDlq, DlqFails, dead
<1>4. /\ \A i \in DOMAIN new.fresh : i + 1 \in DOMAIN f /\ new.fresh[i] = f[i + 1] /\ i \in Nat
                                     /\ i + 1 # 1
      /\ \A i \in DOMAIN f : i # 1 => i - 1 \in DOMAIN new.fresh /\ new.fresh[i - 1] = f[i]
      /\ 1 \in DOMAIN f /\ f[1] = h /\ h \in Usable
  BY <1>0, <1>1, TailPlaces, SMTT(90)
<1>5. h.key \in Key /\ dlq \in Seq(Key)
  BY <1>4 DEF Usable, DaemonTypeOK, FilesTyping
<1> HIDE DEF f
<1>6. \A k : (Pending(k)' => Pending(k)) /\ (Pending(k) => Pending(k)' \/ k = h.key)
  BY <1>2, <1>4 DEF Pending, f
<1>7. Pending(h.key) /\ \E j \in DOMAIN log : log[j] = h
  BY <1>4 DEF Pending, f, EntriesInv, Held
<1>8. \A x : Occurs(x, Append(dlq, h.key)) <=> Occurs(x, dlq) \/ x = h.key
  BY <1>5, OccursAppended
<1>9. \A k : (Parked(k) => Parked(k)') /\ (Filed(k)' => Filed(k) \/ k = h.key)
  BY <1>3, <1>8 DEF Parked, Filed, Dead, Quarantined, Skipped
<1>10. Held'
  <2>1. ASSUME NEW a \in Cycle, NEW i \in DOMAIN cycle'[a].fresh
        PROVE  \E j \in DOMAIN log' : log'[j] = cycle'[a].fresh[i]
    <3>1. \E x \in DOMAIN cycle[a].fresh : cycle[a].fresh[x] = cycle'[a].fresh[i]
      BY <1>2, <1>4 DEF f
    <3> QED BY <1>3, <3>1 DEF EntriesInv, Held
  <2>2. \A a \in Cycle : cycle'[a].pc \in {"idle", "evaluate"} => cycle'[a].fresh = <<>>
    BY <1>1, <1>2, SMTT(90) DEF EntriesInv, Held
  <2>3. replay'.pc = "rewrite" /\ mishap' \cap LosesEntries = {} => dlq' = replay'.remaining
    <3> HAVE replay'.pc = "rewrite" /\ mishap' \cap LosesEntries = {}
    <3>1. dlq' = dlq /\ mishap \cap LosesEntries = {}
      BY <1>3 DEF LosesEntries
    <3> QED BY <1>3, <3>1 DEF EntriesInv, Held
  <2> QED BY <2>1, <2>2, <2>3 DEF Held
<1>11. mishap' \cap LosesEntries = {} => Parked(h.key)'
  <2> HAVE mishap' \cap LosesEntries = {}
  <2>1. CASE routing /\ h.skip
    BY <1>3, <1>7, <2>1 DEF Parked, Skipped
  <2>2. CASE h.deep /\ quarantined' = quarantined \cup {h.id}
    BY <1>3, <1>7, <2>2 DEF Parked, Quarantined
  <2>3. CASE dlq' = Append(dlq, h.key)
    <3>1. Occurs(h.key, dlq)'
      BY <1>8, <2>3 DEF Occurs
    <3> QED BY <3>1 DEF Parked, Dead
  <2> QED BY <1>3, <2>1, <2>2, <2>3 DEF LosesEntries
<1>12. Accounted'
  <2> SUFFICES ASSUME mishap' \cap LosesEntries = {}, NEW k \in processed
               PROVE  Pending(k)' \/ Parked(k)'
    BY <1>3 DEF Accounted
  <2>1. Pending(k) \/ Parked(k)
    BY <1>3 DEF EntriesInv, Accounted
  <2> QED BY <1>6, <1>9, <1>11, <2>1
<1>13. Once'
  <2> SUFFICES ASSUME "crash" \notin mishap PROVE Once'
    BY <1>3 DEF Once
  <2>1. /\ Distinct(dlq) /\ Distinct(replay.remaining)
        /\ \A a, b \in Cycle : \A i \in DOMAIN cycle[a].fresh : \A j \in DOMAIN cycle[b].fresh :
             cycle[a].fresh[i].key = cycle[b].fresh[j].key => a = b /\ i = j
        /\ \A k \in Key : Pending(k) \/ Filed(k) => k \in processed
        /\ \A k \in Key : ~ (Pending(k) /\ Filed(k))
        /\ \A k \in Key : \A i \in DOMAIN rotated : Occurs(k, rotated[i]) =>
             ~ Occurs(k, dlq) /\ ~ Occurs(k, replay.remaining)
        /\ replay.pc # "rewrite" => replay.remaining = <<>>
    BY DEF EntriesInv, Once
  <2>2. ~ Filed(h.key) /\ h.key \in processed
    BY <1>5, <1>7, <2>1
  <2>3. ASSUME NEW a \in Cycle, NEW i \in DOMAIN cycle'[a].fresh
        PROVE  \E x \in DOMAIN cycle[a].fresh :
                 /\ cycle[a].fresh[x] = cycle'[a].fresh[i] /\ x = IF a = c THEN i + 1 ELSE i
                 /\ a = c => x # 1 /\ i \in Nat
    BY <1>2, <1>4 DEF f
  <2>4. ASSUME NEW a \in Cycle, NEW i \in DOMAIN cycle'[a].fresh
        PROVE  cycle'[a].fresh[i].key # h.key
    <3>1. PICK x \in DOMAIN cycle[a].fresh :
            cycle[a].fresh[x] = cycle'[a].fresh[i] /\ (a = c => x # 1)
      BY <2>3
    <3>2. 1 \in DOMAIN cycle[c].fresh /\ cycle[c].fresh[1] = h
      BY <1>4 DEF f
    <3> QED BY <2>1, <3>1, <3>2
  <2>5. ~ Pending(h.key)'
    BY <2>4 DEF Pending
  <2>6. dlq' = dlq \/ dlq' = Append(dlq, h.key)
    BY <1>3
  <2>7. ~ Occurs(h.key, dlq) /\ ~ Occurs(h.key, replay.remaining)
        /\ \A i \in DOMAIN rotated : ~ Occurs(h.key, rotated[i])
    BY <2>2 DEF Filed, Dead
  <2>8. Distinct(dlq)'
    <3>1. Distinct(Append(dlq, h.key))
      BY <1>5, <2>1, <2>7, DistinctAppended
    <3> QED BY <2>1, <2>6, <3>1 DEF Distinct
  <2>9. \A k \in Key : ~ (Pending(k)' /\ Filed(k)')
    BY <1>6, <1>9, <2>1, <2>5
  <2>10. ASSUME NEW k \in Key, NEW i \in DOMAIN rotated, Occurs(k, rotated[i])
         PROVE  ~ Occurs(k, dlq)' /\ ~ Occurs(k, replay.remaining)
    <3>1. Occurs(k, dlq)' => Occurs(k, dlq) \/ k = h.key
      BY <1>8, <2>6 DEF Occurs
    <3> QED BY <2>1, <2>7, <2>10, <3>1
  <2>11. ASSUME NEW a \in Cycle, NEW b \in Cycle, NEW i \in DOMAIN cycle'[a].fresh,
                NEW j \in DOMAIN cycle'[b].fresh,
                cycle'[a].fresh[i].key = cycle'[b].fresh[j].key
         PROVE  a = b /\ i = j
    <3>1. PICK x \in DOMAIN cycle[a].fresh :
            /\ cycle[a].fresh[x] = cycle'[a].fresh[i] /\ x = IF a = c THEN i + 1 ELSE i
            /\ a = c => i \in Nat
      BY <2>3
    <3>2. PICK y \in DOMAIN cycle[b].fresh :
            /\ cycle[b].fresh[y] = cycle'[b].fresh[j] /\ y = IF b = c THEN j + 1 ELSE j
            /\ b = c => j \in Nat
      BY <2>3
    <3>3. a = b /\ x = y
      BY <2>1, <2>11, <3>1, <3>2, SMTT(90)
    <3> QED BY <3>1, <3>2, <3>3
  <2>12. \A k \in Key : Pending(k)' \/ Filed(k)' => k \in processed'
    BY <1>3, <1>6, <1>9, <2>1, <2>2
  <2>13. Distinct(replay.remaining)' /\ (replay'.pc # "rewrite" => replay'.remaining = <<>>)
    BY <1>3, <2>1 DEF Distinct
  <2>14. \A k \in Key : \A i \in DOMAIN rotated' : Occurs(k, rotated[i])' =>
           ~ Occurs(k, dlq)' /\ ~ Occurs(k, replay.remaining)'
    BY <1>3, <2>10 DEF Occurs
  <2>15. \A a, b \in Cycle : \A i \in DOMAIN cycle'[a].fresh : \A j \in DOMAIN cycle'[b].fresh :
           cycle'[a].fresh[i].key = cycle'[b].fresh[j].key => a = b /\ i = j
    BY <2>11
  <2> QED BY <2>8, <2>9, <2>12, <2>13, <2>14, <2>15 DEF Once
<1> QED BY <1>10, <1>12, <1>13 DEF EntriesInv

\* The replayer moves entries from file to file.
LEMMA EntriesReplayed ==
  ASSUME DaemonTypeOK, EntriesInv,
         ReplayRotate \/ ReplayRead \/ ReplayNothing \/ ReplayRewrite \/ ReplayDies
  PROVE  EntriesInv'
<1>1. UNCHANGED <<cycle, log, processed, quarantined, routing>> /\ mishap \subseteq mishap'
  BY DEF ReplayRotate, ReplayRead, ReplayNothing, ReplayRewrite, ReplayDies, count
<1>2. \A k : (Pending(k)' <=> Pending(k)) /\ (Skipped(k)' <=> Skipped(k))
  BY <1>1 DEF Pending, Skipped
<1>3. /\ \A c \in Cycle : \A i \in DOMAIN cycle[c].fresh :
           \E j \in DOMAIN log : log[j] = cycle[c].fresh[i]
      /\ \A c \in Cycle : cycle[c].pc \in {"idle", "evaluate"} => cycle[c].fresh = <<>>
      /\ replay.pc = "rewrite" /\ mishap \cap LosesEntries = {} => dlq = replay.remaining
  BY DEF EntriesInv, Held
<1>4. "crash" \notin mishap' =>
        /\ Distinct(dlq) /\ Distinct(replay.remaining)
        /\ \A a, b \in Cycle : \A i \in DOMAIN cycle[a].fresh : \A j \in DOMAIN cycle[b].fresh :
             cycle[a].fresh[i].key = cycle[b].fresh[j].key => a = b /\ i = j
        /\ \A k \in Key : Pending(k) \/ Filed(k) => k \in processed
        /\ \A k \in Key : ~ (Pending(k) /\ Filed(k))
        /\ \A k \in Key : \A i \in DOMAIN rotated : Occurs(k, rotated[i]) =>
             ~ Occurs(k, dlq) /\ ~ Occurs(k, replay.remaining)
        /\ replay.pc # "rewrite" => replay.remaining = <<>>
  BY <1>1 DEF EntriesInv, Once
<1>5. Distinct(<<>>) /\ \A k : ~ Occurs(k, <<>>)
  BY DEF Distinct, Occurs
<1>6. IdleReplay.pc = "idle" /\ IdleReplay.remaining = <<>>
  BY DEF IdleReplay
<1>7. CASE ReplayRotate
  <2>1. /\ dlq' = <<>> /\ replay.pc = "idle" /\ replay'.pc = "rotated"
        /\ replay'.remaining = replay.remaining
        /\ \/ rotated' = Append(rotated, dlq)
           \/ /\ rotated # <<>> /\ rotated' = [rotated EXCEPT ![Len(rotated)] = dlq]
              /\ "rotatedOver" \in mishap'
    BY <1>7 DEF ReplayRotate, DaemonTypeOK, FilesTyping
  <2>2. PICK q \in Seq(Key) : q = dlq
    BY DEF DaemonTypeOK, FilesTyping
  <2>3. /\ \A i \in DOMAIN rotated' : rotated'[i] = q \/ (i \in DOMAIN rotated /\ rotated'[i] = rotated[i])
        /\ rotated' = Append(rotated, q) =>
             /\ \A i \in DOMAIN rotated : i \in DOMAIN rotated' /\ rotated'[i] = rotated[i]
             /\ \E i \in DOMAIN rotated' : rotated'[i] = q
    <3>1. rotated \in Seq(Seq(Key))
      BY DEF DaemonTypeOK, FilesTyping
    <3>2. CASE rotated' = Append(rotated, q)
      <4>1. /\ DOMAIN rotated' = 1..(Len(rotated) + 1) /\ rotated'[Len(rotated) + 1] = q
            /\ DOMAIN rotated = 1..Len(rotated) /\ Len(rotated) \in Nat
            /\ \A i \in 1..Len(rotated) : rotated'[i] = rotated[i]
        BY <3>1, <3>2, AppendProperties
      <4> QED BY <3>2, <4>1
    <3>3. CASE rotated' # Append(rotated, q)
      <4>1. rotated # <<>> /\ rotated' = [rotated EXCEPT ![Len(rotated)] = q]
        BY <2>1, <2>2, <3>3
      <4> QED BY <3>1, <3>3, <4>1
    <3> QED BY <3>2, <3>3
  <2>4. Held'
    BY <1>1, <1>3, <2>1 DEF Held
  <2>5. mishap' \cap LosesEntries = {} => \A k : Dead(k) => Dead(k)'
    <3> HAVE mishap' \cap LosesEntries = {}
    <3>1. rotated' = Append(rotated, q)
      BY <2>1, <2>2 DEF LosesEntries
    <3> QED BY <2>2, <2>3, <3>1 DEF Dead, Occurs
  <2>6. Accounted'
    BY <1>1, <1>2, <2>5 DEF EntriesInv, Accounted, Parked, Quarantined
  <2>7. Once'
    <3> SUFFICES ASSUME "crash" \notin mishap' PROVE Once'
      BY DEF Once
    <3>1. replay.remaining = <<>>
      BY <1>4, <2>1
    <3>2. \A k : Filed(k)' => Filed(k)
      BY <1>5, <2>1, <2>2, <2>3, <3>1 DEF Filed, Dead, Occurs
    <3>3. \A k : ~ Occurs(k, dlq') /\ ~ Occurs(k, replay'.remaining)
      BY <1>5, <2>1, <3>1
    <3>4. Distinct(dlq)' /\ Distinct(replay.remaining)'
      BY <1>5, <2>1, <3>1 DEF Distinct
    <3> QED BY <1>1, <1>2, <1>4, <2>1, <3>1, <3>2, <3>3, <3>4 DEF Once
  <2> QED BY <2>4, <2>6, <2>7 DEF EntriesInv
<1>8. CASE ReplayRead
  <2>1. /\ UNCHANGED <<dlq, rotated, mishap>> /\ replay'.pc = "rewrite" /\ replay'.remaining = dlq
    BY <1>8 DEF ReplayRead
  <2>2. \A k : (Dead(k)' <=> Dead(k)) /\ (Filed(k)' => Filed(k))
    BY <2>1 DEF Filed, Dead, Occurs
  <2>3. Held'
    BY <1>1, <1>3, <2>1 DEF Held
  <2>4. Accounted'
    BY <1>1, <1>2, <2>1, <2>2 DEF EntriesInv, Accounted, Parked, Quarantined
  <2>5. Once'
    BY <1>1, <1>2, <1>4, <2>1, <2>2 DEF Once, Distinct, Occurs
  <2> QED BY <2>3, <2>4, <2>5 DEF EntriesInv
<1>9. CASE ReplayNothing
  <2>1. UNCHANGED <<dlq, rotated, mishap>> /\ replay'.pc = "idle" /\ replay'.remaining = <<>>
    BY <1>6, <1>9 DEF ReplayNothing
  <2>2. \A k : (Dead(k)' <=> Dead(k)) /\ (Filed(k)' => Filed(k))
    BY <1>5, <2>1 DEF Filed, Dead, Occurs
  <2>3. Held'
    BY <1>1, <1>3, <2>1 DEF Held
  <2>4. Accounted'
    BY <1>1, <1>2, <2>1, <2>2 DEF EntriesInv, Accounted, Parked, Quarantined
  <2>5. Once'
    BY <1>1, <1>2, <1>4, <1>5, <2>1, <2>2 DEF Once, Distinct, Occurs
  <2> QED BY <2>3, <2>4, <2>5 DEF EntriesInv
<1>10. CASE ReplayRewrite
  <2>1. /\ UNCHANGED <<rotated, mishap>> /\ dlq' = replay.remaining /\ replay.pc = "rewrite"
        /\ replay'.pc = "idle" /\ replay'.remaining = <<>>
    BY <1>6, <1>10 DEF ReplayRewrite
  <2>2. \A k : Filed(k)' => Filed(k)
    BY <1>5, <2>1 DEF Filed, Dead, Occurs
  <2>3. mishap \cap LosesEntries = {} => \A k : Dead(k) => Dead(k)'
    BY <1>3, <2>1 DEF Dead, Occurs
  <2>4. Held'
    BY <1>1, <1>3, <2>1 DEF Held
  <2>5. Accounted'
    BY <1>1, <1>2, <2>1, <2>3 DEF EntriesInv, Accounted, Parked, Quarantined
  <2>6. Once'
    BY <1>1, <1>2, <1>4, <1>5, <2>1, <2>2 DEF Once, Distinct, Occurs
  <2> QED BY <2>4, <2>5, <2>6 DEF EntriesInv
<1>11. CASE ReplayDies
  <2>1. /\ rotated' = rotated /\ "replayerDied" \in mishap' /\ (dlq' = dlq \/ dlq' = <<>>)
        /\ replay'.pc = "idle" /\ replay'.remaining = <<>>
    BY <1>6, <1>11 DEF ReplayDies
  <2>2. \A k : Filed(k)' => Filed(k)
    BY <1>5, <2>1 DEF Filed, Dead, Occurs
  <2>3. Held'
    BY <1>1, <1>3, <2>1 DEF Held
  <2>4. Accounted'
    BY <2>1 DEF Accounted, LosesEntries
  <2>5. Once'
    BY <1>1, <1>2, <1>4, <1>5, <2>1, <2>2 DEF Once, Distinct, Occurs
  <2> QED BY <2>3, <2>4, <2>5 DEF EntriesInv
<1> QED BY <1>7, <1>8, <1>9, <1>10, <1>11

(* An entry marked as processed can be found again, and a run of the daemon   *)
(* puts it into the dead-letter files once, whatever cycles overlap           *)
(* (daemon.ts:156-200), for any number of cycles, lines and restarts.         *)
THEOREM NothingForgotten == Spec => []EntriesAccounted
<1>1. Init => EntriesInv
  <2> SUFFICES ASSUME Init PROVE EntriesInv
    OBVIOUS
  <2>1. /\ \A c \in Cycle : cycle[c].fresh = <<>>
        /\ dlq = <<>> /\ rotated = <<>> /\ replay.pc = "idle" /\ replay.remaining = <<>>
        /\ processed = {}
    BY IdleTyping DEF Init, IdleReplay
  <2>2. \A k : ~ Pending(k) /\ ~ Filed(k) /\ ~ Occurs(k, <<>>)
    BY <2>1 DEF Pending, Filed, Dead, Occurs
  <2> QED BY <2>1, <2>2 DEF EntriesInv, Held, Accounted, Once, Distinct
<1>2. DaemonTypeOK /\ DaemonTypeOK' /\ EntriesInv /\ [Next]_vars => EntriesInv'
  <2> SUFFICES ASSUME DaemonTypeOK, DaemonTypeOK', EntriesInv, [Next]_vars PROVE EntriesInv'
    OBVIOUS
  <2>1. \A c \in Cycle : cycle[c].pc \in {"idle", "evaluate"} => cycle[c].fresh = <<>>
    BY DEF EntriesInv, Held
  <2>2. CASE UNCHANGED vars
    BY <2>1, <2>2, EntriesStay DEF vars
  <2>3. ASSUME NEW l \in LogLine, AppendLog(l) PROVE EntriesInv'
    <3>1. \A j \in DOMAIN log : j \in DOMAIN log' /\ log'[j] = log[j]
      BY <2>3, SMTT(90) DEF AppendLog, DaemonTypeOK, FilesTyping
    <3> QED BY <2>1, <2>3, <3>1, EntriesStay DEF AppendLog
  <2>4. CASE Start \/ Stop \/ \E kind \in {"drift", "other"} : AppendDoc(kind)
    BY <2>1, <2>4, EntriesStay DEF Start, Stop, AppendDoc
  <2>5. ASSUME NEW r \in Request, Operate(r) PROVE EntriesInv'
    <3>1. UNCHANGED <<cycle, dead, processed, quarantined, routing, log>> /\ mishap \subseteq mishap'
      BY <2>5 DEF Operate, Save
    <3> QED BY <2>1, <3>1, EntriesStay
  <2>6. CASE Crash
    <3>1. /\ \A c \in Cycle : cycle'[c].fresh = <<>>
          /\ UNCHANGED dead /\ processed' = {} /\ "crash" \in mishap' /\ mishap \subseteq mishap'
      BY <2>6, IdleTyping DEF Crash
    <3> QED BY <3>1 DEF EntriesInv, Held, Accounted, Once, dead
  <2>7. ASSUME NEW c \in Cycle, CycleStart(c) \/ EndOfLog(c) \/ DocsJob(c) \/ Evaluate(c)
        PROVE  EntriesInv'
    <3>1. PICK new \in CycleRecord :
            /\ cycle' = [cycle EXCEPT ![c] = new] /\ new.fresh = cycle[c].fresh
            /\ new.pc \in {"idle", "evaluate"} => new.fresh = <<>>
      <4>1. CASE CycleStart(c)
        BY <2>1, <4>1, StartGives, ZenonT(90) DEF CycleStart
      <4>2. CASE EndOfLog(c)
        BY <4>2, EndOfLogGives
      <4>3. CASE DocsJob(c)
        BY <4>3, DocsJobGives
      <4>4. CASE Evaluate(c)
        BY <2>1, <4>4, IdleTyping DEF Evaluate
      <4> QED BY <2>7, <4>1, <4>2, <4>3, <4>4
    <3>2. cycle'[c] = new /\ \A d \in Cycle : d # c => cycle'[d] = cycle[d]
      BY <3>1 DEF DaemonTypeOK, CyclesTyping
    <3>3. UNCHANGED <<dead, processed, quarantined, routing, log>> /\ mishap \subseteq mishap'
      BY <2>7 DEF CycleStart, EndOfLog, DocsJob, Evaluate, Save
    <3> QED BY <2>1, <3>1, <3>2, <3>3, EntriesStay
  <2>8. ASSUME NEW c \in Cycle, ReadLine(c) PROVE EntriesInv'
    BY <2>8, EntriesRead
  <2>9. ASSUME NEW c \in Cycle, Extract(c) PROVE EntriesInv'
    BY <2>9, EntriesExtracted
  <2>10. ASSUME NEW c \in Cycle, ReadFails(c) PROVE EntriesInv'
    <3>1. /\ cycle'[c].fresh = <<>> /\ \A d \in Cycle : d # c => cycle'[d] = cycle[d]
          /\ UNCHANGED <<dead, processed, log>> /\ "readFailed" \in mishap'
          /\ mishap' = mishap \cup {"readFailed"}
      BY <2>10, IdleTyping DEF ReadFails, DaemonTypeOK, CyclesTyping
    <3>2. \A k : (Pending(k)' => Pending(k)) /\ (Filed(k)' <=> Filed(k))
      BY <3>1 DEF Pending, Filed, Dead, Occurs, dead
    <3>3. Held'
      BY <2>1, <3>1 DEF EntriesInv, Held, dead
    <3>4. Accounted'
      BY <3>1 DEF Accounted, LosesEntries
    <3>5. Once'
      BY <3>1, <3>2 DEF EntriesInv, Once, dead
    <3> QED BY <3>3, <3>4, <3>5 DEF EntriesInv
  <2>11. CASE ReplayRotate \/ ReplayRead \/ ReplayNothing \/ ReplayRewrite \/ ReplayDies
    BY <2>11, EntriesReplayed
  <2> QED BY <2>2, <2>3, <2>4, <2>5, <2>6, <2>7, <2>8, <2>9, <2>10, <2>11 DEF Next, CycleStep
<1>3. DaemonTypeOK /\ EntriesInv => EntriesAccounted
  <2> SUFFICES ASSUME DaemonTypeOK, EntriesInv PROVE EntriesAccounted
    OBVIOUS
  <2>1. \A i \in DOMAIN dlq : dlq[i] \in Key /\ Occurs(dlq[i], dlq)
    BY DEF DaemonTypeOK, FilesTyping, Occurs
  <2>2. "crash" \notin mishap => \A i \in DOMAIN dlq : \A n \in DOMAIN rotated : ~ Occurs(dlq[i], rotated[n])
    BY <2>1 DEF EntriesInv, Once
  <2> QED BY <2>2 DEF EntriesInv, Accounted, Once, Distinct, EntriesAccounted
<1> QED BY <1>1, <1>2, <1>3, DaemonTyping, PTL DEF Spec
=============================================================================
