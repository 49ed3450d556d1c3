---------------------------- MODULE DocsManagerJob ----------------------------
(***************************************************************************)
(* The documentation-manager job (ingestion/jobs/docsManagerJob.ts): it    *)
(* reads the events another program writes, from one log or from segments  *)
(* listed in an index, and applies those above the last sequence id it has *)
(* seen to the state it is given.  IngestionDaemon has the daemon around   *)
(* it, which gives it a state without lists, and its single log; here are  *)
(* the segments, the kinds of events and a state file that fails.          *)
(*                                                                         *)
(* The writer counts its events from 1 and goes from the log to the first  *)
(* segment and on; how far its index is behind and in which order it lists *)
(* the segments are left open.                                             *)
(***************************************************************************)
EXTENDS Places, SequencesExt

CONSTANTS
  Segment,      \* how many segments there may be
  DocEvent,     \* events: [kind, penalty, ok], the penalty in tenths
  MaxWritten,   \* bound: events written
  MaxFaults     \* bound: state files lost or not written, segments moved away

ASSUME DocsConstants ==
  /\ Segment \in Nat /\ MaxWritten \in Nat /\ MaxFaults \in Nat
  /\ \A e \in DocEvent : e.kind \in {"audit", "drift", "success", "other"} /\ e.penalty \in {0, 1, 3, 5}

VARIABLES
  written,     \* the events in the order of their ids, each with the file it is in
  index,       \* sequence of the indexed segments, with the highest id it knows of each
  away,        \* segments that are not where the index says
  lastSeen,    \* lastSeenSequenceId of the state file
  cic,         \* the state the job is given: drift in tenths, audits, governance; whole
               \*   says that it has the two lists
  gap,         \* a run could not see an event it had yet to process, or saw a later one first
  forgotten,   \* the mark of a run was not kept
  faults

docsVars == <<written, index, away, lastSeen, cic, gap, forgotten, faults>>

DocsInit ==
  /\ written = <<>> /\ index = <<>> /\ away = {} /\ lastSeen = 0
  /\ cic \in [drift : {0}, audits : {<<>>}, governance : {<<>>}, whole : BOOLEAN]
  /\ gap = FALSE /\ forgotten = FALSE /\ faults = 0

-----------------------------------------------------------------------------
\* The writer.  File 0 is the log.

WriteEvent(e, file) ==
  /\ Len(written) < MaxWritten
  /\ written # <<>> => file >= Last(written).file
  /\ written' = Append(written, [event |-> e, file |-> file])
  /\ UNCHANGED <<index, away, lastSeen, cic, gap, forgotten, faults>>

In(file) == {id \in DOMAIN written : written[id].file = file}

WriteIndex(listed) ==
  /\ index' = [i \in DOMAIN listed |-> [file |-> listed[i], max |-> Max(In(listed[i]))]]
  /\ index' # index
  /\ UNCHANGED <<written, away, lastSeen, cic, gap, forgotten, faults>>

\* a segment is moved away, or comes back
Move(file) ==
  /\ In(file) # {}
  /\ faults < MaxFaults \/ file \in away
  /\ away' = IF file \in away THEN away \ {file} ELSE away \union {file}
  /\ faults' = faults + (IF file \in away THEN 0 ELSE 1)
  /\ UNCHANGED <<written, index, lastSeen, cic, gap, forgotten>>

-----------------------------------------------------------------------------
\* The job.

\* with an index the log is not read, and a segment that is not there is passed over
GetSegmentsToRead ==
  IF index = <<>> THEN <<0>>
  ELSE Picked([i \in DOMAIN index |-> index[i].file],
              {i \in DOMAIN index : index[i].max > lastSeen /\ index[i].file \notin away})

ValidateEvent(id) == written[id].event.ok

Tenths == 10
Capped(n) == IF n < Tenths THEN n ELSE Tenths

\* an event that adds to a list the state does not have throws, and is passed over
Fails(id) == ~ cic.whole /\ written[id].event.kind \in {"audit", "success"}

ProcessEvent(s, id) ==
  LET e == written[id].event IN
  CASE e.kind = "audit"   -> [s EXCEPT !.audits = Append(@, id)]
    [] e.kind = "drift"   -> [s EXCEPT !.drift = Capped(@ + e.penalty)]
    [] e.kind = "success" -> [s EXCEPT !.governance = Append(@, id)]
    [] e.kind = "other"   -> s

\* Slip: the last event is not yet a duplicate.
NewOrLast(id, mark) == id >= mark

New(id, mark) == id > mark

\* one line: s is [cic, mark]
ReadLine(s, id) ==
  IF New(id, s.mark) /\ ValidateEvent(id) /\ ~ Fails(id)
  THEN [cic |-> ProcessEvent(s.cic, id), mark |-> id] ELSE s

\* one file, from its start
ReadFile(s, file) ==
  LET after[id \in 0..Len(written)] ==
        IF id = 0 THEN s
        ELSE IF id \in In(file) THEN ReadLine(after[id - 1], id)
        ELSE after[id - 1]
  IN after[Len(written)]

\* one file after the other: s is what the job starts from
ReadFiles(s, files) ==
  LET after[n \in 0..Len(files)] == IF n = 0 THEN s ELSE ReadFile(after[n - 1], files[n])
  IN after[Len(files)]

\* the files have every event to be processed, and in the order of their ids
AllInOrder(files) ==
  /\ \A id \in DOMAIN written : New(id, lastSeen) => written[id].file \in ToSet(files)
  /\ \A i, j \in DOMAIN files : i < j => \A a \in In(files[i]), b \in In(files[j]) : a < b

RunDocsManagerIngestionJob(saved) ==
  LET after == ReadFiles([cic |-> cic, mark |-> lastSeen], GetSegmentsToRead)
  IN /\ saved \/ faults < MaxFaults
     /\ cic' = after.cic
     /\ lastSeen' = IF saved THEN after.mark ELSE lastSeen
     /\ faults' = faults + (IF saved THEN 0 ELSE 1)
     /\ forgotten' = (forgotten \/ (~ saved /\ after.mark # lastSeen))
     /\ gap' = (gap \/ ~ AllInOrder(GetSegmentsToRead))
     /\ UNCHANGED <<written, index, away>>

\* a state file that cannot be read counts for none
LoseState ==
  /\ faults < MaxFaults /\ lastSeen > 0
  /\ lastSeen' = 0 /\ forgotten' = TRUE /\ faults' = faults + 1
  /\ UNCHANGED <<written, index, away, cic, gap>>

DocsNext ==
  \/ \E e \in DocEvent, file \in 0..Segment : WriteEvent(e, file)
  \/ \E listed \in SetToAllKPermutations({f \in 1..Segment : In(f) # {}}) : WriteIndex(listed)
  \/ \E file \in 1..Segment : Move(file)
  \/ \E saved \in BOOLEAN : RunDocsManagerIngestionJob(saved)
  \/ LoseState

DocsSpec == DocsInit /\ [][DocsNext]_docsVars

-----------------------------------------------------------------------------
\* Property.

\* Of some events, those of a kind that count, and what their penalties add up to: as many
\* as there are pairs of an event and one of the tenths of its penalty.
Counting(kind, ids) ==
  {id \in ids : written[id].event.kind = kind /\ ValidateEvent(id) /\ ~ Fails(id)}
Penalties(ids) ==
  Cardinality({p \in Counting("drift", ids) \X (1..Tenths) : p[2] <= written[p[1]].event.penalty})

Ascending(ids) == \A i, j \in DOMAIN ids : i < j => ids[i] < ids[j]

\* An event counts once: as long as no mark was lost, its penalty and its place in a list
\* are there at most once and in order, however often the files are read again; and as
\* long as every run saw all it had yet to process, whatever is below the mark has been
\* applied.  The mark alone says so: a segment that was away, an index that was behind or
\* a log that segments have replaced loses what a later event has overtaken
\* (docsManagerJob.ts:165-179, 374-386).
DocsEventsOnce ==
  LET seen == 1..lastSeen IN
  /\ ~ forgotten => /\ Ascending(cic.audits) /\ Ascending(cic.governance)
                    /\ cic.drift <= Capped(Penalties(seen))
  /\ ~ gap => /\ Counting("audit", seen) \subseteq ToSet(cic.audits)
              /\ Counting("success", seen) \subseteq ToSet(cic.governance)
              /\ cic.drift >= Capped(Penalties(seen))
=============================================================================
