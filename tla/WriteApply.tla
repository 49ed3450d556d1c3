----------------------------- MODULE WriteApply -----------------------------
(***************************************************************************)
(* fs:apply (cli/apply.ts, writeApply.ts): a plan file is made from a      *)
(* batch of findings and reviewed; apply reads the person again, plans     *)
(* again, asks about every operation that both plans have, and posts it    *)
(* under a ledger that gets an intent line before the request and a done   *)
(* line after its answer.  The ledger and the person are shared by every   *)
(* terminal.  A terminal may stop at any point, an answer may be lost, a   *)
(* request may reach FamilySearch after its sender gave up, other people   *)
(* edit the person.                                                        *)
(*                                                                         *)
(* hazy and overtaken remember the two orders the program cannot exclude:  *)
(* two terminals between the check of the ledger and the intent for one    *)
(* post, or a line deleted while its request was on the way; and a         *)
(* conclusion that was posted after the person had changed.                *)
(***************************************************************************)
EXTENDS WritePlan

CONSTANTS Terminal,      \* shells that run fs:apply
          Batch,         \* batches of findings a plan is made from
          Edit,          \* conclusions other people add to the person
          Noted,         \* findings the person has a note of already
          MaxSessions,   \* bound: apply runs
          MaxMishaps     \* bound: edits of other people and ledger lines deleted by hand

ASSUME WriteConstants == \A batch \in Batch : batch \in Seq(ToSet(batch))

VARIABLES person,        \* the person on FamilySearch: its document
          descriptions,  \* source descriptions on FamilySearch, in order of creation
          landed,        \* ledger keys of the posts that took effect
          twice,         \* those that took effect twice
          file,          \* the reviewed plan file: findings, fingerprints
          intents, dones,\* lines of the ledger, by key
          session,       \* per terminal: the apply run in progress
          wire,          \* requests that are on their way
          hazy, overtaken,
          sessions, mishaps

remote == <<person, descriptions, landed, twice>>
ledger == <<intents, dones>>
counters == <<sessions, mishaps>>
applyVars == <<remote, file, ledger, session, wire, hazy, overtaken, counters>>

Idle == [pc |-> "idle"]

ApplyInit ==
  /\ person = [living |-> FALSE, refs |-> <<>>, notes |-> Noted, facts |-> {}]
  /\ descriptions = <<>>
  /\ landed = {}
  /\ twice = {}
  /\ file = [batch |-> <<>>, prints |-> {}]
  /\ intents = {}
  /\ dones = {}
  /\ session = [t \in Terminal |-> Idle]
  /\ wire = {}
  /\ hazy = {}
  /\ overtaken = FALSE
  /\ sessions = 0
  /\ mishaps = 0

(* runPlan: the person is read, the plan and its findings are written to the file. *)
RunPlan(batch) ==
  /\ batch # file.batch
  /\ file' = [batch |-> batch,
              prints |-> {Fingerprint(op) : op \in Range(BuildPlan(batch, person, <<>>, TRUE))}]
  /\ UNCHANGED <<remote, ledger, session, wire, hazy, overtaken, counters>>

(* What the user may declare with --existing-source: descriptions that are there. *)
Declarable ==
  LET made(x) == {d \in DOMAIN descriptions : descriptions[d].source = x}
      known == {descriptions[d].source : d \in DOMAIN descriptions}
  IN {<<>>, [x \in known |-> CHOOSE d \in made(x) : TRUE]}

(* runApply and the head of applyPlan: the fresh plan for the person as it is now, and of
   it the operations that were reviewed. *)
StartApply(t, declared) ==
  /\ session[t].pc = "idle" /\ sessions < MaxSessions
  /\ file.prints # {}
  /\ sessions' = sessions + 1
  /\ LET fresh == BuildPlan(file.batch, person, declared, TRUE)
         todo == Picked(fresh, {i \in DOMAIN fresh : Fingerprint(fresh[i]) \in file.prints})
     IN session' = [session EXCEPT ![t] =
          IF todo = <<>> THEN Idle
          ELSE [pc |-> "next", todo |-> todo, seen |-> person.facts, made |-> <<>>]]
  /\ UNCHANGED <<remote, file, ledger, wire, hazy, overtaken, mishaps>>

Current(t) == Head(session[t].todo)

(* The description an attachment refers to: an existing one or the one the run made. *)
ReferenceOf(t, op) ==
  IF op.existing # NoDescription THEN op.existing
  ELSE IF op.ids \in DOMAIN session[t].made THEN session[t].made[op.ids] ELSE NoDescription

(* A fact without a date is told by its place. *)
TargetOf(x) ==
  IF x.kind = "name_variant" THEN <<x.value, {}>>
  ELSE <<DayOrText(x.date), IF x.date = Undated THEN x.place ELSE {}>>

(* targetOf and ledgerKey: what is posted, independent of the ids of findings. *)
KeyOf(op, reference) ==
  CASE op.type = "create" -> <<"create", op.lead.url>>
    [] op.type = "attach" -> <<"attach", reference>>
    [] op.type = "note" -> <<"note", op.lead.id>>
    [] op.type = "conclude" -> <<"conclude", op.lead.kind, TargetOf(ConclusionOf(op.lead))>>

CurrentKey(t) == KeyOf(Current(t), ReferenceOf(t, Current(t)))

(* Slip: only completed posts refuse, not attempts that never completed. *)
RefusedIfDone(key) == key \in dones
Refused(key) == key \in dones \cup intents

(* The run goes on with the next operation, or is over. *)
Advance(s) == IF Tail(s.todo) = <<>> THEN Idle ELSE [s EXCEPT !.pc = "next", !.todo = Tail(@)]

(* An attachment whose description was not made is passed over; so is an operation the
   ledger refuses, before the user is asked. *)
Consider(t) ==
  /\ session[t].pc = "next"
  /\ LET op == Current(t)
         orphan == op.type = "attach" /\ ReferenceOf(t, op) = NoDescription
         early == op.type # "attach" \/ op.existing # NoDescription
     IN session' = [session EXCEPT ![t] =
          IF orphan \/ (early /\ Refused(CurrentKey(t))) THEN Advance(@) ELSE [@ EXCEPT !.pc = "asked"]]
  /\ UNCHANGED <<remote, file, ledger, wire, hazy, overtaken, counters>>

Decline(t) ==
  /\ session[t].pc = "asked"
  /\ session' = [session EXCEPT ![t] = Advance(@)]
  /\ UNCHANGED <<remote, file, ledger, wire, hazy, overtaken, counters>>

(* The user types yes; the guarded writer checks the ledger again.  A refusal there throws,
   which halts the run. *)
Approve(t) ==
  /\ session[t].pc = "asked"
  /\ session' = [session EXCEPT ![t] =
       IF Refused(CurrentKey(t)) THEN Idle ELSE [@ EXCEPT !.pc = "checked"]]
  /\ hazy' = IF \E u \in Terminal \ {t} : session[u].pc = "checked" /\ CurrentKey(u) = CurrentKey(t)
             THEN hazy \cup {CurrentKey(t)} ELSE hazy
  /\ UNCHANGED <<remote, file, ledger, wire, overtaken, counters>>

Request(t) ==
  [from |-> t, op |-> Current(t), reference |-> ReferenceOf(t, Current(t)), seen |-> session[t].seen]

(* The intent is appended and synced, then the request leaves. *)
Post(t) ==
  /\ session[t].pc = "checked"
  /\ intents' = intents \cup {CurrentKey(t)}
  /\ wire' = wire \cup {Request(t)}
  /\ session' = [session EXCEPT ![t].pc = "posting"]
  /\ UNCHANGED <<remote, file, dones, hazy, overtaken, counters>>

(* What a post does to the person. *)
Effect(r) ==
  LET op == r.op IN
  /\ descriptions' = IF op.type = "create"
                     THEN Append(descriptions, [source |-> op.lead.source, url |-> op.lead.url,
                                                title |-> op.lead.title])
                     ELSE descriptions
  /\ person' =
       CASE op.type = "attach" ->
              [person EXCEPT !.refs = [d \in DOMAIN person.refs \cup {r.reference} |->
                 [url |-> descriptions[d].url, title |-> descriptions[d].title]]]
         [] op.type = "note" -> [person EXCEPT !.notes = @ \cup {op.lead.id}]
         [] op.type = "conclude" ->
              [person EXCEPT !.facts = @ \cup {ConclusionOf(op.lead)}]
         [] OTHER -> person
  /\ landed' = landed \cup {KeyOf(op, r.reference)}
  /\ twice' = IF KeyOf(op, r.reference) \in landed THEN twice \cup {KeyOf(op, r.reference)} ELSE twice
  /\ overtaken' = (overtaken \/ (op.type = "conclude" /\ person.facts # r.seen))

Waiting(r) ==
  session[r.from].pc = "posting" /\ Request(r.from) = r

(* The answer tells the run that waits for it what the person and the descriptions are now. *)
Informed(s, r) ==
  [s EXCEPT !.pc = "answered",
            !.seen = IF r.op.type = "conclude" THEN s.seen \cup {ConclusionOf(r.op.lead)} ELSE s.seen,
            !.made = IF r.op.type = "create" THEN (r.op.ids :> Len(descriptions')) @@ s.made ELSE s.made]

(* A request reaches FamilySearch and takes effect; its answer reaches a sender that still
   waits, or is lost, which halts the run. *)
Land(r, lost) ==
  /\ r \in wire
  /\ Effect(r)
  /\ wire' = wire \ {r}
  /\ session' = [session EXCEPT ![r.from] =
       IF ~ Waiting(r) THEN @
       ELSE IF lost THEN Idle
       ELSE Informed(@, r)]
  /\ UNCHANGED <<file, ledger, hazy, counters>>

(* A request is refused or lost on its way; a sender that waits halts. *)
Drop(r) ==
  /\ r \in wire
  /\ wire' = wire \ {r}
  /\ session' = [session EXCEPT ![r.from] = IF Waiting(r) THEN Idle ELSE @]
  /\ UNCHANGED <<remote, file, ledger, hazy, overtaken, counters>>

(* The done line follows the answer. *)
Complete(t) ==
  /\ session[t].pc = "answered"
  /\ dones' = dones \cup {CurrentKey(t)}
  /\ session' = [session EXCEPT ![t] = Advance(@)]
  /\ UNCHANGED <<remote, file, intents, wire, hazy, overtaken, counters>>

(* The process stops, or gives up waiting: its request may still be on its way. *)
Stop(t) ==
  /\ session[t].pc # "idle"
  /\ session' = [session EXCEPT ![t] = Idle]
  /\ UNCHANGED <<remote, file, ledger, wire, hazy, overtaken, counters>>

(* As the refusal asks, the user looks for the result of an attempt that never completed,
   and deletes its line when there is none. *)
FixLedger(key) ==
  /\ key \in intents \ dones
  /\ mishaps < MaxMishaps
  /\ key \notin landed
  /\ intents' = intents \ {key}
  /\ hazy' = IF \E r \in wire : KeyOf(r.op, r.reference) = key THEN hazy \cup {key} ELSE hazy
  /\ mishaps' = mishaps + 1
  /\ UNCHANGED <<remote, file, dones, session, wire, overtaken, sessions>>

OthersEdit(x) ==
  /\ mishaps < MaxMishaps
  /\ person' = [person EXCEPT !.facts = @ \cup {x}]
  /\ mishaps' = mishaps + 1
  /\ UNCHANGED <<descriptions, landed, twice, file, ledger, session, wire, hazy, overtaken, sessions>>

ApplyNext ==
  \/ \E batch \in Batch : RunPlan(batch)
  \/ \E t \in Terminal :
       \/ \E declared \in Declarable : StartApply(t, declared)
       \/ Consider(t) \/ Decline(t) \/ Approve(t) \/ Post(t) \/ Complete(t) \/ Stop(t)
  \/ \E r \in wire : Drop(r) \/ (\E lost \in BOOLEAN : Land(r, lost))
  \/ \E key \in intents : FixLedger(key)
  \/ \E x \in Edit : OthersEdit(x)

ApplySpec == ApplyInit /\ [][ApplyNext]_applyVars
-----------------------------------------------------------------------------
(* The ledger stands between every post and its repetition, whatever stops and whatever
   answer is lost: what took effect is in it, for the intent is on disk before the request
   leaves (cli/apply.ts:380), and nothing takes effect twice, for an attempt without its
   done line is not made again (cli/apply.ts:256-267).  The exceptions are the two orders of
   hazy. *)
LedgerGuardsPosts == landed \ hazy \subseteq intents /\ twice \subseteq hazy

(* A person has one birth and one death (writePlan.ts:440): a run adds one only to a person
   that had none, unless the person changed under the run, which reads it once, at its start. *)
OneOfUniqueKind ==
  LET posted(k) == {key \in landed : key[1] = "conclude" /\ key[2] = k}
  IN ~ overtaken => \A k \in UniqueKind : Cardinality(posted(k)) =< 1

(* The ledger and the plan together keep the person free of what is there already. *)
PostsGuarded == LedgerGuardsPosts /\ OneOfUniqueKind
=============================================================================
