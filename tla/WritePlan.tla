------------------------------ MODULE WritePlan ------------------------------
(***************************************************************************)
(* The planner of FamilySearch writes, buildPlan of writePlan.ts: which    *)
(* operations a batch of findings asks for, given the person's document.   *)
(* A finding is [id, source, url, title, kind, value, date, place, ok]:    *)
(* date is [text, year, day], what dayOf and yearOf read in the text, or   *)
(* the empty string; place the set of its parts; ok says that              *)
(* findingProblem finds nothing wrong.  A document is [living, refs,       *)
(* notes, facts]: the descriptions the person references (the only ones it *)
(* lists), the findings its notes carry the marker of, its names and facts *)
(* as conclusions.                                                         *)
(***************************************************************************)
EXTENDS Places, Sequences, SequencesExt

NoDescription == 0

Undated == [text |-> "", year |-> "", day |-> ""]

(* An exact day, in whatever form it is written, or else the text. *)
DayOrText(date) == IF date.day # "" THEN date.day ELSE date.text

(* UNIQUE_FACTS and FACT_TYPES *)
UniqueKind == {"birth", "death"}
FactKind == UniqueKind \cup {"residence"}

(* The findings that are acceptable and the first of their id in the batch. *)
Accepted(batch) ==
  LET first(i) == batch[i].ok /\ \A j \in 1..(i - 1) : batch[j].id # batch[i].id
  IN Picked(batch, {i \in DOMAIN batch : first(i)})

(* Findings of one TRM source and URL share a source description; the first leads. *)
SameGroup(f, g) == f.source = g.source /\ f.url = g.url
Leads(accepted) ==
  LET first(i) == \A j \in 1..(i - 1) : ~ SameGroup(accepted[j], accepted[i])
  IN Picked(accepted, {i \in DOMAIN accepted : first(i)})
GroupIds(accepted, lead) == {f.id : f \in {g \in Range(accepted) : SameGroup(g, lead)}}

(* What is written of a finding: of a name variant the name, else its date and place. *)
ConclusionOf(f) ==
  IF f.kind = "name_variant"
  THEN [kind |-> f.kind, value |-> f.value, date |-> Undated, place |-> {}]
  ELSE [kind |-> f.kind, value |-> "", date |-> f.date, place |-> f.place]

(* Of a birth or a death the date has to be provably the same: a bare year agrees with the
   year, an exact day with the day, any other text with itself. *)
UniqueDateAgrees(x, f) ==
  \/ f.date = Undated
  \/ f.date.text = f.date.year /\ x.date.year = f.date.year
  \/ f.date.text # f.date.year /\ f.date.day # "" /\ x.date.day = f.date.day
  \/ f.date.text # f.date.year /\ f.date.day = "" /\ x.date.text = f.date.text

(* One place may be less specific than the other. *)
PlaceAgrees(x, f) ==
  f.place # {} => x.place # {} /\ (f.place \subseteq x.place \/ x.place \subseteq f.place)

FactMatches(x, f) ==
  /\ PlaceAgrees(x, f)
  /\ IF f.kind \in UniqueKind THEN UniqueDateAgrees(x, f)
     ELSE f.date.year \in {"", x.date.year} /\ ("" \in {x.date.day, f.date.day} \/ x.date.day = f.date.day)

(* factStatus *)
StatusOf(doc, f) ==
  LET same == {x \in doc.facts : x.kind = f.kind} IN
  IF f.kind = "name_variant" THEN IF ConclusionOf(f) \in same THEN "present" ELSE "absent"
  ELSE IF f.kind \notin FactKind \/ (f.date = Undated /\ f.place = {}) THEN "note_only"
  ELSE IF \E x \in same : FactMatches(x, f) THEN "present"
  ELSE IF f.kind \in UniqueKind /\ same # {} THEN "conflict"
  ELSE "absent"

(* The description a group already has: the one the caller declared for its source, else
   one the person references with its URL or its title. *)
ExistingDescription(doc, lead, declared) ==
  LET matches == {d \in DOMAIN doc.refs : doc.refs[d].url = lead.url \/ doc.refs[d].title = lead.title}
  IN IF lead.source \in DOMAIN declared THEN declared[lead.source]
     ELSE IF matches = {} THEN NoDescription
     ELSE CHOOSE d \in matches : \A e \in matches : d =< e

Operation(type, ids, lead, existing) ==
  [type |-> type, ids |-> ids, lead |-> lead, existing |-> existing]

(* Operations of a plan are the same when their type and findings are. *)
Fingerprint(op) == <<op.type, op.ids>>

(* Every finding that is not there already gets a note, once. *)
Unnoted(accepted, doc) ==
  LET missing(f) == StatusOf(doc, f) # "present" /\ f.id \notin doc.notes
  IN Picked(accepted, {i \in DOMAIN accepted : missing(accepted[i])})

(* Of the findings whose conclusion is absent: each conclusion once, and of the unique
   kinds the first. *)
Identical(g, f) == g.value = f.value /\ DayOrText(g.date) = DayOrText(f.date) /\ g.place = f.place
Shadows(g, f) == g.kind = f.kind /\ (f.kind \in UniqueKind \/ Identical(g, f))
Conclusions(accepted, doc) ==
  LET absent == Picked(accepted, {i \in DOMAIN accepted : StatusOf(doc, accepted[i]) = "absent"})
      first(i) == \A j \in 1..(i - 1) : ~ Shadows(absent[j], absent[i])
  IN Picked(absent, {i \in DOMAIN absent : first(i)})

Alone(type, fs) == [n \in DOMAIN fs |-> Operation(type, {fs[n].id}, fs[n], NoDescription)]

(* buildPlan: nothing for a person who may live; else descriptions, attachments, notes and,
   when they are allowed, conclusions. *)
BuildPlan(batch, doc, declared, allowConclusions) ==
  LET accepted == Accepted(batch)
      leads == Leads(accepted)
      found(f) == ExistingDescription(doc, f, declared)
      undescribed == Picked(leads, {i \in DOMAIN leads : found(leads[i]) = NoDescription})
      unattached == Picked(leads, {i \in DOMAIN leads : found(leads[i]) \notin DOMAIN doc.refs})
  IN IF doc.living THEN <<>>
     ELSE [n \in DOMAIN undescribed |->
             Operation("create", GroupIds(accepted, undescribed[n]), undescribed[n], NoDescription)]
          \o [n \in DOMAIN unattached |->
               Operation("attach", GroupIds(accepted, unattached[n]), unattached[n], found(unattached[n]))]
          \o Alone("note", Unnoted(accepted, doc))
          \o Alone("conclude", IF allowConclusions THEN Conclusions(accepted, doc) ELSE <<>>)
=============================================================================
