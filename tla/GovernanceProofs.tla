-------------------------- MODULE GovernanceProofs --------------------------
(***************************************************************************)
(* Theorems about what governs a rollout: cohorts, the pipeline, the envelope *)
(* cache, the rollback executor, and the flows and growth of Phase 4.      *)
(***************************************************************************)
EXTENDS EnvelopeCache, RolloutPipeline, Maal, CohortRollout, Rollback, SequenceProofs

-----------------------------------------------------------------------------
(* The cache, for any callers and envelopes.                               *)

Operation == {"query", "fill", "upsert", "drop"}

Activity == {Nobody} \cup [op : Operation, id : Envelope, version : Nat]

EnvelopeTypeOK ==
  /\ table \in [Envelope -> Nat]
  /\ cache \in [Envelope -> Nat]
  /\ doing \in [Caller -> Activity]
  /\ overlapped \in SUBSET Envelope
  /\ adrift \in [Envelope -> Nat]
  /\ undropped \in SUBSET Envelope

\* What a load is about to put into the cache is the row of the table, unless
\* an upsert wrote it since.
FillCurrent ==
  \A c \in Caller : doing[c].op = "fill" =>
    LET e == doing[c].id IN
    doing[c].version <= table[e] /\ (doing[c].version = table[e] \/ e \in overlapped)

EnvelopeInv == EnvelopeTypeOK /\ FillCurrent /\ StaleHasCause

\* A caller that is at something is at it for an envelope.
LEMMA ActivityType ==
  ASSUME EnvelopeTypeOK, NEW c \in Caller, doing[c].op \in Operation
  PROVE  doing[c] \in [op : Operation, id : Envelope, version : Nat] /\ doing[c] # Nobody
<1>1. doing[c] \in Activity
  BY DEF EnvelopeTypeOK
<1>2. doing[c] # Nobody
  BY DEF Nobody, Operation
<1> QED BY <1>1, <1>2 DEF Activity

\* A caller that starts, and one that ends with nothing to drop, leave the
\* upserts that have still to drop an entry where they are.
LEMMA DropsKept ==
  ASSUME EnvelopeTypeOK, NEW c \in Caller, doing[c].op # "drop",
         \A d \in Caller : d # c => doing'[d] = doing[d], NEW e \in Envelope, Doing("drop", e)
  PROVE  Doing("drop", e)'
  BY DEF Doing

\* A write of e leaves what is about to fill the cache, and what the cache holds, with a
\* cause, when the entry of e is to be dropped or noted as not dropped.
LEMMA WriteKept ==
  ASSUME EnvelopeInv, NEW e \in Envelope, Written(e), UNCHANGED cache,
         doing' \in [Caller -> Activity], adrift' \in [Envelope -> Nat],
         undropped' \in SUBSET Envelope, undropped \subseteq undropped',
         \A d \in Caller : doing'[d].op = "fill" => doing'[d] = doing[d],
         \A f \in Envelope : f # e /\ Doing("drop", f) => Doing("drop", f)',
         Doing("drop", e)' \/ e \in undropped'
  PROVE  EnvelopeInv'
<1>1. /\ table' = [table EXCEPT ![e] = @ + 1]
      /\ overlapped' = IF Doing("fill", e) THEN overlapped \union {e} ELSE overlapped
  BY DEF Written
<1>2. EnvelopeTypeOK'
  BY <1>1 DEF EnvelopeInv, EnvelopeTypeOK
<1>3. /\ table'[e] = table[e] + 1
      /\ \A f \in Envelope : f # e => table'[f] = table[f]
      /\ overlapped \subseteq overlapped'
  BY <1>1 DEF EnvelopeInv, EnvelopeTypeOK
<1>4. ASSUME NEW d \in Caller, doing'[d].op = "fill"
      PROVE  /\ doing'[d].version <= table'[doing'[d].id]
             /\ doing'[d].version = table'[doing'[d].id] \/ doing'[d].id \in overlapped'
  <2>1. doing'[d] = doing[d]
    BY <1>4
  <2>2. doing[d].id \in Envelope /\ doing[d].version \in Nat
    BY <1>4, <2>1, ActivityType DEF EnvelopeInv, Operation
  <2>3. CASE doing[d].id = e
    <3>1. e \in overlapped'
      BY <1>1, <1>4, <2>1, <2>3 DEF Doing
    <3> QED BY <1>3, <1>4, <2>1, <2>2, <2>3, <3>1 DEF EnvelopeInv, EnvelopeTypeOK, FillCurrent
  <2>4. CASE doing[d].id # e
    BY <1>3, <1>4, <2>1, <2>2, <2>4 DEF EnvelopeInv, FillCurrent
  <2> QED BY <2>3, <2>4
<1>5. ASSUME NEW f \in Envelope
      PROVE  /\ cache'[f] <= table'[f]
             /\ cache'[f] \notin {0, table'[f]} =>
                  Doing("drop", f)' \/ f \in overlapped' \/ f \in undropped'
  <2>1. CASE f = e
    BY <1>3, <2>1 DEF EnvelopeInv, EnvelopeTypeOK, StaleHasCause
  <2>2. CASE f # e
    BY <1>3, <2>2 DEF EnvelopeInv, EnvelopeTypeOK, StaleHasCause
  <2> QED BY <2>1, <2>2
<1> QED BY <1>2, <1>4, <1>5 DEF EnvelopeInv, FillCurrent, StaleHasCause

\* The invariant is inductive.
LEMMA EnvelopeStep == EnvelopeInv /\ [EnvelopeNext]_envelopeVars => EnvelopeInv'
<1> SUFFICES ASSUME EnvelopeInv, [EnvelopeNext]_envelopeVars PROVE EnvelopeInv'
  OBVIOUS
<1>1. CASE UNCHANGED envelopeVars
  BY <1>1 DEF envelopeVars, EnvelopeInv, EnvelopeTypeOK, FillCurrent, StaleHasCause, Doing
<1>2. CASE ClearCache
  BY <1>2 DEF ClearCache, EnvelopeInv, EnvelopeTypeOK, FillCurrent, StaleHasCause, Doing
<1>3. ASSUME NEW c \in Caller, NEW e \in Envelope,
             LoadEnvelope(c, e) \/ RefreshEnvelope(c, e) \/ UpsertEnvelope(c, e)
      PROVE  EnvelopeInv'
  <2>1. PICK op \in {"query", "upsert"} :
          doing' = [doing EXCEPT ![c] = [op |-> op, id |-> e, version |-> 0]]
    BY <1>3 DEF LoadEnvelope, RefreshEnvelope, UpsertEnvelope
  <2>2. doing[c].op = "none" /\ UNCHANGED <<table, overlapped, adrift>>
    BY <1>3 DEF LoadEnvelope, RefreshEnvelope, UpsertEnvelope, Nobody
  <2>3. /\ cache' \in [Envelope -> Nat] /\ undropped' \in SUBSET Envelope
        /\ \A f \in Envelope : cache'[f] = 0 \/ (cache'[f] = cache[f] /\ (f \in undropped => f \in undropped'))
    BY <1>3 DEF LoadEnvelope, RefreshEnvelope, UpsertEnvelope, EnvelopeInv, EnvelopeTypeOK
  <2>4. EnvelopeTypeOK'
    BY <2>1, <2>2, <2>3 DEF EnvelopeInv, EnvelopeTypeOK, Activity, Operation
  <2>5. \A d \in Caller : d # c => doing'[d] = doing[d]
    BY <2>1 DEF EnvelopeInv, EnvelopeTypeOK
  <2>6. FillCurrent'
    <3>1. doing'[c].op # "fill"
      BY <2>1 DEF EnvelopeInv, EnvelopeTypeOK
    <3> QED BY <2>2, <2>5, <3>1 DEF EnvelopeInv, FillCurrent
  <2>7. StaleHasCause'
    BY <2>2, <2>3, <2>5, DropsKept DEF EnvelopeInv, EnvelopeTypeOK, StaleHasCause
  <2> QED BY <2>4, <2>6, <2>7 DEF EnvelopeInv
<1>4. ASSUME NEW c \in Caller, QueryRuns(c) PROVE EnvelopeInv'
  <2> DEFINE e == doing[c].id
  <2>1. doing[c] \in [op : Operation, id : Envelope, version : Nat] /\ doing[c].op = "query"
    BY <1>4, ActivityType DEF QueryRuns, EnvelopeInv, Operation
  <2>2. UNCHANGED <<table, cache, overlapped, adrift, undropped>>
    BY <1>4 DEF QueryRuns
  <2>3. \/ doing' = [doing EXCEPT ![c] = Nobody]
        \/ doing' = [doing EXCEPT ![c] = [op |-> "fill", id |-> e, version |-> table[e]]]
    BY <1>4, <2>1 DEF QueryRuns
  <2>4. EnvelopeTypeOK'
    BY <2>1, <2>2, <2>3 DEF EnvelopeInv, EnvelopeTypeOK, Activity, Operation
  <2>5. \A d \in Caller : d # c => doing'[d] = doing[d]
    BY <2>3 DEF EnvelopeInv, EnvelopeTypeOK
  <2>6. doing'[c].op = "fill" => doing'[c].id = e /\ doing'[c].version = table[e]
    BY <2>3 DEF EnvelopeInv, EnvelopeTypeOK, Nobody
  <2>7. FillCurrent'
    BY <2>1, <2>2, <2>5, <2>6 DEF EnvelopeInv, EnvelopeTypeOK, FillCurrent
  <2>8. StaleHasCause'
    BY <2>1, <2>2, <2>5, DropsKept DEF EnvelopeInv, StaleHasCause
  <2> QED BY <2>4, <2>7, <2>8 DEF EnvelopeInv
<1>5. ASSUME NEW c \in Caller, FillCache(c) PROVE EnvelopeInv'
  <2> DEFINE e == doing[c].id
  <2>1. doing[c] \in [op : Operation, id : Envelope, version : Nat] /\ doing[c].op = "fill"
    BY <1>5, ActivityType DEF FillCache, EnvelopeInv, Operation
  <2>2. /\ cache' = [cache EXCEPT ![e] = doing[c].version]
        /\ doing' = [doing EXCEPT ![c] = Nobody]
        /\ UNCHANGED <<table, overlapped, adrift, undropped>>
    BY <1>5 DEF FillCache
  <2>3. EnvelopeTypeOK'
    BY <2>1, <2>2 DEF EnvelopeInv, EnvelopeTypeOK, Activity
  <2>4. \A d \in Caller : d # c => doing'[d] = doing[d]
    BY <2>2 DEF EnvelopeInv, EnvelopeTypeOK
  <2>5. doing'[c].op = "none"
    BY <2>2 DEF EnvelopeInv, EnvelopeTypeOK, Nobody
  <2>6. FillCurrent'
    BY <2>2, <2>4, <2>5 DEF EnvelopeInv, FillCurrent
  <2>7. cache'[e] <= table[e] /\ (cache'[e] = table[e] \/ e \in overlapped)
    BY <2>1, <2>2 DEF EnvelopeInv, EnvelopeTypeOK, FillCurrent
  <2>8. \A f \in Envelope : f # e => cache'[f] = cache[f]
    BY <2>2 DEF EnvelopeInv, EnvelopeTypeOK
  <2>9. StaleHasCause'
    BY <2>1, <2>2, <2>4, <2>7, <2>8, DropsKept DEF EnvelopeInv, StaleHasCause
  <2> QED BY <2>3, <2>6, <2>9 DEF EnvelopeInv
<1>6. ASSUME NEW c \in Caller, UpsertRuns(c) PROVE EnvelopeInv'
  <2> DEFINE e == doing[c].id
  <2>1. doing[c] \in [op : Operation, id : Envelope, version : Nat] /\ doing[c].op = "upsert"
    BY <1>6, ActivityType DEF UpsertRuns, EnvelopeInv, Operation
  <2>2. Written(e) /\ doing' = [doing EXCEPT ![c].op = "drop"] /\ UNCHANGED <<cache, adrift, undropped>>
    BY <1>6 DEF UpsertRuns
  <2>3. doing'[c] = [op |-> "drop", id |-> e, version |-> doing[c].version]
    BY <2>1, <2>2 DEF EnvelopeInv, EnvelopeTypeOK
  <2>4. \A d \in Caller : d # c => doing'[d] = doing[d]
    BY <2>2 DEF EnvelopeInv, EnvelopeTypeOK
  <2>5. doing' \in [Caller -> Activity]
    BY <2>1, <2>2, <2>3, <2>4 DEF EnvelopeInv, EnvelopeTypeOK, Activity, Operation
  <2>6. \A f \in Envelope : f # e /\ Doing("drop", f) => Doing("drop", f)'
    BY <2>1, <2>4 DEF Doing
  <2>7. Doing("drop", e)'
    BY <2>3 DEF Doing
  <2>8. \A d \in Caller : doing'[d].op = "fill" => doing'[d] = doing[d]
    BY <2>3, <2>4
  <2> QED BY <2>1, <2>2, <2>5, <2>6, <2>7, <2>8, WriteKept DEF EnvelopeInv, EnvelopeTypeOK
<1>7. ASSUME NEW c \in Caller, QueryFails(c) PROVE EnvelopeInv'
  <2> DEFINE e == doing[c].id
  <2>1. /\ doing' = [doing EXCEPT ![c] = Nobody] /\ UNCHANGED <<table, cache, overlapped, adrift>>
        /\ undropped' = IF doing[c].op = "drop" THEN undropped \union {e} ELSE undropped
        /\ doing[c].op \in Operation
    BY <1>7 DEF QueryFails, Operation
  <2>2. \A d \in Caller : d # c => doing'[d] = doing[d]
    BY <2>1 DEF EnvelopeInv, EnvelopeTypeOK
  <2>3. doing'[c].op = "none"
    BY <2>1 DEF EnvelopeInv, EnvelopeTypeOK, Nobody
  <2>4. e \in Envelope
    BY <2>1, ActivityType DEF EnvelopeInv
  <2>5. EnvelopeTypeOK'
    BY <2>1, <2>4 DEF EnvelopeInv, EnvelopeTypeOK, Activity
  <2>6. FillCurrent'
    BY <2>1, <2>2, <2>3 DEF EnvelopeInv, FillCurrent
  <2>7. \A f \in Envelope : Doing("drop", f) => Doing("drop", f)' \/ f \in undropped'
    BY <2>1, <2>2 DEF Doing
  <2>8. StaleHasCause'
    BY <2>1, <2>7 DEF EnvelopeInv, StaleHasCause
  <2> QED BY <2>5, <2>6, <2>8 DEF EnvelopeInv
<1>8. ASSUME NEW c \in Caller, UpsertDrifts(c) PROVE EnvelopeInv'
  <2> DEFINE e == doing[c].id
  <2>1. /\ doing' = [doing EXCEPT ![c] = Nobody] /\ UNCHANGED <<table, cache, overlapped, undropped>>
        /\ adrift' = [adrift EXCEPT ![e] = @ + 1] /\ doing[c].op = "upsert"
    BY <1>8 DEF UpsertDrifts
  <2>2. \A d \in Caller : d # c => doing'[d] = doing[d]
    BY <2>1 DEF EnvelopeInv, EnvelopeTypeOK
  <2>3. doing'[c].op = "none"
    BY <2>1 DEF EnvelopeInv, EnvelopeTypeOK, Nobody
  <2>4. EnvelopeTypeOK'
    <3>1. e \in Envelope
      BY <2>1, ActivityType DEF EnvelopeInv, Operation
    <3> QED BY <2>1, <3>1 DEF EnvelopeInv, EnvelopeTypeOK, Activity
  <2>5. FillCurrent'
    BY <2>1, <2>2, <2>3 DEF EnvelopeInv, FillCurrent
  <2>6. StaleHasCause'
    BY <2>1, <2>2, DropsKept DEF EnvelopeInv, StaleHasCause
  <2> QED BY <2>4, <2>5, <2>6 DEF EnvelopeInv
<1>9. ASSUME NEW e \in Envelope, AdriftRuns(e) PROVE EnvelopeInv'
  <2>1. /\ Written(e) /\ UNCHANGED <<cache, doing>> /\ adrift[e] > 0
        /\ adrift' = [adrift EXCEPT ![e] = @ - 1] /\ undropped' = undropped \union {e}
    BY <1>9 DEF AdriftRuns
  <2>2. adrift' \in [Envelope -> Nat] /\ undropped' \in SUBSET Envelope
    BY <2>1 DEF EnvelopeInv, EnvelopeTypeOK
  <2>3. \A f \in Envelope : Doing("drop", f) => Doing("drop", f)'
    BY <2>1 DEF Doing
  <2> QED BY <2>1, <2>2, <2>3, WriteKept DEF EnvelopeInv, EnvelopeTypeOK
<1>10. ASSUME NEW c \in Caller, DropEntry(c) PROVE EnvelopeInv'
  <2> DEFINE e == doing[c].id
  <2>1. doing[c] \in [op : Operation, id : Envelope, version : Nat]
    BY <1>10, ActivityType DEF DropEntry, EnvelopeInv, Operation
  <2>2. /\ cache' = [cache EXCEPT ![e] = 0] /\ undropped' = undropped \ {e}
        /\ doing' = [doing EXCEPT ![c] = Nobody]
        /\ UNCHANGED <<table, overlapped, adrift>>
    BY <1>10 DEF DropEntry
  <2>3. EnvelopeTypeOK'
    BY <2>1, <2>2 DEF EnvelopeInv, EnvelopeTypeOK, Activity
  <2>4. \A d \in Caller : d # c => doing'[d] = doing[d]
    BY <2>2 DEF EnvelopeInv, EnvelopeTypeOK
  <2>5. doing'[c].op = "none"
    BY <2>2 DEF EnvelopeInv, EnvelopeTypeOK, Nobody
  <2>6. FillCurrent'
    BY <2>2, <2>4, <2>5 DEF EnvelopeInv, FillCurrent
  <2>7. cache'[e] = 0 /\ \A f \in Envelope : f # e => cache'[f] = cache[f]
    BY <2>1, <2>2 DEF EnvelopeInv, EnvelopeTypeOK
  <2>8. \A f \in Envelope : f # e /\ Doing("drop", f) => Doing("drop", f)'
    BY <2>4 DEF Doing
  <2>9. StaleHasCause'
    BY <2>1, <2>2, <2>7, <2>8 DEF EnvelopeInv, EnvelopeTypeOK, StaleHasCause
  <2> QED BY <2>3, <2>6, <2>9 DEF EnvelopeInv
<1> QED
  BY <1>1, <1>2, <1>3, <1>4, <1>5, <1>6, <1>7, <1>8, <1>9, <1>10 DEF EnvelopeNext

\* An old envelope stays in the cache only by one of the three causes: an upsert that has
\* still to drop it, a load that an upsert overlapped, an upsert whose answer was lost and
\* nothing dropped since; for any callers and envelopes (GovernanceEnvelopeCache.ts:26-109).
THEOREM Staleness == EnvelopeSpec => []StaleHasCause
<1>1. EnvelopeInit => EnvelopeInv
  BY DEF EnvelopeInit, EnvelopeInv, EnvelopeTypeOK, Activity, Nobody, FillCurrent, StaleHasCause
<1>2. EnvelopeInv => StaleHasCause
  BY DEF EnvelopeInv
<1> QED
  BY <1>1, <1>2, EnvelopeStep, PTL DEF EnvelopeSpec

-----------------------------------------------------------------------------
(* The pipeline, for any proposals and batches.                            *)

Entry == [proposal : PProposal, decision : RolloutDecision, flags : Flag, known : BOOLEAN]

PipelineTypeOK ==
  /\ variants \subseteq PProposal
  /\ pipelineState \in [variants -> [count : Nat, status : {"variant_created", "assigned"}]]
  /\ rolloutLog \in Seq(Range(rolloutLog))
  /\ decisionLog \in Seq(Entry)
  /\ DOMAIN captured \subseteq PProposal /\ captured = [q \in DOMAIN captured |-> captured[q]]

\* The names of a batch are a sequence.
LEMMA NamedSequence ==
  ASSUME NEW batch \in Batch
  PROVE  /\ Named(batch) \in Seq(Range(Named(batch)))
         /\ Len(Named(batch)) \in Nat /\ DOMAIN Named(batch) = 1..Len(Named(batch))
<1> DEFINE kept == {i \in DOMAIN batch : batch[i] # Blank}
           n == Cardinality(kept)
<1>1. n \in Nat
  <2>1. batch \in Seq(Range(batch))
    BY PipelineConstants
  <2>2. DOMAIN batch = 1..Len(batch) /\ Len(batch) \in Nat
    BY <2>1
  <2>3. IsFiniteSet(1..Len(batch))
    BY <2>2, FS_Interval
  <2>4. kept \in SUBSET (1..Len(batch))
    BY <2>2
  <2> QED BY <2>3, <2>4, FS_Subset, FS_CardinalityType
<1>2. DOMAIN Named(batch) = 1..n /\ Named(batch) = [m \in 1..n |-> Named(batch)[m]]
  BY DEF Named
<1> HIDE DEF n
<1>3. Named(batch) \in [1..n -> Range(Named(batch))]
  BY <1>2 DEF Range
<1> QED BY <1>1, <1>3, SeqDef

\* A sequence is one over its own elements.
LEMMA OwnRange ==
  ASSUME NEW S, NEW u \in Seq(S)
  PROVE  u \in Seq(Range(u))
<1>1. u \in [1..Len(u) -> S] /\ Len(u) \in Nat
  OBVIOUS
<1>2. u \in [1..Len(u) -> Range(u)]
  BY <1>1 DEF Range
<1> QED BY <1>1, <1>2, SeqDef

\* What is appended to a log, and how many entries of one kind it then has.
LEMMA LogAppended ==
  ASSUME NEW s, s \in Seq(Range(s)), NEW t, t \in Seq(Range(t))
  PROVE  /\ s \o t \in Seq(Range(s \o t))
         /\ DOMAIN (s \o t) = 1..(Len(s) + Len(t)) /\ DOMAIN s = 1..Len(s) /\ DOMAIN t = 1..Len(t)
         /\ Len(s) \in Nat /\ Len(t) \in Nat
         /\ \A i \in 1..Len(s) : (s \o t)[i] = s[i]
         /\ \A i \in 1..Len(t) : (s \o t)[Len(s) + i] = t[i]
<1>1. PICK A : s \in Seq(A)
  OBVIOUS
<1>2. PICK B : t \in Seq(B)
  OBVIOUS
<1>3. s \in Seq(A \cup B) /\ t \in Seq(A \cup B)
  BY <1>1, <1>2, SeqDef
<1>4. s \o t \in Seq(A \cup B)
  BY <1>3, ConcatProperties
<1>5. s \o t \in Seq(Range(s \o t))
  BY <1>4, OwnRange
<1>6. /\ DOMAIN (s \o t) = 1..(Len(s) + Len(t)) /\ DOMAIN s = 1..Len(s) /\ DOMAIN t = 1..Len(t)
      /\ Len(s) \in Nat /\ Len(t) \in Nat
  BY <1>3, ConcatProperties
<1>7. /\ \A i \in 1..Len(s) : (s \o t)[i] = s[i]
      /\ \A i \in 1..Len(t) : (s \o t)[Len(s) + i] = t[i]
  BY <1>3
<1> QED BY <1>5, <1>6, <1>7

\* A sequence on which a count of entries grows by those appended.
LEMMA EntriesAdded ==
  ASSUME PipelineTypeOK, NEW p \in PProposal, NEW new, new \in Seq(Range(new)),
         \A i \in DOMAIN new : new[i].proposal = p, rolloutLog' = rolloutLog \o new
  PROVE  /\ \A q : q # p => EntriesOf(q)' = EntriesOf(q)
         /\ Cardinality(EntriesOf(p)') = Cardinality(EntriesOf(p)) + Len(new)
         /\ new # <<>> => EntriesOf(p)' # {}
<1> DEFINE n == Len(rolloutLog)
           added == (n + 1)..(n + Len(new))
<1>1. /\ DOMAIN rolloutLog' = 1..(n + Len(new)) /\ DOMAIN rolloutLog = 1..n
      /\ DOMAIN new = 1..Len(new) /\ n \in Nat /\ Len(new) \in Nat
      /\ \A i \in 1..n : rolloutLog'[i] = rolloutLog[i]
      /\ \A i \in 1..Len(new) : rolloutLog'[n + i] = new[i]
  BY LogAppended, SMTT(90) DEF PipelineTypeOK
<1> HIDE DEF n
<1>2. \A i \in added : i \in DOMAIN rolloutLog' /\ rolloutLog'[i].proposal = p /\ i \notin 1..n
  <2> TAKE i \in added
  <2>1. i - n \in 1..Len(new) /\ i = n + (i - n)
    BY <1>1
  <2>2. rolloutLog'[i] = new[i - n] /\ new[i - n].proposal = p
    BY <1>1, <2>1
  <2> QED BY <1>1, <2>2
<1>3. \A i \in DOMAIN rolloutLog' : i \in 1..n \/ i \in added
  BY <1>1
<1>4. \A i \in 1..n : i \in DOMAIN rolloutLog'
  BY <1>1
<1>5. EntriesOf(p)' = EntriesOf(p) \cup added /\ EntriesOf(p) \cap added = {}
  BY <1>1, <1>2, <1>3, <1>4, SMTT(90) DEF EntriesOf
<1>6. \A q : q # p => EntriesOf(q)' = EntriesOf(q)
  BY <1>1, <1>2, <1>3, <1>4, SMTT(90) DEF EntriesOf
<1>7. IsFiniteSet(EntriesOf(p)) /\ IsFiniteSet(added) /\ Cardinality(added) = Len(new)
  <2>1. IsFiniteSet(1..n)
    BY <1>1, FS_Interval
  <2>2. EntriesOf(p) \in SUBSET (1..n)
    BY <1>1 DEF EntriesOf
  <2>3. IsFiniteSet(EntriesOf(p))
    BY <2>1, <2>2, FS_Subset
  <2>4. PICK lo \in Int, hi \in Int : lo = n + 1 /\ hi = n + Len(new)
    BY <1>1
  <2>5. IsFiniteSet(lo..hi) /\ Cardinality(lo..hi) = IF lo > hi THEN 0 ELSE hi - lo + 1
    BY FS_Interval
  <2>6. Cardinality(lo..hi) = Len(new)
    BY <1>1, <2>4, <2>5
  <2> QED BY <2>3, <2>4, <2>5, <2>6
<1>8. Cardinality(EntriesOf(p) \cup added)
        = Cardinality(EntriesOf(p)) + Cardinality(added) - Cardinality(EntriesOf(p) \cap added)
  BY <1>7, FS_Union
<1>9. Cardinality(EntriesOf(p)') = Cardinality(EntriesOf(p)) + Len(new)
  <2>1. Cardinality(EntriesOf(p)) \in Nat
    BY <1>7, FS_CardinalityType
  <2>2. Cardinality(EntriesOf(p) \cap added) = 0
    BY <1>5, FS_EmptySet
  <2>3. Cardinality(EntriesOf(p)') = Cardinality(EntriesOf(p) \cup added)
    BY <1>5
  <2> QED BY <1>1, <1>7, <1>8, <2>1, <2>2, <2>3
<1>10. new # <<>> => n + 1 \in added
  BY <1>1
<1> QED BY <1>5, <1>6, <1>9, <1>10

(* What the pipeline keeps of a proposal says what its logs hold: its count,  *)
(* its lineage and the snapshot to go back to (multi-cohort-rollout-          *)
(* pipeline.ts:325-388, 463-492), for any batches and in any order of calls.  *)
THEOREM LogsMatched == PipelineSpec => []StateMatchesLogs
<1> DEFINE PipelineInv == PipelineTypeOK /\ StateMatchesLogs
<1>1. PipelineInit => PipelineInv
  <2> SUFFICES ASSUME PipelineInit PROVE PipelineInv
    OBVIOUS
  <2>1. PipelineTypeOK
    BY DEF PipelineInit, PipelineTypeOK, Range
  <2>2. StateMatchesLogs
    BY DEF PipelineInit, StateMatchesLogs, Promotions
  <2> QED BY <2>1, <2>2
<1>2. PipelineInv /\ [PipelineNext]_pipelineVars => PipelineInv'
  <2> SUFFICES ASSUME PipelineInv, [PipelineNext]_pipelineVars PROVE PipelineInv'
    OBVIOUS
  <2>1. CASE UNCHANGED <<variants, rolloutLog, pipelineState, captured, decisionLog>>
    <3>1. PipelineTypeOK'
      BY <2>1 DEF PipelineTypeOK
    <3>2. \A q : /\ EntriesOf(q)' = EntriesOf(q) /\ Promotions(q)' = Promotions(q)
                 /\ ValidateLineage(q)' <=> ValidateLineage(q)
      BY <2>1 DEF EntriesOf, Promotions, ValidateLineage
    <3>3. StateMatchesLogs'
      BY <2>1, <3>2 DEF StateMatchesLogs
    <3> QED BY <3>1, <3>3
  <2>2. ASSUME NEW p \in PProposal, ConvertProposalToVariant(p) PROVE PipelineInv'
    <3>1. /\ p \notin variants /\ variants' = variants \cup {p}
          /\ UNCHANGED <<rolloutLog, captured, decisionLog>>
          /\ pipelineState' = [q \in DOMAIN pipelineState \cup {p} |->
                                 IF q = p THEN [count |-> 0, status |-> "variant_created"]
                                          ELSE pipelineState[q]]
      BY <2>2 DEF ConvertProposalToVariant
    <3>2. DOMAIN pipelineState = variants
      BY DEF PipelineTypeOK
    <3>3. /\ DOMAIN pipelineState' = variants' /\ pipelineState'[p].count = 0
          /\ pipelineState'[p].status = "variant_created"
          /\ \A q \in variants : pipelineState'[q] = pipelineState[q]
      BY <3>1, <3>2
    <3>4. PipelineTypeOK'
      BY <3>1, <3>2 DEF PipelineTypeOK
    <3>5. EntriesOf(p) = {} /\ ~ ValidateLineage(p)'
      BY <3>1 DEF StateMatchesLogs, EntriesOf, ValidateLineage
    <3>6. \A q : EntriesOf(q)' = EntriesOf(q) /\ Promotions(q)' = Promotions(q)
      BY <3>1 DEF EntriesOf, Promotions
    <3>7. \A q \in variants : ValidateLineage(q)' <=> ValidateLineage(q)
      BY <3>1 DEF ValidateLineage
    <3>8. StateMatchesLogs'
      BY <3>1, <3>3, <3>5, <3>6, <3>7, FS_EmptySet, ZenonT(90) DEF StateMatchesLogs
    <3> QED BY <3>4, <3>8
  <2>3. ASSUME NEW p \in PProposal, NEW v \in PProposal, NEW batch \in Batch,
               BatchAllocate(p, v, batch) PROVE PipelineInv'
    <3>1. PICK named : named = Named(batch)
      OBVIOUS
    <3> DEFINE list == [i \in DOMAIN named |-> [proposal |-> p, user |-> named[i]]]
    <3>2. /\ p \in variants /\ named # <<>> /\ rolloutLog' = rolloutLog \o list
          /\ pipelineState' = [pipelineState EXCEPT ![p].count = @ + Len(named), ![p].status = "assigned"]
          /\ UNCHANGED <<variants, captured, decisionLog>>
      BY <2>3, <3>1 DEF BatchAllocate
    <3>3. Len(named) \in Nat /\ DOMAIN named = 1..Len(named)
      BY <3>1, NamedSequence
    <3>4. PICK new : /\ rolloutLog' = rolloutLog \o new
                     /\ new \in Seq(Range(new)) /\ Len(new) = Len(named) /\ new # <<>>
                     /\ \A i \in DOMAIN new : new[i].proposal = p
      <4>1. DOMAIN list = 1..Len(named) /\ \A i \in DOMAIN list : list[i].proposal = p
        BY <3>3
      <4>2. list = [i \in 1..Len(named) |-> list[i]]
        BY <3>3
      <4> HIDE DEF list
      <4>3. list \in [1..Len(named) -> Range(list)]
        BY <4>1, <4>2 DEF Range
      <4>4. list \in Seq(Range(list))
        BY <3>3, <4>3, SeqDef
      <4>5. Len(list) = Len(named)
        BY <3>3, <4>1, <4>4
      <4>6. Len(named) # 0
        BY <3>1, <3>2, <3>3, NamedSequence
      <4>7. list # <<>>
        BY <4>5, <4>6
      <4> QED BY <3>2, <4>1, <4>4, <4>5, <4>7, Zenon
    <3>5. /\ \A q : q # p => EntriesOf(q)' = EntriesOf(q)
          /\ Cardinality(EntriesOf(p)') = Cardinality(EntriesOf(p)) + Len(named)
          /\ EntriesOf(p)' # {}
      <4>1. PipelineTypeOK
        OBVIOUS
      <4>2. /\ \A q : q # p => EntriesOf(q)' = EntriesOf(q)
            /\ Cardinality(EntriesOf(p)') = Cardinality(EntriesOf(p)) + Len(new)
            /\ new # <<>> => EntriesOf(p)' # {}
        BY ONLY <3>4, <4>1, p \in PProposal, EntriesAdded
      <4> QED BY <3>4, <4>2
    <3>6. /\ DOMAIN rolloutLog' = 1..(Len(rolloutLog) + Len(new)) /\ rolloutLog' \in Seq(Range(rolloutLog'))
          /\ \A i \in DOMAIN rolloutLog' : rolloutLog'[i].proposal \in variants
      <4>1. /\ rolloutLog \o new \in Seq(Range(rolloutLog \o new))
            /\ DOMAIN (rolloutLog \o new) = 1..(Len(rolloutLog) + Len(new))
            /\ DOMAIN rolloutLog = 1..Len(rolloutLog) /\ DOMAIN new = 1..Len(new)
            /\ Len(rolloutLog) \in Nat /\ Len(new) \in Nat
            /\ \A i \in 1..Len(rolloutLog) : (rolloutLog \o new)[i] = rolloutLog[i]
            /\ \A i \in 1..Len(new) : (rolloutLog \o new)[Len(rolloutLog) + i] = new[i]
        <5>1. rolloutLog \in Seq(Range(rolloutLog))
          BY DEF PipelineTypeOK
        <5>2. new \in Seq(Range(new))
          BY <3>4
        <5> QED BY ONLY <5>1, <5>2, LogAppended
      <4>2. ASSUME NEW i \in 1..(Len(rolloutLog) + Len(new)) PROVE rolloutLog'[i].proposal \in variants
        <5>1. CASE i \in 1..Len(rolloutLog)
          BY <3>4, <4>1, <5>1, ZenonT(90) DEF StateMatchesLogs
        <5>2. CASE i \notin 1..Len(rolloutLog)
          <6>1. i - Len(rolloutLog) \in 1..Len(new) /\ i = Len(rolloutLog) + (i - Len(rolloutLog))
            BY <4>1, <4>2, <5>2
          <6>2. rolloutLog'[i] = new[i - Len(rolloutLog)]
            BY <3>4, <4>1, <6>1, SMTT(90)
          <6> QED BY <3>2, <3>4, <4>1, <6>1, <6>2, ZenonT(90)
        <5> QED BY <5>1, <5>2
      <4> QED BY <3>4, <4>1, <4>2
    <3>7. PipelineTypeOK'
      <4>1. pipelineState' \in [variants -> [count : Nat, status : {"variant_created", "assigned"}]]
        <5>1. PICK r \in [count : Nat, status : {"variant_created", "assigned"}] : r = pipelineState[p]
          BY <3>2 DEF PipelineTypeOK
        <5>2. PICK n \in Nat : n = r.count + Len(named)
          BY <3>3
        <5>3. [r EXCEPT !.count = n, !.status = "assigned"]
                \in [count : Nat, status : {"variant_created", "assigned"}]
          BY ONLY r \in [count : Nat, status : {"variant_created", "assigned"}], n \in Nat
        <5>4. pipelineState' = [pipelineState EXCEPT ![p] = [r EXCEPT !.count = n, !.status = "assigned"]]
          BY <3>2, <5>1, <5>2 DEF PipelineTypeOK
        <5> QED BY <5>3, <5>4 DEF PipelineTypeOK
      <4> QED BY <3>2, <3>6, <4>1, SMTT(90) DEF PipelineTypeOK
    <3>8. \A q \in variants : ValidateLineage(q) <=> EntriesOf(q) # {}
      BY DEF ValidateLineage, EntriesOf
    <3>9. \A q \in variants : ValidateLineage(q)' <=> EntriesOf(q)' # {}
      BY <3>2 DEF ValidateLineage, EntriesOf
    <3>10. /\ pipelineState'[p].count = pipelineState[p].count + Len(named)
           /\ pipelineState'[p].status = "assigned" /\ DOMAIN pipelineState' = variants
           /\ \A q \in variants : q # p => pipelineState'[q] = pipelineState[q]
      BY <3>2 DEF PipelineTypeOK
    <3>11. \A q : Promotions(q)' = Promotions(q)
      BY <3>2 DEF Promotions
    <3>12. ASSUME NEW q \in variants
           PROVE  /\ pipelineState'[q].count = Cardinality(EntriesOf(q)')
                  /\ ValidateLineage(q)' <=> pipelineState'[q].status = "assigned"
      <4>1. pipelineState[q].count = Cardinality(EntriesOf(q))
            /\ (ValidateLineage(q) <=> pipelineState[q].status = "assigned")
        BY DEF StateMatchesLogs
      <4>2. CASE q = p
        BY <3>5, <3>9, <3>10, <4>1, <4>2
      <4>3. CASE q # p
        BY <3>5, <3>8, <3>9, <3>10, <4>1, <4>3, SMTT(90)
      <4> QED BY <4>2, <4>3
    <3>13. StateMatchesLogs'
      BY <3>2, <3>6, <3>10, <3>11, <3>12, SMTT(90) DEF StateMatchesLogs
    <3> QED BY <3>7, <3>13
  <2>4. ASSUME NEW p \in PProposal, NEW decision \in RolloutDecision, NEW flags \in Flag,
               RecordRolloutDecision(p, decision, flags) PROVE PipelineInv'
    <3> DEFINE known == p \in variants
               config == IF known THEN p ELSE Unset
    <3>1. PICK e \in Entry : e = [proposal |-> p, decision |-> decision, flags |-> flags, known |-> known]
      <4>1. ASSUME NEW b \in BOOLEAN PROVE [proposal |-> p, decision |-> decision, flags |-> flags, known |-> b] \in Entry
        BY DEF Entry
      <4>2. known \in BOOLEAN
        OBVIOUS
      <4> QED BY <4>1, <4>2, Zenon
    <3>2. UNCHANGED <<variants, rolloutLog, pipelineState>> /\ decisionLog' = Append(decisionLog, e)
      BY <2>4, <3>1 DEF RecordRolloutDecision
    <3>3. IF decision \in Promotion
            THEN captured' = [q \in DOMAIN captured \cup {p} |->
                               IF q = p THEN [config |-> config, flags |-> flags] ELSE captured[q]]
            ELSE captured' = captured
      BY <2>4 DEF RecordRolloutDecision, Capture
    <3>4. /\ decisionLog \in Seq(Entry) /\ decisionLog' \in Seq(Entry)
          /\ Len(decisionLog) \in Nat /\ DOMAIN decisionLog = 1..Len(decisionLog)
          /\ DOMAIN decisionLog' = 1..(Len(decisionLog) + 1)
          /\ \A i \in 1..Len(decisionLog) : decisionLog'[i] = decisionLog[i]
          /\ decisionLog'[Len(decisionLog) + 1] = e
      BY <3>1, <3>2 DEF PipelineTypeOK
    <3>5. e.proposal = p /\ e.decision = decision /\ e.flags = flags /\ (e.known <=> known)
      BY <3>1
    <3>6. PipelineTypeOK'
      BY <3>2, <3>3, <3>4 DEF PipelineTypeOK
    <3>7. \A q : (EntriesOf(q)' = EntriesOf(q)) /\ (ValidateLineage(q)' <=> ValidateLineage(q))
      BY <3>2 DEF EntriesOf, ValidateLineage
    <3>8. ASSUME NEW q \in PProposal, q # p \/ decision \notin Promotion
          PROVE  /\ Promotions(q)' = Promotions(q)
                 /\ \A i \in Promotions(q) : decisionLog'[i] = decisionLog[i]
                 /\ q \in DOMAIN captured' <=> q \in DOMAIN captured
                 /\ q \in DOMAIN captured => captured'[q] = captured[q]
      BY <3>3, <3>4, <3>5, <3>8 DEF Promotions
    <3>9. ASSUME decision \in Promotion
          PROVE  /\ p \in DOMAIN captured' /\ captured'[p] = [config |-> config, flags |-> flags]
                 /\ Len(decisionLog) + 1 \in Promotions(p)'
                 /\ \A i \in Promotions(p)' : i <= Len(decisionLog) + 1
      BY <3>3, <3>4, <3>5, <3>9 DEF Promotions
    <3>10. ASSUME NEW q \in PProposal
           PROVE  /\ Promotions(q)' # {} <=> q \in DOMAIN captured'
                  /\ \A i \in Promotions(q)' : (\A j \in Promotions(q)' : j <= i) =>
                       captured'[q] = [config |-> IF decisionLog'[i].known THEN q ELSE Unset,
                                       flags |-> decisionLog'[i].flags]
      <4>1. CASE q # p \/ decision \notin Promotion
        BY <3>8, <4>1 DEF StateMatchesLogs
      <4>2. CASE q = p /\ decision \in Promotion
        <5>1. ASSUME NEW i \in Promotions(p)', \A j \in Promotions(p)' : j <= i
              PROVE  i = Len(decisionLog) + 1
          <6>1. i \in Nat
            BY <3>4 DEF Promotions
          <6> QED BY <3>4, <3>9, <4>2, <5>1, <6>1
        <5>2. config = IF e.known THEN p ELSE Unset
          BY <3>5
        <5> QED BY <3>4, <3>5, <3>9, <4>2, <5>1, <5>2
      <4> QED BY <4>1, <4>2
    <3>11. StateMatchesLogs'
      BY <3>2, <3>7, <3>10 DEF StateMatchesLogs
    <3> QED BY <3>6, <3>11
  <2> QED BY <2>1, <2>2, <2>3, <2>4, ZenonT(90) DEF PipelineNext, Govern, pipelineVars
<1>3. PipelineInv => StateMatchesLogs
  OBVIOUS
<1> QED BY <1>1, <1>2, <1>3, PTL DEF PipelineSpec

-----------------------------------------------------------------------------
(* The cohorts, for any users, targets and metrics.                        *)

Assignment == [proposal : Proposal, user : User \cup {NoUser}, cohort : Cohort,
               size : Int, stage : Nat]
Progression == [assignment : Nat, from : Cohort, to : Cohort, stage : Nat]
Sentence == {"promote", "hold", "rollback"}
DecisionRecord == [assignment : Nat, cohort : Cohort, proposal : Proposal, decision : Sentence]

CohortTypeOK ==
  /\ cohorts \in Seq(Cohort)
  /\ \A m, n \in DOMAIN cohorts : cohorts[m] = cohorts[n] => m = n
  /\ assignments \in Seq(Assignment)
  /\ progressions \in Seq(Progression)
  /\ decisionList \in Seq(DecisionRecord)

Known(c) == c \in Cohort /\ \E n \in DOMAIN cohorts : cohorts[n] = c

\* A record of assignment i: it came from a cohort before the one i is in now, and it
\* goes on where the records before it ended.
Link(i, n) ==
  LET r == progressions[n]  earlier == {m \in Of(i) : m < n} IN
  /\ Known(r.from) /\ Known(r.to)
  /\ Precedes(r.from, r.to) /\ Precedes(r.from, assignments[i].cohort)
  /\ r.stage = Cardinality(earlier) + 1 /\ r.stage <= assignments[i].stage
  /\ r.stage = assignments[i].stage => r.to = assignments[i].cohort
  /\ \A m \in earlier : /\ progressions[m].stage = r.stage - 1 => r.from = progressions[m].to
                        /\ progressions[m].from # r.to

ChainInv(i) ==
  /\ Known(assignments[i].cohort)
  /\ Cardinality(Of(i)) = assignments[i].stage
  /\ \A n \in Of(i) : Link(i, n)

\* An assignment is still in the cohort of a decision about it, or has left it.
DecisionInv(j) ==
  LET d == decisionList[j] IN
  /\ d.assignment \in DOMAIN assignments /\ assignments[d.assignment].proposal = d.proposal
  /\ \/ assignments[d.assignment].cohort = d.cohort
     \/ \E n \in Of(d.assignment) : progressions[n].from = d.cohort

RolloutInv ==
  /\ CohortTypeOK
  /\ \A n \in DOMAIN progressions : progressions[n].assignment \in DOMAIN assignments
  /\ \A i \in DOMAIN assignments : ChainInv(i)
  /\ \A j \in DOMAIN decisionList : DecisionInv(j)

-----------------------------------------------------------------------------
(* The order of the cohorts.                                               *)

\* The place a cohort was registered at.
LEMMA PlaceOf ==
  ASSUME \A m, n \in DOMAIN cohorts : cohorts[m] = cohorts[n] => m = n,
         NEW n \in DOMAIN cohorts
  PROVE  Registration(cohorts[n]) = n
  BY DEF Registration

\* Cohorts are in a strict order.
LEMMA StrictOrder ==
  ASSUME CohortTypeOK, NEW c, NEW d, NEW e, Known(c), Known(d), Known(e)
  PROVE  /\ ~ Precedes(c, c)
         /\ Precedes(c, d) /\ Precedes(d, e) => Precedes(c, e)
         /\ Precedes(c, d) => c # d /\ CohortSize[c] <= CohortSize[d]
<1>1. \A x : Known(x) => Registration(x) \in Nat /\ CohortSize[x] \in Nat
  <2> SUFFICES ASSUME NEW x, Known(x) PROVE Registration(x) \in Nat /\ CohortSize[x] \in Nat
    OBVIOUS
  <2>1. PICK n \in DOMAIN cohorts : cohorts[n] = x
    BY DEF Known
  <2>2. n \in Nat
    BY DEF CohortTypeOK
  <2>3. Registration(x) = n
    BY <2>1, PlaceOf DEF CohortTypeOK
  <2>4. x \in Cohort /\ CohortSize \in [Cohort -> 1..1000]
    BY CohortConstants, Zenon DEF Known
  <2>5. CohortSize[x] \in 1..1000
    BY ONLY <2>4
  <2> QED BY ONLY <2>2, <2>3, <2>5, SMTT(90)
<1>2. /\ Registration(c) \in Nat /\ CohortSize[c] \in Nat
      /\ Registration(d) \in Nat /\ CohortSize[d] \in Nat
      /\ Registration(e) \in Nat /\ CohortSize[e] \in Nat
  BY <1>1
<1> QED BY ONLY <1>2 DEF Precedes

\* A registration changes nothing between the cohorts there are.
LEMMA OrderKept ==
  ASSUME CohortTypeOK, NEW k \in Cohort, k \notin ToSet(cohorts), cohorts' = Append(cohorts, k)
  PROVE  /\ cohorts' \in Seq(Cohort)
         /\ \A m, n \in DOMAIN cohorts' : cohorts'[m] = cohorts'[n] => m = n
         /\ \A c : Known(c) => Known(c)'
         /\ \A c, d : Known(c) /\ Known(d) => (Precedes(c, d)' <=> Precedes(c, d))
<1>1. /\ cohorts' \in Seq(Cohort) /\ DOMAIN cohorts' = DOMAIN cohorts \cup {Len(cohorts) + 1}
      /\ cohorts'[Len(cohorts) + 1] = k /\ \A n \in DOMAIN cohorts : cohorts'[n] = cohorts[n]
  BY Longer DEF CohortTypeOK
<1>2. \A n \in DOMAIN cohorts : cohorts[n] # k
  BY DEF ToSet
<1>3. \A m, n \in DOMAIN cohorts' : cohorts'[m] = cohorts'[n] => m = n
  BY <1>1, <1>2 DEF CohortTypeOK
<1>4. \A c : Known(c) => Known(c)'
  BY <1>1 DEF Known
<1>5. ASSUME NEW c, Known(c) PROVE Registration(c)' = Registration(c)
  <2>1. PICK n \in DOMAIN cohorts : cohorts[n] = c
    BY <1>5 DEF Known
  <2>2. Registration(c) = n
    BY <2>1, PlaceOf DEF CohortTypeOK
  <2>3. n \in DOMAIN cohorts' /\ cohorts'[n] = c
    BY <1>1, <2>1
  <2>4. Registration(c)' = n
    BY <1>3, <2>3 DEF Registration
  <2> QED BY <2>2, <2>4
<1>6. \A c, d : Known(c) /\ Known(d) => (Precedes(c, d)' <=> Precedes(c, d))
  BY <1>5 DEF Precedes
<1> QED BY <1>1, <1>3, <1>4, <1>6

-----------------------------------------------------------------------------
(* What the calls leave of the assignments and their log.                  *)

\* While neither the assignments nor the log change, nor the order of the cohorts,
\* every chain stays as it is.
LEMMA ChainsStay ==
  ASSUME CohortTypeOK, UNCHANGED <<assignments, progressions>>,
         \A c : Known(c) => Known(c)',
         \A c, d : Known(c) /\ Known(d) => (Precedes(c, d)' <=> Precedes(c, d)),
         NEW i \in DOMAIN assignments, ChainInv(i)
  PROVE  ChainInv(i)'
<1>1. Of(i)' = Of(i)
  BY DEF Of
<1>2. ASSUME NEW n \in Of(i) PROVE Link(i, n)'
  <2>1. Link(i, n) /\ Known(assignments[i].cohort)
    BY DEF ChainInv
  <2> QED BY <1>1, <2>1 DEF Link
<1> QED BY <1>1, <1>2 DEF ChainInv

\* A new assignment has no log.
LEMMA AssignmentAdded ==
  ASSUME CohortTypeOK, UNCHANGED <<cohorts, progressions>>, NEW a \in Assignment,
         assignments' = Append(assignments, a), Known(a.cohort), a.stage = 0,
         \A n \in DOMAIN progressions : progressions[n].assignment \in DOMAIN assignments,
         \A i \in DOMAIN assignments : ChainInv(i)
  PROVE  /\ assignments' \in Seq(Assignment)
         /\ DOMAIN assignments \subseteq DOMAIN assignments'
         /\ \A i \in DOMAIN assignments : assignments'[i] = assignments[i]
         /\ \A i \in DOMAIN assignments' : ChainInv(i)'
<1>0. PICK k \in Nat : k = Len(assignments) + 1
  BY DEF CohortTypeOK
<1>1. /\ assignments' \in Seq(Assignment) /\ DOMAIN assignments' = DOMAIN assignments \cup {k}
      /\ assignments'[k] = a /\ \A i \in DOMAIN assignments : assignments'[i] = assignments[i]
  BY <1>0, Longer, SMTT(90) DEF CohortTypeOK
<1>2. k \notin DOMAIN assignments
  BY <1>0 DEF CohortTypeOK
<1>3. \A c : Known(c)' <=> Known(c)
  BY DEF Known
<1>4. \A c, d : Precedes(c, d)' <=> Precedes(c, d)
  BY DEF Precedes, Registration
<1>5. \A i : Of(i)' = Of(i)
  BY DEF Of
<1>6. ASSUME NEW i \in DOMAIN assignments PROVE ChainInv(i)'
  <2>1. ChainInv(i) /\ assignments'[i] = assignments[i]
    BY <1>1
  <2>2. ASSUME NEW n \in Of(i) PROVE Link(i, n)'
    <3>1. Link(i, n)
      BY <2>1 DEF ChainInv
    <3> QED BY <1>3, <1>4, <1>5, <2>1, <3>1 DEF Link
  <2> QED BY <1>3, <1>5, <2>1, <2>2 DEF ChainInv
<1>7. ChainInv(k)'
  <2>1. Of(k)' = {}
    BY <1>2, <1>5 DEF Of
  <2>2. Cardinality(Of(k)') = 0
    BY ONLY <2>1, FS_EmptySet
  <2>3. assignments'[k].stage = 0 /\ Known(assignments'[k].cohort)
    BY <1>1
  <2>4. Known(assignments[k].cohort)'
    BY <1>1, <1>3
  <2> QED BY <2>1, <2>2, <2>3, <2>4 DEF ChainInv
<1> QED BY <1>1, <1>6, <1>7

\* Of an assignment that moves up, the log has one record more, and every link holds.
LEMMA AssignmentMoves ==
  ASSUME RolloutInv, NEW i \in DOMAIN assignments, Progress(i)
  PROVE  /\ assignments' \in Seq(Assignment) /\ progressions' \in Seq(Progression)
         /\ DOMAIN assignments' = DOMAIN assignments
         /\ \A j \in DOMAIN assignments : assignments'[j].proposal = assignments[j].proposal
         /\ \A j \in DOMAIN assignments : j # i => assignments'[j] = assignments[j]
         /\ \A n \in DOMAIN progressions' : progressions'[n].assignment \in DOMAIN assignments
         /\ DOMAIN progressions \subseteq DOMAIN progressions'
         /\ \A n \in DOMAIN progressions : progressions'[n] = progressions[n]
         /\ \E n \in Of(i)' : progressions'[n].from = assignments[i].cohort
         /\ \A j \in DOMAIN assignments : ChainInv(j)'
<1> DEFINE own == assignments[i]
<1>0. /\ own \in Assignment /\ i \in Nat /\ CohortTypeOK /\ ChainInv(i)
      /\ own.cohort \in Cohort /\ own.stage \in Nat /\ Known(own.cohort)
  <2>1. own \in Assignment /\ i \in Nat
    BY DEF RolloutInv, CohortTypeOK
  <2>2. own.cohort \in Cohort /\ own.stage \in Nat
    BY ONLY <2>1 DEF Assignment
  <2> QED BY <2>1, <2>2 DEF RolloutInv, ChainInv
<1>1. PICK next \in NextCohorts(own.cohort) :
        /\ progressions' = Append(progressions, [assignment |-> i, from |-> own.cohort,
                                                 to |-> next, stage |-> own.stage + 1])
        /\ assignments' = [assignments EXCEPT ![i] = Moved(own, next)]
  BY DEF Progress
<1>2. Known(next) /\ next \in Cohort /\ Precedes(own.cohort, next) /\ CohortSize[next] \in Int
  <2>1. next \in ToSet(cohorts) /\ Precedes(own.cohort, next)
    BY DEF NextCohorts
  <2>2. Known(next)
    BY <1>0, <2>1, SMTT(90) DEF ToSet, Known, CohortTypeOK
  <2>3. next \in Cohort
    BY ONLY <2>2 DEF Known
  <2>4. CohortSize[next] \in Int
    <3>1. CohortSize \in [Cohort -> 1..1000]
      BY CohortConstants, Zenon
    <3> QED BY ONLY <2>3, <3>1
  <2> QED BY ONLY <2>1, <2>2, <2>3, <2>4
<1>3. /\ Moved(own, next) \in Assignment /\ Moved(own, next).proposal = own.proposal
      /\ Moved(own, next).cohort = next /\ Moved(own, next).stage = own.stage + 1
  <2> DEFINE moved == [own EXCEPT !.cohort = next, !.size = CohortSize[next], !.stage = own.stage + 1]
  <2>1. own \in Assignment /\ next \in Cohort /\ CohortSize[next] \in Int /\ own.stage + 1 \in Nat
    BY <1>0, <1>2
  <2>2. moved \in Assignment
    BY ONLY <2>1 DEF Assignment
  <2>3. moved.proposal = own.proposal /\ moved.cohort = next /\ moved.stage = own.stage + 1
    BY ONLY <2>1 DEF Assignment
  <2> QED BY ONLY <2>2, <2>3 DEF Moved
<1>4. /\ assignments' \in Seq(Assignment) /\ DOMAIN assignments' = DOMAIN assignments
      /\ assignments'[i] = Moved(own, next)
      /\ \A j \in DOMAIN assignments : j # i => assignments'[j] = assignments[j]
  BY <1>0, <1>1, <1>3, Replaced, SMTT(90) DEF CohortTypeOK
<1>5. PICK r \in Progression :
        /\ r.assignment = i /\ r.from = own.cohort /\ r.to = next /\ r.stage = own.stage + 1
        /\ progressions' = Append(progressions, r)
  <2> DEFINE r == [assignment |-> i, from |-> own.cohort, to |-> next, stage |-> own.stage + 1]
  <2>1. r \in Progression
    BY ONLY <1>0, <1>2 DEF Progression
  <2> QED BY <1>1, <2>1
<1>6. PICK k \in Nat : k = Len(progressions) + 1
  BY <1>0 DEF CohortTypeOK
<1>7. /\ progressions' \in Seq(Progression) /\ DOMAIN progressions' = DOMAIN progressions \cup {k}
      /\ progressions'[k] = r /\ \A n \in DOMAIN progressions : progressions'[n] = progressions[n]
  BY <1>0, <1>5, <1>6, Longer, SMTT(90) DEF CohortTypeOK
<1>8. \A n \in DOMAIN progressions : n \in Nat /\ n < k
  BY <1>0, <1>6, SMTT(90) DEF CohortTypeOK
<1>9. /\ Of(i)' = Of(i) \cup {k} /\ k \notin Of(i)
      /\ \A j \in DOMAIN assignments : j # i => Of(j)' = Of(j)
  BY <1>5, <1>7, <1>8 DEF Of
<1>10. IsFiniteSet(Of(i)) /\ Cardinality(Of(i)) = own.stage
  <2>1. Cardinality(Of(i)) = own.stage
    BY <1>0 DEF ChainInv
  <2>2. 1 \in Int /\ Len(progressions) \in Int /\ Of(i) \subseteq 1..Len(progressions)
    BY <1>0, SMTT(90) DEF Of, CohortTypeOK
  <2>3. IsFiniteSet(1..Len(progressions))
    BY ONLY <2>2, FS_Interval
  <2>4. IsFiniteSet(Of(i))
    BY ONLY <2>2, <2>3, FS_Subset
  <2> QED BY <2>1, <2>4
<1>11. Cardinality(Of(i)') = own.stage + 1
  <2>1. Cardinality(Of(i) \cup {k}) = Cardinality(Of(i)) + 1
    BY ONLY <1>9, <1>10, FS_AddElement
  <2> QED BY <1>9, <1>10, <2>1
<1>12. /\ \A c : Known(c)' <=> Known(c)
       /\ \A c, d : Precedes(c, d)' <=> Precedes(c, d)
  BY DEF Known, Precedes, Registration, Progress
<1>13. ASSUME NEW n \in Of(i)
       PROVE  /\ Link(i, n) /\ Precedes(progressions[n].from, next)
              /\ progressions[n].from # next /\ progressions[n].stage < own.stage + 1
              /\ progressions[n].stage \in Nat /\ n \in DOMAIN progressions
  <2>1. Link(i, n)
    BY <1>0 DEF ChainInv
  <2>2. n \in DOMAIN progressions /\ progressions[n].stage \in Nat
    <3>1. n \in DOMAIN progressions
      BY DEF Of
    <3>2. progressions[n] \in Progression
      BY <1>0, <3>1 DEF CohortTypeOK
    <3> QED BY ONLY <3>1, <3>2 DEF Progression
  <2>3. Known(progressions[n].from) /\ Precedes(progressions[n].from, own.cohort)
    BY <2>1 DEF Link
  <2>4. Precedes(progressions[n].from, next)
    BY <1>0, <1>2, <2>3, StrictOrder
  <2>5. progressions[n].from # next
    BY <1>0, <1>2, <2>3, <2>4, StrictOrder, SMTT(90)
  <2>6. progressions[n].stage <= own.stage
    BY <2>1, SMTT(90) DEF Link
  <2> QED BY <1>0, <2>1, <2>2, <2>4, <2>5, <2>6
<1>14. ASSUME NEW n \in Of(i) PROVE Link(i, n)'
  <2>1. progressions'[n] = progressions[n]
    BY <1>7, <1>13
  <2>2. {m \in Of(i)' : m < n} = {m \in Of(i) : m < n}
    BY <1>8, <1>9, <1>13
  <2>3. \A m \in Of(i) : progressions'[m] = progressions[m]
    BY <1>7, <1>13
  <2>4. /\ Known(progressions[n].from)' /\ Known(progressions[n].to)'
        /\ Precedes(progressions[n].from, progressions[n].to)'
        /\ Precedes(progressions[n].from, assignments[i].cohort)'
    BY <1>3, <1>4, <1>12, <1>13, <2>1, ZenonT(90) DEF Link
  <2>5. /\ progressions[n].stage = Cardinality({m \in Of(i) : m < n}) + 1
        /\ progressions[n].stage <= own.stage + 1 /\ progressions[n].stage # own.stage + 1
    BY <1>0, <1>13 DEF Link
  <2>6. \A m \in {h \in Of(i) : h < n} :
          /\ progressions[m].stage = progressions[n].stage - 1 => progressions[n].from = progressions[m].to
          /\ progressions[m].from # progressions[n].to
    BY <1>13 DEF Link
  <2>7. assignments'[i].stage = own.stage + 1
    BY <1>3, <1>4
  <2> QED BY <2>1, <2>2, <2>3, <2>4, <2>5, <2>6, <2>7, ZenonT(90) DEF Link
<1>15. Link(i, k)'
  <2>1. {m \in Of(i)' : m < k} = Of(i)
    BY <1>8, <1>9, <1>13
  <2>2. /\ Known(r.from)' /\ Known(r.to)' /\ Precedes(r.from, r.to)'
        /\ Precedes(r.from, assignments[i].cohort)'
    BY <1>0, <1>2, <1>3, <1>4, <1>5, <1>12
  <2>3. assignments'[i].stage = own.stage + 1 /\ assignments'[i].cohort = next
    BY <1>3, <1>4
  <2>4. /\ r.stage = Cardinality(Of(i)) + 1 /\ r.stage <= own.stage + 1 /\ r.to = next
        /\ r.stage - 1 = own.stage
    BY <1>0, <1>5, <1>10
  <2>5. ASSUME NEW m \in Of(i)
        PROVE  /\ progressions'[m].stage = r.stage - 1 => r.from = progressions'[m].to
               /\ progressions'[m].from # r.to
    <3>1. progressions'[m] = progressions[m] /\ Link(i, m) /\ progressions[m].from # next
      BY <1>7, <1>13
    <3>2. progressions[m].stage = own.stage => progressions[m].to = own.cohort
      BY <3>1 DEF Link
    <3> QED BY <1>5, <2>4, <3>1, <3>2
  <2>6. progressions'[k] = r
    BY <1>7
  <2> QED BY <2>1, <2>2, <2>3, <2>4, <2>5, <2>6 DEF Link
<1>16. ChainInv(i)'
  <2>1. \A n \in Of(i)' : Link(i, n)'
    BY <1>9, <1>14, <1>15
  <2>2. assignments'[i].stage = own.stage + 1 /\ Known(assignments[i].cohort)'
    BY <1>2, <1>3, <1>4, <1>12
  <2> QED BY <1>11, <2>1, <2>2 DEF ChainInv
<1>17. ASSUME NEW j \in DOMAIN assignments, j # i PROVE ChainInv(j)'
  <2>1. ChainInv(j) /\ assignments'[j] = assignments[j] /\ Of(j)' = Of(j)
    BY <1>4, <1>9, <1>17 DEF RolloutInv
  <2>2. \A n \in Of(j) : progressions'[n] = progressions[n]
    BY <1>7 DEF Of
  <2>3. ASSUME NEW n \in Of(j) PROVE Link(j, n)'
    <3>1. Link(j, n)
      BY <2>1 DEF ChainInv
    <3> QED BY <1>12, <2>1, <2>2, <3>1 DEF Link
  <2> QED BY <1>12, <2>1, <2>3 DEF ChainInv
<1>18. \E n \in Of(i)' : progressions'[n].from = own.cohort
  BY <1>5, <1>7, <1>9
<1>19. \A n \in DOMAIN progressions' : progressions'[n].assignment \in DOMAIN assignments
  BY <1>5, <1>7 DEF RolloutInv
<1> QED BY <1>3, <1>4, <1>7, <1>16, <1>17, <1>18, <1>19, SMTT(90)

-----------------------------------------------------------------------------
(* Rollbacks in the list of decisions.                                     *)

\* The list that goes through a set of places in order leaves none of them out.
LEMMA InOrderCovers ==
  ASSUME NEW places \in SUBSET Nat, IsFiniteSet(places), NEW list \in InOrder(places)
  PROVE  /\ DOMAIN list = 1..Cardinality(places)
         /\ \A i \in DOMAIN list : list[i] \in places
         /\ \A n \in places : \E i \in DOMAIN list : list[i] = n
<1>0. PICK size \in Nat : size = Cardinality(places)
  BY FS_CardinalityType
<1>1. list \in [1..size -> places] /\ \A i, j \in 1..size : i < j => list[i] < list[j]
  BY <1>0 DEF InOrder
<1>2. ASSUME NEW i \in 1..size, NEW j \in 1..size, list[i] = list[j] PROVE i = j
  <2>1. list[i] \in Nat /\ list[j] \in Nat
    BY <1>1
  <2>2. ~ (list[i] < list[j]) /\ ~ (list[j] < list[i])
    BY ONLY <2>1, <1>2
  <2>3. ~ (i < j) /\ ~ (j < i)
    BY <1>1, <2>2
  <2> QED BY <2>3
<1>3. list \in Injection(1..size, places)
  <2>1. \A i, j \in 1..size : list[i] = list[j] => i = j
    BY ONLY <1>2
  <2>2. list \in [1..size -> places]
    BY <1>1
  <2>3. DOMAIN list = 1..size
    BY ONLY <2>2
  <2> QED BY ONLY <2>1, <2>2, <2>3, Zenon DEF Injection, IsInjective
<1>4. Cardinality(1..size) = size
  <2>1. 1 \in Int /\ size \in Int
    OBVIOUS
  <2>2. Cardinality(1..size) = IF 1 > size THEN 0 ELSE size - 1 + 1
    BY ONLY <2>1, FS_Interval
  <2> QED BY <2>2
<1>5. Cardinality(1..size) = Cardinality(places) <=> list \in Surjection(1..size, places)
  BY ONLY <1>3, IsFiniteSet(places), FS_Injection
<1>6. \A n \in places : \E i \in 1..size : list[i] = n
  BY <1>0, <1>4, <1>5 DEF Surjection
<1> QED BY <1>0, <1>1, <1>6

\* What an atomic rollback makes of the list: it is longer by one rollback for each
\* standing decision of the proposal, and by nothing else.
LEMMA RollbackAppends ==
  ASSUME decisionList \in Seq(DecisionRecord), NEW p, AtomicRollback(p)
  PROVE  /\ decisionList' \in Seq(DecisionRecord)
         /\ DOMAIN decisionList \subseteq DOMAIN decisionList'
         /\ \A n \in DOMAIN decisionList : decisionList'[n] = decisionList[n]
         /\ \A n \in DOMAIN decisionList' \ DOMAIN decisionList :
              \E m \in Standing(p) : decisionList'[n] = Overturned(decisionList[m])
         /\ \A n \in DOMAIN decisionList' \ DOMAIN decisionList :
              \A m \in DOMAIN decisionList : m < n
         /\ \A m \in Standing(p) : \E n \in DOMAIN decisionList' \ DOMAIN decisionList :
              decisionList'[n] = Overturned(decisionList[m])
<1>1. PICK len \in Nat : len = Len(decisionList) /\ DOMAIN decisionList = 1..len
  OBVIOUS
<1>2. PICK places \in SUBSET Nat : places = Standing(p) /\ places \subseteq 1..len
  <2>1. Standing(p) \subseteq 1..len
    BY <1>1 DEF Standing
  <2>2. Standing(p) \in SUBSET Nat
    BY ONLY <2>1, len \in Nat
  <2> QED BY <2>1, <2>2
<1>3. IsFiniteSet(places)
  <2>1. 1 \in Int /\ len \in Int
    OBVIOUS
  <2>2. IsFiniteSet(1..len)
    BY ONLY <2>1, FS_Interval
  <2> QED BY ONLY <1>2, <2>2, FS_Subset
<1>4. PICK list \in InOrder(places) :
        decisionList' = decisionList \o [j \in DOMAIN list |-> Overturned(decisionList[list[j]])]
  BY <1>2 DEF AtomicRollback
<1>5. /\ DOMAIN list = 1..Cardinality(places) /\ \A i \in DOMAIN list : list[i] \in places
      /\ \A n \in places : \E i \in DOMAIN list : list[i] = n
  BY <1>3, InOrderCovers
<1>6. PICK size \in Nat : DOMAIN list = 1..size
  BY <1>3, <1>5, FS_CardinalityType
<1> DEFINE new == [j \in 1..size |-> Overturned(decisionList[list[j]])]
<1>7. \A m \in places : Overturned(decisionList[m]) \in DecisionRecord
  <2> SUFFICES ASSUME NEW m \in places PROVE Overturned(decisionList[m]) \in DecisionRecord
    OBVIOUS
  <2>1. decisionList[m] \in DecisionRecord
    BY <1>1, <1>2
  <2> QED BY ONLY <2>1 DEF DecisionRecord, Overturned, Decision, Sentence
<1>8. \A j \in 1..size : new[j] = Overturned(decisionList[list[j]]) /\ new[j] \in DecisionRecord
  BY <1>5, <1>6, <1>7
<1>9. new \in Seq(DecisionRecord) /\ Len(new) = size
  <2>1. DOMAIN new = 1..size /\ new \in [1..size -> DecisionRecord]
    BY <1>8
  <2> HIDE DEF new
  <2> QED BY <2>1
<1>10. decisionList' = decisionList \o new
  BY <1>4, <1>6
<1> HIDE DEF new
<1>11. /\ decisionList' \in Seq(DecisionRecord) /\ Len(decisionList') = len + size
       /\ \A n \in 1..len + size :
            decisionList'[n] = IF n <= len THEN decisionList[n] ELSE new[n - len]
  BY <1>1, <1>9, <1>10, ConcatProperties, ZenonT(90)
<1>12. DOMAIN decisionList' = 1..len + size
  BY <1>11
<1>13. ASSUME NEW n \in DOMAIN decisionList' \ DOMAIN decisionList
       PROVE  /\ n > len /\ \E m \in places : decisionList'[n] = Overturned(decisionList[m])
  <2>1. n \in 1..len + size /\ n > len /\ n - len \in 1..size
    BY <1>1, <1>12
  <2>2. decisionList'[n] = new[n - len]
    BY <1>11, <2>1
  <2>3. decisionList'[n] = Overturned(decisionList[list[n - len]]) /\ list[n - len] \in places
    BY <1>5, <1>6, <1>8, <2>1, <2>2
  <2> QED BY <2>1, <2>3
<1>14. ASSUME NEW m \in places
       PROVE  \E n \in DOMAIN decisionList' \ DOMAIN decisionList :
                decisionList'[n] = Overturned(decisionList[m])
  <2>1. PICK i \in 1..size : list[i] = m
    BY <1>5, <1>6
  <2>2. /\ len + i \in 1..len + size /\ len + i \notin 1..len /\ (len + i) - len = i
        /\ ~ (len + i <= len)
    OBVIOUS
  <2>3. decisionList'[len + i] = new[i]
    BY <1>11, <2>2
  <2>4. decisionList'[len + i] = Overturned(decisionList[m])
    BY <1>8, <2>1, <2>3
  <2> QED BY <1>1, <1>12, <2>2, <2>4
<1>15. \A n \in DOMAIN decisionList : n \in DOMAIN decisionList' /\ decisionList'[n] = decisionList[n]
  BY <1>1, <1>11, <1>12
<1>16. \A n \in DOMAIN decisionList' \ DOMAIN decisionList : \A m \in DOMAIN decisionList : m < n
  <2> SUFFICES ASSUME NEW n \in DOMAIN decisionList' \ DOMAIN decisionList,
                      NEW m \in DOMAIN decisionList
               PROVE  m < n
    OBVIOUS
  <2>1. n \in Nat /\ n > len
    BY <1>12, <1>13
  <2> QED BY <1>1, <2>1
<1> QED BY <1>2, <1>11, <1>13, <1>14, <1>15, <1>16

\* Every decision of the list is in the map; of the decisions on a cohort, all of one
\* proposal, only the first may be no rollback.
ListInv ==
  /\ decisionList \in Seq(DecisionRecord)
  /\ \A n \in DOMAIN decisionList : decisionList[n].cohort \in decisions
  /\ \A m, n \in DOMAIN decisionList :
       decisionList[m].cohort = decisionList[n].cohort =>
         /\ decisionList[m].proposal = decisionList[n].proposal
         /\ m < n => decisionList[n].decision = "rollback"

\* A verdict is one of three.
LEMMA VerdictType ==
  ASSUME NEW k, NEW complete
  PROVE  Verdict(k, complete) \in Sentence
  BY DEF Verdict, Sentence

\* A decision that is evaluated is longer by one.
LEMMA DecisionAdded ==
  ASSUME CohortTypeOK, NEW i \in DOMAIN assignments, NEW complete, Evaluate(i, complete)
  PROVE  \E d \in DecisionRecord :
           /\ d.assignment = i /\ d.cohort = assignments[i].cohort
           /\ d.proposal = assignments[i].proposal
           /\ decisionList' = Append(decisionList, d)
<1> DEFINE own == assignments[i]
<1>1. own \in Assignment /\ i \in Nat
  BY DEF CohortTypeOK
<1>2. PICK verdict \in Sentence :
        decisionList' = Append(decisionList, Decision(i, own.cohort, own.proposal, verdict))
  BY VerdictType DEF Evaluate
<1>3. own.cohort \in Cohort /\ own.proposal \in Proposal
  BY ONLY <1>1 DEF Assignment
<1>4. /\ Decision(i, own.cohort, own.proposal, verdict) \in DecisionRecord
      /\ Decision(i, own.cohort, own.proposal, verdict).assignment = i
      /\ Decision(i, own.cohort, own.proposal, verdict).cohort = own.cohort
      /\ Decision(i, own.cohort, own.proposal, verdict).proposal = own.proposal
  BY ONLY <1>1, <1>3, verdict \in Sentence DEF DecisionRecord, Decision
<1> QED BY <1>2, <1>4

\* The chains and the traces hold in every state.
LEMMA RolloutKept == CohortSpec => []RolloutInv
<1>1. CohortInit => RolloutInv
  <2> SUFFICES ASSUME CohortInit PROVE RolloutInv
    OBVIOUS
  <2>1. /\ cohorts = <<>> /\ assignments = <<>> /\ progressions = <<>> /\ decisionList = <<>>
    BY DEF CohortInit
  <2>2. /\ <<>> \in Seq(Cohort) /\ <<>> \in Seq(Assignment) /\ <<>> \in Seq(Progression)
        /\ <<>> \in Seq(DecisionRecord)
    OBVIOUS
  <2>3. DOMAIN <<>> = {}
    OBVIOUS
  <2> QED BY <2>1, <2>2, <2>3 DEF RolloutInv, CohortTypeOK
<1>2. RolloutInv /\ [CohortNext]_rolloutVars => RolloutInv'
  <2> SUFFICES ASSUME RolloutInv, [CohortNext]_rolloutVars PROVE RolloutInv'
    OBVIOUS
  <2>0. CohortTypeOK
    BY DEF RolloutInv
  <2>1. ASSUME UNCHANGED <<cohorts, assignments, progressions, decisionList>> PROVE RolloutInv'
    <3>1. CohortTypeOK'
      BY <2>0, <2>1 DEF CohortTypeOK
    <3>2. /\ \A c : Known(c) => Known(c)'
          /\ \A c, d : Known(c) /\ Known(d) => (Precedes(c, d)' <=> Precedes(c, d))
      BY <2>1 DEF Known, Precedes, Registration
    <3>3. \A i \in DOMAIN assignments : ChainInv(i)'
      BY <2>0, <2>1, <3>2, ChainsStay DEF RolloutInv
    <3>4. \A j \in DOMAIN decisionList : DecisionInv(j)'
      BY <2>1 DEF RolloutInv, DecisionInv, Of
    <3>5. \A n \in DOMAIN progressions' : progressions'[n].assignment \in DOMAIN assignments'
      BY <2>1 DEF RolloutInv
    <3> QED BY <2>1, <3>1, <3>3, <3>4, <3>5 DEF RolloutInv
  <2>2. ASSUME NEW c \in Cohort, RegisterCohort(c) PROVE RolloutInv'
    <3>1. /\ c \notin ToSet(cohorts) /\ cohorts' = Append(cohorts, c)
          /\ UNCHANGED <<assignments, progressions, decisionList>>
      BY <2>2 DEF RegisterCohort
    <3>2. /\ cohorts' \in Seq(Cohort)
          /\ \A m, n \in DOMAIN cohorts' : cohorts'[m] = cohorts'[n] => m = n
          /\ \A d : Known(d) => Known(d)'
          /\ \A d, e : Known(d) /\ Known(e) => (Precedes(d, e)' <=> Precedes(d, e))
      BY <2>0, <3>1, OrderKept
    <3>3. CohortTypeOK'
      BY <2>0, <3>1, <3>2 DEF CohortTypeOK
    <3>4. \A i \in DOMAIN assignments : ChainInv(i)'
      BY <2>0, <3>1, <3>2, ChainsStay, SMTT(90) DEF RolloutInv
    <3>5. \A j \in DOMAIN decisionList : DecisionInv(j)'
      BY <3>1 DEF RolloutInv, DecisionInv, Of
    <3>6. \A n \in DOMAIN progressions' : progressions'[n].assignment \in DOMAIN assignments'
      BY <3>1 DEF RolloutInv
    <3> QED BY <3>1, <3>3, <3>4, <3>5, <3>6 DEF RolloutInv
  <2>3. ASSUME NEW p \in Proposal, NEW u \in User \cup {NoUser}, NEW size \in Target,
               Allocate(p, u, size)
        PROVE  RolloutInv'
    <3>1. PICK n \in DOMAIN cohorts :
            assignments' = Append(assignments, [proposal |-> p, user |-> u, cohort |-> cohorts[n],
                                                size |-> CohortSize[cohorts[n]], stage |-> 0])
      BY <2>3 DEF Allocate
    <3>2. cohorts[n] \in Cohort /\ Known(cohorts[n]) /\ CohortSize[cohorts[n]] \in Int
      <4>1. cohorts[n] \in Cohort
        BY <2>0 DEF CohortTypeOK
      <4>2. CohortSize \in [Cohort -> 1..1000]
        BY CohortConstants, Zenon
      <4>3. CohortSize[cohorts[n]] \in Int
        BY ONLY <4>1, <4>2
      <4> QED BY <4>1, <4>3 DEF Known
    <3>3. PICK a \in Assignment : assignments' = Append(assignments, a) /\ a.cohort = cohorts[n] /\ a.stage = 0
      <4> DEFINE a == [proposal |-> p, user |-> u, cohort |-> cohorts[n],
                       size |-> CohortSize[cohorts[n]], stage |-> 0]
      <4>1. a \in Assignment /\ a.cohort = cohorts[n] /\ a.stage = 0
        BY ONLY <3>2, p \in Proposal, u \in User \cup {NoUser} DEF Assignment
      <4> QED BY <3>1, <4>1
    <3>4. UNCHANGED <<cohorts, progressions, decisionList>>
      BY <2>3 DEF Allocate
    <3>5. /\ assignments' \in Seq(Assignment)
          /\ DOMAIN assignments \subseteq DOMAIN assignments'
          /\ \A i \in DOMAIN assignments : assignments'[i] = assignments[i]
          /\ \A i \in DOMAIN assignments' : ChainInv(i)'
      <4>1. /\ \A m \in DOMAIN progressions : progressions[m].assignment \in DOMAIN assignments
            /\ \A i \in DOMAIN assignments : ChainInv(i)
        BY DEF RolloutInv
      <4>2. Known(a.cohort)
        BY <3>2, <3>3
      <4> QED BY <2>0, <3>3, <3>4, <4>1, <4>2, AssignmentAdded
    <3>6. CohortTypeOK'
      BY <2>0, <3>4, <3>5 DEF CohortTypeOK
    <3>7. \A j \in DOMAIN decisionList : DecisionInv(j)'
      BY <3>4, <3>5 DEF RolloutInv, DecisionInv, Of
    <3>8. \A m \in DOMAIN progressions' : progressions'[m].assignment \in DOMAIN assignments'
      BY <3>4, <3>5 DEF RolloutInv
    <3> QED BY <3>4, <3>5, <3>6, <3>7, <3>8, SMTT(90) DEF RolloutInv
  <2>4. ASSUME NEW i \in DOMAIN assignments, Progress(i) PROVE RolloutInv'
    <3>1. UNCHANGED <<cohorts, decisionList>>
      BY <2>4 DEF Progress
    <3>2. /\ assignments' \in Seq(Assignment) /\ progressions' \in Seq(Progression)
          /\ DOMAIN assignments' = DOMAIN assignments
          /\ \A j \in DOMAIN assignments : assignments'[j].proposal = assignments[j].proposal
          /\ \A j \in DOMAIN assignments : j # i => assignments'[j] = assignments[j]
          /\ \A n \in DOMAIN progressions' : progressions'[n].assignment \in DOMAIN assignments
          /\ DOMAIN progressions \subseteq DOMAIN progressions'
          /\ \A n \in DOMAIN progressions : progressions'[n] = progressions[n]
          /\ \E n \in Of(i)' : progressions'[n].from = assignments[i].cohort
          /\ \A j \in DOMAIN assignments : ChainInv(j)'
      BY <2>4, AssignmentMoves
    <3>3. CohortTypeOK'
      BY <2>0, <3>1, <3>2 DEF CohortTypeOK
    <3>4. ASSUME NEW j \in DOMAIN decisionList PROVE DecisionInv(j)'
      <4>1. DecisionInv(j) /\ decisionList'[j] = decisionList[j]
        BY <3>1 DEF RolloutInv
      <4>2. \A k : Of(k) \subseteq Of(k)' /\ \A n \in Of(k) : progressions'[n] = progressions[n]
        BY <3>2 DEF Of
      <4>3. PICK k \in DOMAIN assignments : k = decisionList[j].assignment
        BY <4>1 DEF DecisionInv
      <4>4. CASE \E n \in Of(k) : progressions[n].from = decisionList[j].cohort
        BY <3>2, <4>1, <4>2, <4>3, <4>4 DEF DecisionInv
      <4>5. CASE k # i /\ assignments[k].cohort = decisionList[j].cohort
        BY <3>2, <4>1, <4>3, <4>5 DEF DecisionInv
      <4>6. CASE k = i /\ assignments[k].cohort = decisionList[j].cohort
        BY <3>2, <4>1, <4>3, <4>6 DEF DecisionInv
      <4> QED BY <4>1, <4>3, <4>4, <4>5, <4>6 DEF DecisionInv
    <3> QED BY <3>1, <3>2, <3>3, <3>4 DEF RolloutInv
  <2>5. ASSUME NEW i \in DOMAIN assignments, NEW complete \in BOOLEAN, Evaluate(i, complete)
        PROVE  RolloutInv'
    <3>1. UNCHANGED <<cohorts, assignments, progressions>>
      BY <2>5 DEF Evaluate
    <3>2. PICK d \in DecisionRecord :
            /\ d.assignment = i /\ d.cohort = assignments[i].cohort
            /\ d.proposal = assignments[i].proposal
            /\ decisionList' = Append(decisionList, d)
      BY <2>0, <2>5, DecisionAdded
    <3>3. PICK k \in Nat : k = Len(decisionList) + 1
      BY <2>0 DEF CohortTypeOK
    <3>4. /\ decisionList' \in Seq(DecisionRecord) /\ DOMAIN decisionList' = DOMAIN decisionList \cup {k}
          /\ decisionList'[k] = d /\ \A j \in DOMAIN decisionList : decisionList'[j] = decisionList[j]
      BY <2>0, <3>2, <3>3, Longer, SMTT(90) DEF CohortTypeOK
    <3>5. CohortTypeOK'
      BY <2>0, <3>1, <3>4 DEF CohortTypeOK
    <3>6. /\ \A c : Known(c) => Known(c)'
          /\ \A c, e : Known(c) /\ Known(e) => (Precedes(c, e)' <=> Precedes(c, e))
      BY <3>1 DEF Known, Precedes, Registration
    <3>7. \A j \in DOMAIN assignments : ChainInv(j)'
      BY <2>0, <3>1, <3>6, ChainsStay DEF RolloutInv
    <3>8. \A j \in DOMAIN decisionList : DecisionInv(j)'
      BY <3>1, <3>4 DEF RolloutInv, DecisionInv, Of
    <3>9. DecisionInv(k)'
      BY <3>1, <3>2, <3>4 DEF DecisionInv
    <3>10. \A m \in DOMAIN progressions' : progressions'[m].assignment \in DOMAIN assignments'
      BY <3>1 DEF RolloutInv
    <3> QED BY <3>1, <3>4, <3>5, <3>7, <3>8, <3>9, <3>10 DEF RolloutInv
  <2>6. ASSUME NEW p \in Proposal, AtomicRollback(p) PROVE RolloutInv'
    <3>1. UNCHANGED <<cohorts, assignments, progressions>>
      BY <2>6 DEF AtomicRollback
    <3>2. /\ decisionList' \in Seq(DecisionRecord)
          /\ \A n \in DOMAIN decisionList : decisionList'[n] = decisionList[n]
          /\ \A n \in DOMAIN decisionList' \ DOMAIN decisionList :
               \E m \in Standing(p) : decisionList'[n] = Overturned(decisionList[m])
      BY <2>0, <2>6, RollbackAppends DEF CohortTypeOK
    <3>3. CohortTypeOK'
      BY <2>0, <3>1, <3>2 DEF CohortTypeOK
    <3>4. /\ \A c : Known(c) => Known(c)'
          /\ \A c, e : Known(c) /\ Known(e) => (Precedes(c, e)' <=> Precedes(c, e))
      BY <3>1 DEF Known, Precedes, Registration
    <3>5. \A j \in DOMAIN assignments : ChainInv(j)'
      BY <2>0, <3>1, <3>4, ChainsStay DEF RolloutInv
    <3>6. ASSUME NEW j \in DOMAIN decisionList' PROVE DecisionInv(j)'
      <4>1. PICK m \in DOMAIN decisionList :
              /\ decisionList'[j].assignment = decisionList[m].assignment
              /\ decisionList'[j].cohort = decisionList[m].cohort
              /\ decisionList'[j].proposal = decisionList[m].proposal
        <5>1. CASE j \in DOMAIN decisionList
          BY <3>2, <5>1
        <5>2. CASE j \notin DOMAIN decisionList
          <6>1. PICK m \in Standing(p) : decisionList'[j] = Overturned(decisionList[m])
            BY <3>2, <5>2
          <6> QED BY <6>1 DEF Standing, Overturned, Decision
        <5> QED BY <5>1, <5>2
      <4>2. DecisionInv(m)
        BY DEF RolloutInv
      <4> QED BY <3>1, <4>1, <4>2 DEF DecisionInv, Of
    <3>7. \A m \in DOMAIN progressions' : progressions'[m].assignment \in DOMAIN assignments'
      BY <3>1 DEF RolloutInv
    <3> QED BY <3>1, <3>3, <3>5, <3>6, <3>7 DEF RolloutInv
  <2>7. ASSUME NEW m, NEW k, NEW v, Observe(m, k, v) PROVE RolloutInv'
    BY <2>1, <2>7 DEF Observe
  <2>8. ASSUME NEW k, ClearObservations(k) PROVE RolloutInv'
    BY <2>1, <2>8 DEF ClearObservations
  <2>9. CASE UNCHANGED rolloutVars
    BY <2>1, <2>9 DEF rolloutVars
  <2> QED BY <2>2, <2>3, <2>4, <2>5, <2>6, <2>7, <2>8, <2>9 DEF CohortNext
<1> QED BY <1>1, <1>2, PTL DEF CohortSpec

\* The log of progressions explains every assignment, in one chain that never turns back,
\* and tells which decisions have lost their trace (multi-cohort-engine.ts:13,
\* phase-4-5-lineage.ts:320-373), for any cohorts, sizes and calls of the engines.
THEOREM ChainsHold == CohortSpec => []ProgressionsChain
<1>1. RolloutInv => ProgressionsChain
  <2> SUFFICES ASSUME RolloutInv PROVE ProgressionsChain
    OBVIOUS
  <2>0. CohortTypeOK
    BY DEF RolloutInv
  <2>1. StagesChain
    <3> SUFFICES ASSUME NEW i \in DOMAIN assignments
                 PROVE  /\ Cardinality(Of(i)) = assignments[i].stage
                        /\ \A n \in Of(i) :
                             LET r == progressions[n]  earlier == {m \in Of(i) : m < n} IN
                             /\ r.stage = Cardinality(earlier) + 1
                             /\ CohortSize[r.from] <= CohortSize[r.to]
                             /\ r.stage = assignments[i].stage => r.to = assignments[i].cohort
                             /\ \A m \in earlier :
                                  progressions[m].stage = r.stage - 1 => r.from = progressions[m].to
                             /\ \A m \in earlier \union {n} : progressions[m].from # r.to
      BY DEF StagesChain
    <3>1. Cardinality(Of(i)) = assignments[i].stage /\ \A n \in Of(i) : Link(i, n)
      BY DEF RolloutInv, ChainInv
    <3>2. ASSUME NEW n \in Of(i)
          PROVE  /\ CohortSize[progressions[n].from] <= CohortSize[progressions[n].to]
                 /\ progressions[n].from # progressions[n].to
      <4>1. /\ Known(progressions[n].from) /\ Known(progressions[n].to)
            /\ Precedes(progressions[n].from, progressions[n].to)
        BY <3>1 DEF Link
      <4> QED BY <2>0, <4>1, StrictOrder
    <3> QED BY <3>1, <3>2, ZenonT(90) DEF Link
  <2>2. TracesBreakByProgress
    <3> SUFFICES ASSUME NEW p \in Proposal, NEW j \in BuildLineageReport(p).total
                 PROVE  LET d == decisionList[j]
                            left == \E n \in Of(d.assignment) : progressions[n].from = d.cohort
                        IN /\ j \notin BuildLineageReport(p).chains => left
                           /\ left => \/ j \notin BuildLineageReport(p).chains
                                      \/ \E i \in DOMAIN assignments : /\ i # d.assignment
                                                          /\ assignments[i].proposal = p
                                                          /\ assignments[i].cohort = d.cohort
      BY DEF TracesBreakByProgress
    <3> DEFINE d == decisionList[j]
    <3>1. j \in DOMAIN decisionList /\ d.proposal = p
      BY DEF BuildLineageReport
    <3>2. j \in BuildLineageReport(p).chains <=>
            \E i \in DOMAIN assignments : assignments[i].proposal = p /\ assignments[i].cohort = d.cohort
      BY <3>1 DEF BuildLineageReport, Traces
    <3>3. /\ d.assignment \in DOMAIN assignments /\ assignments[d.assignment].proposal = p
          /\ \/ assignments[d.assignment].cohort = d.cohort
             \/ \E n \in Of(d.assignment) : progressions[n].from = d.cohort
      BY <3>1 DEF RolloutInv, DecisionInv
    <3>4. ASSUME NEW n \in Of(d.assignment), progressions[n].from = d.cohort
          PROVE  assignments[d.assignment].cohort # d.cohort
      <4>1. /\ Known(progressions[n].from) /\ Known(assignments[d.assignment].cohort)
            /\ Precedes(progressions[n].from, assignments[d.assignment].cohort)
        BY <3>3 DEF RolloutInv, ChainInv, Link
      <4> QED BY <2>0, <3>4, <4>1, StrictOrder
    <3> QED BY <3>2, <3>3, <3>4
  <2> QED BY <2>1, <2>2 DEF ProgressionsChain
<1> QED BY <1>1, RolloutKept, PTL

\* An atomic rollback reaches every cohort its proposal was decided in, and leaves those
\* that were rolled back as they were.
LEMMA RollbackReaches ==
  ASSUME ListInv, NEW p \in Proposal, AtomicRollback(p)
  PROVE  /\ ListInv'
         /\ \A c \in Cohort :
              \/ RolledBack(c, decisionList)
              \/ \E d \in ToSet(decisionList) : d.proposal = p /\ d.cohort = c
              => RolledBack(c, decisionList')
<1>1. /\ decisionList' \in Seq(DecisionRecord)
      /\ DOMAIN decisionList \subseteq DOMAIN decisionList'
      /\ \A n \in DOMAIN decisionList : decisionList'[n] = decisionList[n]
      /\ \A n \in DOMAIN decisionList' \ DOMAIN decisionList :
           \E m \in Standing(p) : decisionList'[n] = Overturned(decisionList[m])
      /\ \A n \in DOMAIN decisionList' \ DOMAIN decisionList :
           \A m \in DOMAIN decisionList : m < n
      /\ \A m \in Standing(p) : \E n \in DOMAIN decisionList' \ DOMAIN decisionList :
           decisionList'[n] = Overturned(decisionList[m])
  BY RollbackAppends DEF ListInv
<1>2. decisions' = decisions
  BY DEF AtomicRollback
<1>3. ASSUME NEW n \in DOMAIN decisionList', n \notin DOMAIN decisionList
      PROVE  /\ decisionList'[n].decision = "rollback"
             /\ \E m \in DOMAIN decisionList :
                  /\ decisionList[m].cohort = decisionList'[n].cohort
                  /\ decisionList[m].proposal = decisionList'[n].proposal
                  /\ decisionList[m].decision # "rollback"
  <2>1. PICK m \in Standing(p) : decisionList'[n] = Overturned(decisionList[m])
    BY <1>1, <1>3
  <2> QED BY <2>1 DEF Standing, Overturned, Decision
<1>4. ASSUME NEW n \in DOMAIN decisionList'
      PROVE  \E m \in DOMAIN decisionList :
               /\ decisionList[m].cohort = decisionList'[n].cohort
               /\ decisionList[m].proposal = decisionList'[n].proposal
  <2>1. CASE n \in DOMAIN decisionList
    BY <1>1, <2>1
  <2>2. CASE n \notin DOMAIN decisionList
    BY <1>3, <2>2
  <2> QED BY <2>1, <2>2
<1>5. \A n \in DOMAIN decisionList' : decisionList'[n].cohort \in decisions'
  BY <1>2, <1>4 DEF ListInv
<1>6. \A n \in DOMAIN decisionList' : n \in Nat
  BY <1>1
<1>7. ASSUME NEW m \in DOMAIN decisionList', NEW n \in DOMAIN decisionList',
             decisionList'[m].cohort = decisionList'[n].cohort
      PROVE  /\ decisionList'[m].proposal = decisionList'[n].proposal
             /\ m < n => decisionList'[n].decision = "rollback"
  <2>1. decisionList'[m].proposal = decisionList'[n].proposal
    <3>1. PICK g \in DOMAIN decisionList :
            /\ decisionList[g].cohort = decisionList'[m].cohort
            /\ decisionList[g].proposal = decisionList'[m].proposal
      BY <1>4
    <3>2. PICK h \in DOMAIN decisionList :
            /\ decisionList[h].cohort = decisionList'[n].cohort
            /\ decisionList[h].proposal = decisionList'[n].proposal
      BY <1>4
    <3>3. decisionList[g].proposal = decisionList[h].proposal
      BY <1>7, <3>1, <3>2 DEF ListInv
    <3> QED BY <3>1, <3>2, <3>3
  <2>2. CASE n \notin DOMAIN decisionList
    BY <1>3, <2>1, <2>2
  <2>3. CASE n \in DOMAIN decisionList /\ m \in DOMAIN decisionList
    BY <1>1, <1>7, <2>1, <2>3 DEF ListInv
  <2>4. CASE n \in DOMAIN decisionList /\ m \notin DOMAIN decisionList
    <3>1. n < m /\ m \in Nat /\ n \in Nat
      BY <1>1, <1>6, <2>4
    <3>2. ~ (m < n)
      BY ONLY <3>1
    <3> QED BY <2>1, <3>2
  <2> QED BY <2>2, <2>3, <2>4
<1>8. ListInv'
  BY <1>1, <1>5, <1>7 DEF ListInv
<1>9. ASSUME NEW c \in Cohort, RolledBack(c, decisionList) PROVE RolledBack(c, decisionList')
  <2>1. On(c, decisionList) \subseteq On(c, decisionList') /\ On(c, decisionList) # {}
    BY <1>1, <1>9 DEF On, RolledBack
  <2>2. ASSUME NEW n \in On(c, decisionList'), \A m \in On(c, decisionList') : m <= n
        PROVE  decisionList'[n].decision = "rollback"
    <3>1. CASE n \notin DOMAIN decisionList
      BY <1>3, <3>1 DEF On
    <3>2. CASE n \in DOMAIN decisionList
      <4>1. n \in On(c, decisionList) /\ decisionList'[n] = decisionList[n]
        BY <1>1, <3>2 DEF On
      <4>2. \A m \in On(c, decisionList) : m <= n
        BY <2>1, <2>2
      <4> QED BY <1>9, <4>1, <4>2 DEF RolledBack
    <3> QED BY <3>1, <3>2
  <2> QED BY <2>1, <2>2 DEF RolledBack
<1>10. ASSUME NEW c \in Cohort, NEW d \in ToSet(decisionList), d.proposal = p, d.cohort = c
       PROVE  RolledBack(c, decisionList')
  <2>1. PICK g \in DOMAIN decisionList : decisionList[g] = d
    BY DEF ToSet
  <2>2. g \in On(c, decisionList')
    BY <1>1, <1>10, <2>1 DEF On
  <2>3. ASSUME NEW n \in On(c, decisionList'), \A m \in On(c, decisionList') : m <= n
        PROVE  decisionList'[n].decision = "rollback"
    <3>1. CASE n \notin DOMAIN decisionList
      BY <1>3, <3>1 DEF On
    <3>2. CASE n \in DOMAIN decisionList
      <4>1. decisionList'[n] = decisionList[n] /\ decisionList[n].cohort = c
        BY <1>1, <3>2 DEF On
      <4>2. decisionList[n].proposal = p
        BY <1>10, <2>1, <3>2, <4>1 DEF ListInv
      <4>3. SUFFICES ASSUME decisionList[n].decision # "rollback" PROVE FALSE
        BY <4>1
      <4>4. n \in Standing(p)
        BY <3>2, <4>2, <4>3 DEF Standing
      <4>5. PICK h \in DOMAIN decisionList' \ DOMAIN decisionList :
              decisionList'[h] = Overturned(decisionList[n])
        BY <1>1, <4>4
      <4>6. h \in On(c, decisionList')
        BY <4>1, <4>5 DEF On, Overturned, Decision
      <4>7. h <= n /\ n < h /\ h \in Nat /\ n \in Nat
        BY <1>1, <1>6, <2>3, <3>2, <4>5, <4>6, SMTT(90)
      <4> QED BY ONLY <4>7
    <3> QED BY <3>1, <3>2
  <2> QED BY <2>2, <2>3 DEF RolledBack
<1> QED BY <1>8, <1>9, <1>10

\* Every step keeps the list of decisions so.
LEMMA ListStep ==
  ASSUME RolloutInv, ListInv, [CohortNext]_rolloutVars
  PROVE  /\ ListInv'
         /\ decisionList' # decisionList => \A c \in Cohort :
              \/ RolledBack(c, decisionList)
              \/ \E p \in Proposal : /\ AtomicRollback(p)
                                     /\ \E d \in ToSet(decisionList) : d.proposal = p /\ d.cohort = c
              => RolledBack(c, decisionList')
<1>1. CASE UNCHANGED <<decisions, decisionList>>
  BY <1>1 DEF ListInv
<1>2. ASSUME NEW i \in DOMAIN assignments, NEW complete \in BOOLEAN, Evaluate(i, complete)
      PROVE  /\ ListInv'
             /\ \A c \in Cohort : RolledBack(c, decisionList) => RolledBack(c, decisionList')
             /\ \A p \in Proposal : ~ AtomicRollback(p)
  <2>1. PICK d \in DecisionRecord : d.cohort = assignments[i].cohort /\ decisionList' = Append(decisionList, d)
    BY <1>2, DecisionAdded DEF RolloutInv
  <2>2. d.cohort \notin decisions /\ decisions' = decisions \cup {d.cohort}
    BY <1>2, <2>1 DEF Evaluate
  <2>3. PICK k \in Nat : k = Len(decisionList) + 1
    BY DEF ListInv
  <2>4. /\ decisionList' \in Seq(DecisionRecord) /\ DOMAIN decisionList' = DOMAIN decisionList \cup {k}
        /\ decisionList'[k] = d /\ \A j \in DOMAIN decisionList : decisionList'[j] = decisionList[j]
    BY <2>1, <2>3, Longer DEF ListInv
  <2>5. \A n \in DOMAIN decisionList : decisionList[n].cohort \in decisions /\ decisionList[n].cohort # d.cohort
    BY <2>2 DEF ListInv
  <2>6. \A n \in DOMAIN decisionList' : decisionList'[n].cohort \in decisions'
    BY <2>2, <2>4, <2>5
  <2>7. ~ (k < k)
    OBVIOUS
  <2>8. ASSUME NEW m \in DOMAIN decisionList', NEW n \in DOMAIN decisionList',
               decisionList'[m].cohort = decisionList'[n].cohort
        PROVE  /\ decisionList'[m].proposal = decisionList'[n].proposal
               /\ m < n => decisionList'[n].decision = "rollback"
    <3>1. CASE m = k
      BY <2>4, <2>5, <2>7, <2>8, <3>1
    <3>2. CASE n = k
      BY <2>4, <2>5, <2>7, <2>8, <3>2
    <3>3. CASE m # k /\ n # k
      <4>1. m \in DOMAIN decisionList /\ n \in DOMAIN decisionList
        BY <2>4, <3>3
      <4> QED BY <2>4, <2>8, <4>1 DEF ListInv
    <3> QED BY <3>1, <3>2, <3>3
  <2>9. ListInv'
    BY <2>4, <2>6, <2>8 DEF ListInv
  <2>10. ASSUME NEW c \in Cohort, RolledBack(c, decisionList) PROVE RolledBack(c, decisionList')
    <3>1. c # d.cohort
      BY <2>5, <2>10 DEF RolledBack, On
    <3>2. On(c, decisionList') = On(c, decisionList)
      BY <2>4, <3>1 DEF On
    <3>3. \A n \in On(c, decisionList) : decisionList'[n] = decisionList[n]
      BY <2>4 DEF On
    <3> QED BY <2>10, <3>2, <3>3 DEF RolledBack
  <2>11. \A p \in Proposal : ~ AtomicRollback(p)
    BY <2>2 DEF AtomicRollback
  <2> QED BY <2>9, <2>10, <2>11
<1>3. ASSUME NEW p \in Proposal, AtomicRollback(p)
      PROVE  /\ ListInv'
             /\ \A c \in Cohort :
                  \/ RolledBack(c, decisionList)
                  \/ \E d \in ToSet(decisionList) : d.proposal = p /\ d.cohort = c
                  => RolledBack(c, decisionList')
  BY <1>3, RollbackReaches
<1>4. ASSUME NEW p \in Proposal, AtomicRollback(p)
      PROVE  decisions' = decisions /\ \A q \in Proposal : AtomicRollback(q) =>
               \A c \in Cohort :
                  \/ RolledBack(c, decisionList)
                  \/ \E d \in ToSet(decisionList) : d.proposal = q /\ d.cohort = c
                  => RolledBack(c, decisionList')
  BY <1>3, <1>4 DEF AtomicRollback
<1>5. \/ UNCHANGED <<decisions, decisionList>>
      \/ \E i \in DOMAIN assignments, complete \in BOOLEAN : Evaluate(i, complete)
      \/ \E p \in Proposal : AtomicRollback(p)
  BY ZenonT(90)
     DEF CohortNext, rolloutVars, RegisterCohort, Allocate, Progress, Observe, ClearObservations
<1> QED BY <1>1, <1>2, <1>3, <1>4, <1>5

\* What was rolled back stays so, and an atomic rollback reaches every cohort its proposal
\* was decided in (cohort-promotion-engine.ts:162-168, 272-321), for any cohorts,
\* proposals and metrics.
THEOREM RollbacksStand == CohortSpec => RollbackStands
<1>1. CohortInit => ListInv
  <2>1. <<>> \in Seq(DecisionRecord) /\ DOMAIN <<>> = {}
    OBVIOUS
  <2> QED BY <2>1 DEF CohortInit, ListInv
<1>2. RolloutInv /\ ListInv /\ [CohortNext]_rolloutVars
        => [decisionList' # decisionList => \A c \in Cohort :
              \/ RolledBack(c, decisionList)
              \/ \E p \in Proposal : /\ AtomicRollback(p)
                                     /\ \E d \in ToSet(decisionList) : d.proposal = p /\ d.cohort = c
              => RolledBack(c, decisionList')]_rolloutVars
  BY ListStep
<1>3. RolloutInv /\ ListInv /\ [CohortNext]_rolloutVars => ListInv'
  BY ListStep
<1> QED BY <1>1, <1>2, <1>3, RolloutKept, PTL DEF CohortSpec, RollbackStands

-----------------------------------------------------------------------------
(* The promise of a rollout, that the engines keep.                        *)

\* No two assignments are of one member.
MembersOnce == \A i, j \in DOMAIN assignments : Member(i) = Member(j) => i = j

\* Where the member of an assignment is, before a step and after it.
LEMMA JourneyGives ==
  ASSUME NEW i, NEW m
  PROVE  /\ MembersOnce /\ i \in DOMAIN assignments /\ Member(i) = m =>
              /\ m \in Members
              /\ Journey(m) = [at |-> assignments[i].cohort,
                               left |-> {progressions[n].from : n \in Of(i)}]
         /\ MembersOnce' /\ i \in DOMAIN assignments' /\ Member(i)' = m =>
              /\ m \in Members'
              /\ Journey(m)' = [at |-> assignments'[i].cohort,
                                left |-> {progressions'[n].from : n \in Of(i)'}]
<1>1. ASSUME MembersOnce, i \in DOMAIN assignments, Member(i) = m
      PROVE  (CHOOSE j \in DOMAIN assignments : Member(j) = m) = i
  BY <1>1 DEF MembersOnce
<1>2. ASSUME MembersOnce', i \in DOMAIN assignments', Member(i)' = m
      PROVE  (CHOOSE j \in DOMAIN assignments' : Member(j)' = m) = i
  BY <1>2 DEF MembersOnce
<1> QED BY <1>1, <1>2 DEF Journey, Members

\* What a list says last of a cohort, before a step and after it.
LEMMA FateGives ==
  ASSUME NEW c, NEW n
  PROVE  /\ ListInv /\ n \in On(c, decisionList) /\ (\A k \in On(c, decisionList) : k <= n) =>
              /\ c \in Judged
              /\ Fate(c) = [proposal |-> decisionList[n].proposal, decision |-> decisionList[n].decision]
         /\ ListInv' /\ n \in On(c, decisionList') /\ (\A k \in On(c, decisionList') : k <= n) =>
              /\ c \in Judged'
              /\ Fate(c)' = [proposal |-> decisionList'[n].proposal, decision |-> decisionList'[n].decision]
<1>1. ASSUME NEW S \in SUBSET Nat, n \in S, \A k \in S : k <= n
      PROVE  (CHOOSE j \in S : \A k \in S : k <= j) = n
  <2>1. \A j \in S : (\A k \in S : k <= j) => j = n
    BY <1>1
  <2> QED BY <1>1, <2>1
<1>2. /\ ListInv => On(c, decisionList) \in SUBSET Nat
      /\ ListInv' => On(c, decisionList') \in SUBSET Nat
  BY DEF ListInv, On
<1>3. ASSUME ListInv, n \in On(c, decisionList), \A k \in On(c, decisionList) : k <= n
      PROVE  /\ c \in Judged
             /\ Fate(c) = [proposal |-> decisionList[n].proposal, decision |-> decisionList[n].decision]
  <2>1. (CHOOSE j \in On(c, decisionList) : \A k \in On(c, decisionList) : k <= j) = n
    BY <1>1, <1>2, <1>3
  <2>2. c \in Judged
    BY <1>3 DEF On, Judged
  <2> QED BY <2>1, <2>2 DEF Fate
<1>4. ASSUME ListInv', n \in On(c, decisionList'), \A k \in On(c, decisionList') : k <= n
      PROVE  /\ c \in Judged'
             /\ Fate(c)' = [proposal |-> decisionList'[n].proposal, decision |-> decisionList'[n].decision]
  <2>1. (CHOOSE j \in On(c, decisionList') : \A k \in On(c, decisionList') : k <= j) = n
    BY <1>1, <1>2, <1>4
  <2>2. c \in Judged'
    BY <1>4 DEF On, Judged
  <2> QED BY <2>1, <2>2 DEF Fate
<1> QED BY <1>3, <1>4

\* A list has a last decision on a cohort it judges.
LEMMA LastGiven ==
  ASSUME NEW list \in Seq(DecisionRecord), NEW c, On(c, list) # {}
  PROVE  \E n \in On(c, list) : \A k \in On(c, list) : k <= n
<1>1. PICK N \in Nat : N = Len(list) /\ DOMAIN list = 1..N
  OBVIOUS
<1>2. On(c, list) \subseteq 1..N
  BY <1>1 DEF On
<1>3. PICK T : T = {m \in 0..N : N - m \in On(c, list)}
  OBVIOUS
<1>4. T \subseteq Nat /\ T # {}
  <2>1. PICK n \in On(c, list) : TRUE
    OBVIOUS
  <2>2. n \in 1..N
    BY <1>2
  <2>3. N - n \in 0..N /\ N - (N - n) = n
    BY <2>2
  <2>4. N - n \in T
    BY <1>3, <2>1, <2>3
  <2> QED BY <1>3, <2>4
<1>5. PICK m \in T : \A k \in T : m <= k
  BY ONLY <1>4, Smallest
<1>6. m \in 0..N /\ N - m \in On(c, list)
  BY <1>3
<1>7. ASSUME NEW k \in On(c, list) PROVE k <= N - m
  <2>1. k \in 1..N
    BY <1>2
  <2>2. N - k \in 0..N /\ N - (N - k) = k
    BY <2>1
  <2>3. N - k \in T
    BY <1>3, <2>2
  <2>4. m <= N - k
    BY <1>5, <2>3
  <2> QED BY <1>6, <2>1, <2>4
<1> QED BY <1>6, <1>7

-----------------------------------------------------------------------------
(* The calls, as steps of the promise.                                     *)

\* Calls that change neither the assignments nor their log leave every member in place.
LEMMA JourneysStay ==
  ASSUME UNCHANGED <<assignments, progressions>>
  PROVE  UNCHANGED [m \in Members |-> Journey(m)]
  BY DEF Members, Member, Journey, Of

\* Calls that leave the list of decisions leave the fate of every cohort.
LEMMA FatesStay ==
  ASSUME UNCHANGED decisionList
  PROVE  UNCHANGED [c \in Judged |-> Fate(c)]
  BY DEF Judged, Fate, On

\* An assignment brings in its member.
LEMMA AllocateEnters ==
  ASSUME RolloutInv, MembersOnce, NEW p \in Proposal, NEW u \in User \cup {NoUser},
         NEW size \in Target, Allocate(p, u, size)
  PROVE  /\ MembersOnce'
         /\ \E m \in Members', c \in Cohort : Promise!Enter(m, c)
<1>0. /\ CohortTypeOK
      /\ \A n \in DOMAIN progressions : progressions[n].assignment \in DOMAIN assignments
  BY DEF RolloutInv
<1>1. PICK c \in Cohort, a \in Assignment :
        /\ assignments' = Append(assignments, a)
        /\ a.proposal = p /\ a.user = u /\ a.cohort = c
  <2>1. PICK n \in DOMAIN cohorts :
          assignments' = Append(assignments, [proposal |-> p, user |-> u, cohort |-> cohorts[n],
                                              size |-> CohortSize[cohorts[n]], stage |-> 0])
    BY DEF Allocate
  <2>2. cohorts[n] \in Cohort
    BY <1>0 DEF CohortTypeOK
  <2>3. CohortSize[cohorts[n]] \in Int
    <3>1. CohortSize \in [Cohort -> 1..1000]
      BY CohortConstants, Zenon
    <3> QED BY ONLY <2>2, <3>1
  <2> DEFINE a == [proposal |-> p, user |-> u, cohort |-> cohorts[n],
                   size |-> CohortSize[cohorts[n]], stage |-> 0]
  <2>4. a \in Assignment /\ a.proposal = p /\ a.user = u /\ a.cohort = cohorts[n]
    BY ONLY <2>2, <2>3, p \in Proposal, u \in User \cup {NoUser} DEF Assignment
  <2> QED BY <2>1, <2>2, <2>4
<1>2. /\ \A i \in DOMAIN assignments : Member(i) # <<p, u>>
      /\ UNCHANGED <<progressions, decisionList>>
  BY DEF Allocate, Member
<1>3. PICK k \in Nat : k = Len(assignments) + 1
  BY <1>0 DEF CohortTypeOK
<1>4. /\ DOMAIN assignments' = DOMAIN assignments \cup {k} /\ assignments'[k] = a
      /\ \A i \in DOMAIN assignments : assignments'[i] = assignments[i]
  BY <1>0, <1>1, <1>3, Longer, SMTT(90) DEF CohortTypeOK
<1>5. k \notin DOMAIN assignments
  BY <1>0, <1>3 DEF CohortTypeOK
<1>6. PICK m : m = <<p, u>>
  OBVIOUS
<1>7. Member(k)' = m /\ \A i \in DOMAIN assignments : Member(i)' = Member(i) /\ Member(i) # m
  BY <1>1, <1>2, <1>4, <1>6 DEF Member
<1>8. MembersOnce'
  BY <1>4, <1>5, <1>7 DEF MembersOnce
<1>9. Members' = Members \cup {m} /\ m \notin Members
  BY <1>4, <1>7 DEF Members
<1>10. \A i : Of(i)' = Of(i)
  BY <1>2 DEF Of
<1>11. Of(k) = {}
  BY <1>0, <1>5 DEF Of
<1>12. Journey(m)' = [at |-> c, left |-> {}]
  <2>1. k \in DOMAIN assignments' /\ assignments'[k].cohort = c
    BY <1>1, <1>4
  <2>2. Journey(m)' = [at |-> assignments'[k].cohort, left |-> {progressions'[n].from : n \in Of(k)'}]
    BY <1>7, <1>8, <2>1, JourneyGives
  <2>3. {progressions'[n].from : n \in Of(k)'} = {}
    BY <1>10, <1>11
  <2> QED BY ONLY <2>1, <2>2, <2>3
<1>13. ASSUME NEW x \in Members PROVE Journey(x)' = Journey(x)
  <2>1. PICK i \in DOMAIN assignments : Member(i) = x
    BY DEF Members
  <2>2. i \in DOMAIN assignments' /\ Member(i)' = x /\ assignments'[i] = assignments[i]
    BY <1>4, <1>7, <2>1
  <2>3. Journey(x) = [at |-> assignments[i].cohort, left |-> {progressions[n].from : n \in Of(i)}]
    BY <2>1, JourneyGives
  <2>4. Journey(x)' = [at |-> assignments'[i].cohort, left |-> {progressions'[n].from : n \in Of(i)'}]
    BY <1>8, <2>2, JourneyGives
  <2> QED BY <1>2, <1>10, <2>2, <2>3, <2>4
<1>14. Promise!Enter(m, c)
  <2>1. [x \in Members |-> Journey(x)]' = [x \in Members' |-> Journey(x)']
    OBVIOUS
  <2>2. [x \in Members' |-> Journey(x)'] =
          [x \in Members \cup {m} |->
             IF x = m THEN [at |-> c, left |-> {}] ELSE [y \in Members |-> Journey(y)][x]]
    BY <1>9, <1>12, <1>13, Zenon
  <2>3. UNCHANGED [d \in Judged |-> Fate(d)]
    BY <1>2, FatesStay
  <2> QED BY <1>9, <2>1, <2>2, <2>3, Zenon DEF Promise!Enter
<1> QED BY <1>8, <1>9, <1>14

\* A progression takes its member up to a cohort it has not been in.
LEMMA ProgressMovesUp ==
  ASSUME RolloutInv, MembersOnce, NEW i \in DOMAIN assignments, Progress(i)
  PROVE  /\ MembersOnce'
         /\ \E m \in Members', c \in Cohort : Promise!MoveUp(m, c)
<1>0. CohortTypeOK /\ ChainInv(i) /\ assignments[i] \in Assignment
  BY DEF RolloutInv, CohortTypeOK
<1>1. PICK own : own = assignments[i]
  OBVIOUS
<1>2. /\ own \in Assignment /\ own.cohort \in Cohort /\ Known(own.cohort)
  <2>1. own \in Assignment /\ Known(own.cohort)
    BY <1>0, <1>1 DEF ChainInv
  <2>2. own.cohort \in Cohort
    BY ONLY <2>1 DEF Assignment
  <2> QED BY <2>1, <2>2
<1>3. PICK c \in NextCohorts(own.cohort) :
        /\ progressions' = Append(progressions, [assignment |-> i, from |-> own.cohort,
                                                 to |-> c, stage |-> own.stage + 1])
        /\ assignments' = [assignments EXCEPT ![i] = Moved(own, c)]
        /\ UNCHANGED decisionList
  BY <1>1 DEF Progress
<1>4. Known(c) /\ c \in Cohort /\ Precedes(own.cohort, c)
  <2>1. c \in ToSet(cohorts) /\ Precedes(own.cohort, c)
    BY DEF NextCohorts
  <2>2. Known(c)
    BY <1>0, <2>1 DEF ToSet, Known, CohortTypeOK
  <2> QED BY <2>1, <2>2 DEF Known
<1>5. own.cohort # c /\ CohortSize[own.cohort] <= CohortSize[c]
  BY <1>0, <1>2, <1>4, StrictOrder
<1>6. PICK moved : moved = [own EXCEPT !.cohort = c, !.size = CohortSize[c], !.stage = own.stage + 1]
  OBVIOUS
<1>7. moved.proposal = own.proposal /\ moved.user = own.user /\ moved.cohort = c
  BY ONLY <1>2, <1>6 DEF Assignment
<1>8. /\ DOMAIN assignments' = DOMAIN assignments /\ assignments'[i] = moved
      /\ \A j \in DOMAIN assignments : j # i => assignments'[j] = assignments[j]
  <2>1. assignments' = [assignments EXCEPT ![i] = moved]
    BY <1>3, <1>6 DEF Moved
  <2> QED BY ONLY <2>1, i \in DOMAIN assignments
<1>9. \A j \in DOMAIN assignments : Member(j)' = Member(j)
  BY <1>1, <1>7, <1>8 DEF Member
<1>10. MembersOnce' /\ Members' = Members
  BY <1>8, <1>9 DEF MembersOnce, Members
<1>11. PICK r : r = [assignment |-> i, from |-> own.cohort, to |-> c, stage |-> own.stage + 1]
  OBVIOUS
<1>12. PICK k \in Nat : k = Len(progressions) + 1
  BY <1>0 DEF CohortTypeOK
<1>13. /\ DOMAIN progressions' = DOMAIN progressions \cup {k} /\ progressions'[k] = r
       /\ \A n \in DOMAIN progressions : progressions'[n] = progressions[n]
  <2>1. \A n \in DOMAIN progressions : progressions[n] \in Progression
    BY <1>0 DEF CohortTypeOK
  <2>2. PICK S : S = Progression \cup {r}
    OBVIOUS
  <2>3. progressions \in Seq(S) /\ r \in S
    BY <1>0, <2>2 DEF CohortTypeOK
  <2>4. progressions' = Append(progressions, r)
    BY <1>3, <1>11
  <2> QED BY ONLY <2>3, <2>4, <1>12, Longer
<1>14. r.assignment = i /\ r.from = own.cohort
  BY <1>11
<1>15. Of(i)' = Of(i) \cup {k} /\ \A j \in DOMAIN assignments : j # i => Of(j)' = Of(j)
  <2>1. k \notin DOMAIN progressions
    BY <1>0, <1>12 DEF CohortTypeOK
  <2> QED BY <1>13, <1>14, <2>1 DEF Of
<1>16. PICK left : left = {progressions[n].from : n \in Of(i)}
  OBVIOUS
<1>17. {progressions'[n].from : n \in Of(i)'} = left \cup {own.cohort}
  <2>1. \A n \in Of(i) : progressions'[n] = progressions[n]
    BY <1>13 DEF Of
  <2> QED BY <1>13, <1>14, <1>15, <1>16, <2>1
<1>18. c \notin left \cup {own.cohort}
  <2>1. ASSUME NEW n \in Of(i) PROVE progressions[n].from # c
    <3>1. Known(progressions[n].from) /\ Precedes(progressions[n].from, own.cohort)
      BY <1>0, <1>1 DEF ChainInv, Link
    <3>2. Precedes(progressions[n].from, c)
      BY <1>0, <1>2, <1>4, <3>1, StrictOrder
    <3> QED BY <1>0, <1>4, <3>1, <3>2, StrictOrder
  <2> QED BY <1>5, <1>16, <2>1
<1>19. PICK m : m = Member(i)
  OBVIOUS
<1>20. m \in Members /\ Journey(m) = [at |-> own.cohort, left |-> left]
  BY <1>1, <1>16, <1>19, JourneyGives
<1>21. Journey(m)' = [at |-> c, left |-> left \cup {own.cohort}]
  <2>1. i \in DOMAIN assignments' /\ Member(i)' = m /\ assignments'[i].cohort = c
    BY <1>7, <1>8, <1>9, <1>19
  <2>2. Journey(m)' = [at |-> assignments'[i].cohort, left |-> {progressions'[n].from : n \in Of(i)'}]
    BY <1>10, <2>1, JourneyGives
  <2> QED BY <1>17, <2>1, <2>2
<1>22. ASSUME NEW x \in Members, x # m PROVE Journey(x)' = Journey(x)
  <2>1. PICK j \in DOMAIN assignments : Member(j) = x
    BY DEF Members
  <2>2. j # i /\ j \in DOMAIN assignments' /\ Member(j)' = x /\ assignments'[j] = assignments[j]
    BY <1>8, <1>9, <1>19, <1>22, <2>1
  <2>3. Of(j)' = Of(j) /\ \A n \in Of(j) : progressions'[n] = progressions[n]
    BY <1>13, <1>15, <2>2 DEF Of
  <2>4. Journey(x) = [at |-> assignments[j].cohort, left |-> {progressions[n].from : n \in Of(j)}]
    BY <2>1, JourneyGives
  <2>5. Journey(x)' = [at |-> assignments'[j].cohort, left |-> {progressions'[n].from : n \in Of(j)'}]
    BY <1>10, <2>2, JourneyGives
  <2> QED BY <2>2, <2>3, <2>4, <2>5
<1>23. Promise!MoveUp(m, c)
  <2>1. PICK J : J = [x \in Members |-> Journey(x)]
    OBVIOUS
  <2>2. J[m].at = own.cohort /\ J[m].left = left /\ DOMAIN J = Members
    BY <1>20, <2>1
  <2>3. [x \in Members |-> Journey(x)]' = [x \in Members' |-> Journey(x)']
    OBVIOUS
  <2>4. [x \in Members' |-> Journey(x)'] =
          [x \in Members |-> IF x = m THEN [at |-> c, left |-> left \cup {own.cohort}] ELSE J[x]]
    BY <1>10, <1>21, <1>22, <2>1, Zenon
  <2>5. UNCHANGED [d \in Judged |-> Fate(d)]
    BY <1>3, FatesStay
  <2> QED BY <1>5, <1>18, <1>20, <2>1, <2>2, <2>3, <2>4, <2>5 DEF Promise!MoveUp
<1> QED BY <1>4, <1>10, <1>20, <1>23

\* An evaluation decides on the cohort of its assignment.
LEMMA EvaluateDecides ==
  ASSUME RolloutInv, MembersOnce, ListInv, ListInv', NEW i \in DOMAIN assignments,
         NEW complete, Evaluate(i, complete)
  PROVE  \E m \in Members, decision \in Sentence : Promise!Decide(m, decision)
<1>0. CohortTypeOK
  BY DEF RolloutInv
<1>1. PICK d \in DecisionRecord :
        /\ d.cohort = assignments[i].cohort /\ d.proposal = assignments[i].proposal
        /\ decisionList' = Append(decisionList, d)
  BY <1>0, DecisionAdded
<1>2. PICK c : c = d.cohort
  OBVIOUS
<1>3. d.decision \in Sentence
  BY ONLY d \in DecisionRecord DEF DecisionRecord
<1>4. /\ c \notin decisions /\ UNCHANGED <<assignments, progressions>>
  BY <1>1, <1>2 DEF Evaluate
<1>5. c \notin Judged
  BY <1>4 DEF ListInv, Judged
<1>6. PICK k \in Nat : k = Len(decisionList) + 1
  BY DEF ListInv
<1>7. /\ DOMAIN decisionList' = DOMAIN decisionList \cup {k}
      /\ decisionList'[k] = d /\ \A j \in DOMAIN decisionList : decisionList'[j] = decisionList[j]
  BY <1>1, <1>6, Longer DEF ListInv
<1>8. Judged' = Judged \cup {c}
  BY <1>2, <1>7 DEF Judged
<1>9. Fate(c)' = [proposal |-> d.proposal, decision |-> d.decision]
  <2>1. \A n \in DOMAIN decisionList : decisionList[n].cohort # c
    BY <1>5 DEF Judged
  <2>2. On(c, decisionList') = {k}
    BY <1>2, <1>7, <2>1 DEF On
  <2>3. k \in On(c, decisionList') /\ \A n \in On(c, decisionList') : n <= k
    BY <2>2
  <2>4. Fate(c)' = [proposal |-> decisionList'[k].proposal, decision |-> decisionList'[k].decision]
    BY <2>3, FateGives
  <2> QED BY <1>7, <2>4
<1>10. ASSUME NEW x \in Judged PROVE Fate(x)' = Fate(x)
  <2>1. x # c
    BY <1>5
  <2>2. On(x, decisionList') = On(x, decisionList)
    BY <1>2, <1>7, <2>1 DEF On
  <2>3. On(x, decisionList) # {}
    BY DEF Judged, On
  <2>4. PICK n \in On(x, decisionList) : \A j \in On(x, decisionList) : j <= n
    BY <2>3, LastGiven DEF ListInv
  <2>5. decisionList'[n] = decisionList[n]
    BY <1>7 DEF On
  <2>6. Fate(x) = [proposal |-> decisionList[n].proposal, decision |-> decisionList[n].decision]
    BY <2>4, FateGives
  <2>7. Fate(x)' = [proposal |-> decisionList'[n].proposal, decision |-> decisionList'[n].decision]
    BY <2>2, <2>4, FateGives
  <2> QED BY <2>5, <2>6, <2>7
<1>11. PICK m : m = Member(i)
  OBVIOUS
<1>12. m \in Members /\ Journey(m).at = c /\ m[1] = d.proposal
  <2>1. m \in Members /\ Journey(m) = [at |-> assignments[i].cohort, left |-> {progressions[n].from : n \in Of(i)}]
    BY <1>11, JourneyGives
  <2> QED BY <1>1, <1>2, <1>11, <2>1 DEF Member
<1>13. Promise!Decide(m, d.decision)
  <2>1. PICK F : F = [x \in Judged |-> Fate(x)]
    OBVIOUS
  <2>2. [x \in Members |-> Journey(x)][m].at = c
    BY <1>12
  <2>3. [x \in Judged |-> Fate(x)]' = [x \in Judged' |-> Fate(x)']
    OBVIOUS
  <2>4. [x \in Judged' |-> Fate(x)'] =
          [x \in Judged \cup {c} |->
             IF x = c THEN [proposal |-> m[1], decision |-> d.decision] ELSE F[x]]
    BY <1>5, <1>8, <1>9, <1>10, <1>12, <2>1, Zenon
  <2>5. UNCHANGED [x \in Members |-> Journey(x)]
    BY <1>4, JourneysStay
  <2> QED BY <1>5, <1>12, <2>1, <2>2, <2>3, <2>4, <2>5 DEF Promise!Decide
<1> QED BY <1>3, <1>12, <1>13

\* An atomic rollback rolls back the cohorts of its proposal, and no other.
LEMMA RollbackRollsBack ==
  ASSUME ListInv, ListInv', NEW p \in Proposal, AtomicRollback(p)
  PROVE  Promise!RollBack(p) /\ \E c \in Judged : Fate(c).proposal = p
<1>1. /\ decisionList' \in Seq(DecisionRecord)
      /\ DOMAIN decisionList \subseteq DOMAIN decisionList'
      /\ \A n \in DOMAIN decisionList : decisionList'[n] = decisionList[n]
      /\ \A n \in DOMAIN decisionList' \ DOMAIN decisionList :
           \E m \in Standing(p) : decisionList'[n] = Overturned(decisionList[m])
  BY RollbackAppends DEF ListInv
<1>2. /\ UNCHANGED <<assignments, progressions>>
      /\ Standing(p) # {}
  BY DEF AtomicRollback
<1>3. ASSUME NEW n \in DOMAIN decisionList'
      PROVE  \E m \in DOMAIN decisionList :
               /\ decisionList[m].cohort = decisionList'[n].cohort
               /\ decisionList[m].proposal = decisionList'[n].proposal
               /\ n \in DOMAIN decisionList \/ decisionList'[n].proposal = p
  <2>1. CASE n \in DOMAIN decisionList
    BY <1>1, <2>1
  <2>2. CASE n \notin DOMAIN decisionList
    <3>1. PICK m \in Standing(p) : decisionList'[n] = Overturned(decisionList[m])
      BY <1>1, <2>2
    <3> QED BY <3>1 DEF Standing, Overturned, Decision
  <2> QED BY <2>1, <2>2
<1>4. Judged' = Judged
  <2>1. Judged \subseteq Judged'
    BY <1>1 DEF Judged
  <2>2. Judged' \subseteq Judged
    BY <1>3 DEF Judged
  <2> QED BY <2>1, <2>2
<1>5. ASSUME NEW x \in Judged
      PROVE  /\ Fate(x).proposal = p => Fate(x)' = [proposal |-> p, decision |-> "rollback"]
             /\ Fate(x).proposal # p => Fate(x)' = Fate(x)
  <2>1. On(x, decisionList) # {}
    BY DEF Judged, On
  <2>2. PICK n \in On(x, decisionList) : \A j \in On(x, decisionList) : j <= n
    BY <2>1, LastGiven DEF ListInv
  <2>3. Fate(x) = [proposal |-> decisionList[n].proposal, decision |-> decisionList[n].decision]
    BY <2>2, FateGives
  <2>4. n \in DOMAIN decisionList /\ decisionList[n].cohort = x
    BY DEF On
  <2>5. CASE decisionList[n].proposal = p
    <3>1. x \in Cohort
      <4>1. decisionList[n] \in DecisionRecord
        BY <2>4 DEF ListInv
      <4>2. decisionList[n].cohort \in Cohort
        BY ONLY <4>1 DEF DecisionRecord
      <4> QED BY <2>4, <4>2
    <3>2. decisionList[n] \in ToSet(decisionList)
      BY <2>4 DEF ToSet
    <3>3. RolledBack(x, decisionList')
      BY <2>4, <2>5, <3>1, <3>2, RollbackReaches
    <3>4. On(x, decisionList') # {}
      BY <3>3 DEF RolledBack
    <3>5. PICK k \in On(x, decisionList') : \A j \in On(x, decisionList') : j <= k
      BY <1>1, <3>4, LastGiven
    <3>6. decisionList'[k].decision = "rollback"
      BY <3>3, <3>5 DEF RolledBack
    <3>7. decisionList'[k].proposal = p
      <4>1. k \in DOMAIN decisionList' /\ decisionList'[k].cohort = x
        BY DEF On
      <4>2. n \in DOMAIN decisionList' /\ decisionList'[n] = decisionList[n]
        BY <1>1, <2>4
      <4> QED BY <2>4, <2>5, <4>1, <4>2 DEF ListInv
    <3>8. Fate(x)' = [proposal |-> decisionList'[k].proposal, decision |-> decisionList'[k].decision]
      BY <3>5, FateGives
    <3> QED BY <2>3, <2>5, <3>6, <3>7, <3>8
  <2>6. CASE decisionList[n].proposal # p
    <3>1. ASSUME NEW k \in On(x, decisionList') PROVE k \in DOMAIN decisionList
      <4>1. k \in DOMAIN decisionList' /\ decisionList'[k].cohort = x
        BY DEF On
      <4>2. n \in DOMAIN decisionList' /\ decisionList'[n] = decisionList[n]
        BY <1>1, <2>4
      <4>3. decisionList'[k].proposal # p
        BY <2>4, <2>6, <4>1, <4>2 DEF ListInv
      <4> QED BY <1>3, <4>1, <4>3
    <3>2. On(x, decisionList') = On(x, decisionList)
      BY <1>1, <3>1 DEF On
    <3>3. Fate(x)' = [proposal |-> decisionList'[n].proposal, decision |-> decisionList'[n].decision]
      BY <2>2, <3>2, FateGives
    <3> QED BY <1>1, <2>3, <2>4, <2>6, <3>3
  <2> QED BY <2>5, <2>6
<1>6. Promise!RollBack(p)
  <2>1. PICK F : F = [x \in Judged |-> Fate(x)]
    OBVIOUS
  <2>2. \A x \in Judged : Fate(x)' = IF F[x].proposal = p THEN [proposal |-> p, decision |-> "rollback"]
                                                          ELSE F[x]
    BY <1>5, <2>1
  <2>3. [x \in Judged |-> Fate(x)]' = [x \in Judged' |-> Fate(x)']
    OBVIOUS
  <2>4. [x \in Judged' |-> Fate(x)'] =
          [x \in Judged |-> IF F[x].proposal = p THEN [proposal |-> p, decision |-> "rollback"]
                                                 ELSE F[x]]
    BY <1>4, <2>2, Zenon
  <2>5. UNCHANGED [x \in Members |-> Journey(x)]
    BY <1>2, JourneysStay
  <2> QED BY <2>1, <2>3, <2>4, <2>5, Zenon DEF Promise!RollBack
<1>7. \E c \in Judged : Fate(c).proposal = p
  <2>1. PICK m \in Standing(p) : TRUE
    BY <1>2
  <2>2. m \in DOMAIN decisionList /\ decisionList[m].proposal = p
    BY DEF Standing
  <2>3. PICK c : c = decisionList[m].cohort
    OBVIOUS
  <2>4. c \in Judged /\ m \in On(c, decisionList)
    BY <2>2, <2>3 DEF Judged, On
  <2>5. PICK n \in On(c, decisionList) : \A j \in On(c, decisionList) : j <= n
    BY <2>4, LastGiven DEF ListInv
  <2>6. Fate(c).proposal = decisionList[n].proposal
    BY <2>5, FateGives
  <2>7. n \in DOMAIN decisionList /\ decisionList[n].cohort = c
    BY DEF On
  <2>8. decisionList[n].proposal = p
    BY <2>2, <2>3, <2>7 DEF ListInv
  <2> QED BY <2>4, <2>6, <2>8
<1> QED BY <1>6, <1>7

\* Every step of the engines is one of the promise or leaves it alone, and keeps the
\* members apart.
LEMMA PromiseStep ==
  ASSUME RolloutInv, ListInv, ListInv', MembersOnce, [CohortNext]_rolloutVars
  PROVE  /\ MembersOnce'
         /\ [Promise!Next]_(Promise!promiseVars)
<1>1. ASSUME UNCHANGED <<assignments, progressions>> PROVE MembersOnce'
  BY <1>1 DEF MembersOnce, Member
<1>2. CASE UNCHANGED <<assignments, progressions, decisionList>>
  <2>1. UNCHANGED [x \in Members |-> Journey(x)] /\ UNCHANGED [x \in Judged |-> Fate(x)]
    BY <1>2, JourneysStay, FatesStay
  <2> QED BY <1>1, <1>2, <2>1 DEF Promise!promiseVars
<1>3. ASSUME NEW p \in Proposal, NEW u \in User \cup {NoUser}, NEW size \in Target, Allocate(p, u, size)
      PROVE  MembersOnce' /\ Promise!Next
  <2>1. MembersOnce' /\ \E m \in Members', c \in Cohort : Promise!Enter(m, c)
    BY <1>3, AllocateEnters
  <2> QED BY <2>1, Zenon DEF Promise!Next
<1>4. ASSUME NEW i \in DOMAIN assignments, Progress(i)
      PROVE  MembersOnce' /\ Promise!Next
  <2>1. MembersOnce' /\ \E m \in Members', c \in Cohort : Promise!MoveUp(m, c)
    BY <1>4, ProgressMovesUp
  <2> QED BY <2>1, Zenon DEF Promise!Next
<1>5. ASSUME NEW i \in DOMAIN assignments, NEW complete \in BOOLEAN, Evaluate(i, complete)
      PROVE  MembersOnce' /\ Promise!Next
  <2>1. \E m \in Members, decision \in Sentence : Promise!Decide(m, decision)
    BY <1>5, EvaluateDecides
  <2>2. MembersOnce'
    BY <1>1, <1>5 DEF Evaluate
  <2> QED BY <2>1, <2>2, Zenon DEF Promise!Next, Sentence
<1>6. ASSUME NEW p \in Proposal, AtomicRollback(p)
      PROVE  MembersOnce' /\ Promise!Next
  <2>1. PICK c \in Judged : Fate(c).proposal = p /\ Promise!RollBack(p)
    BY <1>6, RollbackRollsBack
  <2>2. c \in DOMAIN [x \in Judged |-> Fate(x)] /\ [x \in Judged |-> Fate(x)][c].proposal = p
    BY <2>1
  <2>3. MembersOnce'
    BY <1>1, <1>6 DEF AtomicRollback
  <2> QED BY <2>1, <2>2, <2>3, Zenon DEF Promise!Next
<1>7. \/ UNCHANGED <<assignments, progressions, decisionList>>
      \/ \E p \in Proposal, u \in User \cup {NoUser}, size \in Target : Allocate(p, u, size)
      \/ \E i \in DOMAIN assignments : Progress(i)
      \/ \E i \in DOMAIN assignments, complete \in BOOLEAN : Evaluate(i, complete)
      \/ \E p \in Proposal : AtomicRollback(p)
  BY ZenonT(90) DEF CohortNext, rolloutVars, RegisterCohort, Observe, ClearObservations
<1> QED BY <1>2, <1>3, <1>4, <1>5, <1>6, <1>7

\* The engines keep what a rollout by cohorts promises: members enter once and only move up,
\* a cohort is decided on once and then only rolled back, and an atomic rollback is the
\* rollback of every cohort of its proposal (multi-cohort-engine.ts:13,
\* cohort-promotion-engine.ts:162-168, 272-321), for any cohorts, users and metrics.
THEOREM PromiseKept == CohortSpec => KeepsPromise
<1>1. CohortInit => ListInv /\ MembersOnce /\ Promise!Init
  <2> SUFFICES ASSUME CohortInit PROVE ListInv /\ MembersOnce /\ Promise!Init
    OBVIOUS
  <2>1. <<>> \in Seq(DecisionRecord) /\ DOMAIN <<>> = {}
    OBVIOUS
  <2>2. ListInv
    BY <2>1 DEF CohortInit, ListInv
  <2>3. MembersOnce /\ Members = {} /\ Judged = {}
    BY <2>1 DEF CohortInit, MembersOnce, Members, Judged
  <2>4. \A g : [x \in {} |-> g[x]] = [x \in {} |-> 0]
    OBVIOUS
  <2>5. [x \in Members |-> Journey(x)] = [x \in {} |-> 0] /\ [x \in Judged |-> Fate(x)] = [x \in {} |-> 0]
    BY <2>3
  <2> QED BY <2>2, <2>3, <2>5 DEF Promise!Init
<1>2. RolloutInv /\ ListInv /\ [CohortNext]_rolloutVars => ListInv'
  BY ListStep
<1>3. RolloutInv /\ ListInv /\ ListInv' /\ MembersOnce /\ [CohortNext]_rolloutVars
        => MembersOnce' /\ [Promise!Next]_(Promise!promiseVars)
  BY PromiseStep
<1>4. ListInv /\ ListInv' => [\A p \in Proposal : AtomicRollback(p) => Promise!RollBack(p)]_rolloutVars
  BY RollbackRollsBack
<1> QED BY <1>1, <1>2, <1>3, <1>4, RolloutKept, PTL DEF CohortSpec, KeepsPromise, Promise!Spec

-----------------------------------------------------------------------------
(* The flows and the growth of Phase 4, for any proposals, caps and metrics. *)

FlowStep == {"submit failed", "approval required", "canary", "to pause", "paused"}
Flow == [text : Dsl, step : FlowStep]

\* What the review lets through without a hand.
Cleared(text) == \/ \A d \in ToSet(text.deltas) : Harmless(d)
                 \/ \E d \in ToSet(text.deltas) : DeltaError(d)

Telemetry(i) == {n \in DOMAIN points : points[n] = i}

\* A flow that has reached the gate was let through, and has its point behind it or before it.
FlowInv(i) ==
  /\ Cardinality(Telemetry(i)) = (IF flows[i].step \in {"to pause", "paused"} THEN 1 ELSE 0)
  /\ flows[i].step \in {"canary", "to pause", "paused"} => Cleared(flows[i].text)

FlowsInv ==
  /\ flows \in Seq(Flow)
  /\ points \in Seq(Nat) /\ \A n \in DOMAIN points : points[n] \in 1..Len(flows)
  /\ gate = Fresh
  /\ \A i \in DOMAIN flows : FlowInv(i)

\* The growths a config may allow.
StepLimit(curve) == IF curve = "adaptive" THEN 14 ELSE 10

\* On the exponential curve: the sizes that doubling leads to from the least size there is
\* but nought.
Ladder == <<10, 20, 40, 80, 160, 320, 640, 1280, 2560, 5120, 10240>>

\* The least size below the cap after n growths under config.
LeastAfter(config, n) ==
  CASE config.curve = "linear" -> n * CalculateStepSize(config.cap)
    [] config.curve = "exponential" -> Ladder[n + 1]
    [] config.curve = "adaptive" -> n * ((3 * CalculateStepSize(config.cap)) \div 4)

Tenths == {n \in 0..Whole : n % 10 = 0}
Config == [cap : Tenths, curve : {"linear", "exponential", "adaptive"}]

\* A config that has made the cohort grow has kept it within its cap, and below the cap it
\* has grown by the least its growths add.
GrowthInv ==
  /\ {"size"} \subseteq DOMAIN free
  /\ free.size \in Nat /\ (free.size = 0 \/ free.size >= 10)
  /\ latest.config \in Config
  /\ latest.grown \in 0..StepLimit(latest.config.curve)
  /\ latest.grown > 0 =>
       /\ free.size <= latest.config.cap
       /\ free.size < latest.config.cap => free.size >= LeastAfter(latest.config, latest.grown)

-----------------------------------------------------------------------------
(* The review.                                                             *)

\* What goes on without a hand is harmless or was refused by the validator.
LEMMA ReviewClears ==
  ASSUME NEW text, Hooks(text) = "canary"
  PROVE  Cleared(text)
<1> DEFINE deltas == text.deltas
<1>1. Parse(text) /\ (Review(deltas).manual => Review(deltas).approved)
  BY DEF Hooks
<1>2. CASE ~ Validate(deltas)
  BY <1>2 DEF Validate, Cleared
<1>3. CASE Validate(deltas)
  <2>1. ~ IsStructural(deltas) /\ CheckCaps(deltas)
    BY <1>1, <1>3 DEF Review
  <2>2. ASSUME NEW d \in ToSet(deltas) PROVE Harmless(d)
    <3>1. d.type \in {"constraint", "reward", "simulator"} /\ (d.type = "reward" => InUnit(d.weight))
      BY <1>1, <2>1 DEF Parse, ParseDelta, IsStructural
    <3>2. EstimateMagnitude(d) <= 250
      BY <2>1 DEF CheckCaps, MaxDeltaMagnitude
    <3>3. CASE d.type = "constraint"
      BY <3>2, <3>3, SMTT(90) DEF EstimateMagnitude
    <3>4. CASE d.type = "reward"
      <4>1. 2 * Distance(IF d.weight = Absent THEN 0 ELSE d.weight, 500) <= 250
        BY <3>2, <3>4 DEF EstimateMagnitude
      <4>2. d.weight # Absent
        BY <4>1 DEF Distance
      <4>3. d.weight \in 0..1000
        BY <3>1, <3>4, <4>2 DEF InUnit
      <4>4. PICK w : w = d.weight
        OBVIOUS
      <4>5. w \in 0..1000 /\ 2 * Distance(w, 500) <= 250
        BY <4>1, <4>2, <4>3, <4>4
      <4>6. w \in 375..625
        BY ONLY <4>5 DEF Distance
      <4> QED BY <3>4, <4>2, <4>4, <4>6 DEF Harmless
    <3> QED BY <3>1, <3>3, <3>4 DEF Harmless
  <2> QED BY <2>2 DEF Cleared
<1> QED BY <1>2, <1>3

\* The gate's own metrics always call for a pause, as it has no baseline.
LEMMA GatePauses == DecideCohortGrowth(Sample, Fresh, CanaryConfig) = "pause"
<1>1. Changed(Sample.cost, Fresh.baseline.cost, 100)
  BY DEF Changed, Sample, Fresh, NoBaseline
<1>2. ~ (Sample.success < 980 \/ Sample.drift > 100)
  BY DEF Sample
<1> QED BY <1>1, <1>2 DEF DecideCohortGrowth

\* The points of a flow after one more has been appended.
LEMMA PointsGrow ==
  ASSUME points \in Seq(Nat), NEW k \in Nat, points' = Append(points, k), NEW i
  PROVE  /\ IsFiniteSet(Telemetry(i))
         /\ Cardinality(Telemetry(i)') = Cardinality(Telemetry(i)) + (IF i = k THEN 1 ELSE 0)
<1>1. IsFiniteSet(Telemetry(i))
  <2>1. 1 \in Int /\ Len(points) \in Int /\ Telemetry(i) \subseteq 1..Len(points)
    BY DEF Telemetry
  <2>2. IsFiniteSet(1..Len(points))
    BY ONLY <2>1, FS_Interval
  <2> QED BY ONLY <2>1, <2>2, FS_Subset
<1>2. /\ DOMAIN points' = DOMAIN points \cup {Len(points) + 1} /\ Len(points) + 1 \notin DOMAIN points
      /\ points'[Len(points) + 1] = k /\ \A n \in DOMAIN points : points'[n] = points[n]
  OBVIOUS
<1>3. Telemetry(i)' = IF i = k THEN Telemetry(i) \cup {Len(points) + 1} ELSE Telemetry(i)
  BY <1>2 DEF Telemetry
<1>4. Len(points) + 1 \notin Telemetry(i)
  BY <1>2 DEF Telemetry
<1>5. Cardinality(Telemetry(i) \cup {Len(points) + 1}) = Cardinality(Telemetry(i)) + 1
  BY ONLY <1>1, <1>4, FS_AddElement
<1>6. Cardinality(Telemetry(i)) \in Nat
  BY ONLY <1>1, FS_CardinalityType
<1> QED BY <1>1, <1>3, <1>5, <1>6

\* What is known of a single flow.
LEMMA FlowTyping ==
  ASSUME flows \in Seq(Flow), NEW i \in DOMAIN flows
  PROVE  /\ i \in Nat /\ i \in 1..Len(flows)
         /\ flows[i] \in Flow
         /\ flows[i].step \in FlowStep
<1>1. i \in Nat /\ i \in 1..Len(flows) /\ flows[i] \in Flow
  OBVIOUS
<1>2. flows[i].step \in FlowStep
  BY ONLY <1>1 DEF Flow
<1> QED BY ONLY <1>1, <1>2

\* A flow goes on, and the others stay where they are.
LEMMA FlowGoes ==
  ASSUME flows \in Seq(Flow), NEW i \in DOMAIN flows,
         NEW s \in FlowStep, flows' = [flows EXCEPT ![i].step = s]
  PROVE  /\ flows' \in Seq(Flow) /\ Len(flows') = Len(flows)
         /\ DOMAIN flows' = DOMAIN flows
         /\ \A j \in DOMAIN flows : j # i => flows'[j] = flows[j]
         /\ flows'[i].text = flows[i].text /\ flows'[i].step = s
<1> DEFINE flow == [flows[i] EXCEPT !.step = s]
<1>1. flows[i] \in Flow /\ s \in FlowStep
  BY FlowTyping
<1>2. flow \in Flow /\ flow.text = flows[i].text /\ flow.step = s
  BY ONLY <1>1 DEF Flow
<1>3. flows' = [flows EXCEPT ![i] = flow]
  OBVIOUS
<1> HIDE DEF flow
<1>4. /\ flows' \in Seq(Flow) /\ Len(flows') = Len(flows)
      /\ DOMAIN flows' = DOMAIN flows /\ flows'[i] = flow
      /\ \A j \in DOMAIN flows : j # i => flows'[j] = flows[j]
  BY <1>2, <1>3, Replaced, SMTT(90)
<1> QED BY <1>2, <1>4

\* Only harmless proposals and those the validator refused have a point of telemetry, and
\* the gate never moves (BridgeOrchestrator.ts:205-247, GovernanceReview.ts:41-88).
THEOREM GateStands == MaalSpec => []GateHolds
<1>1. MaalInit => FlowsInv
  BY DEF MaalInit, FlowsInv
<1>2. FlowsInv /\ [MaalNext]_maalVars => FlowsInv'
  <2> SUFFICES ASSUME FlowsInv, [MaalNext]_maalVars PROVE FlowsInv'
    OBVIOUS
  <2>1. CASE UNCHANGED <<flows, points, gate>>
    BY <2>1 DEF FlowsInv, FlowInv, Telemetry
  <2>2. ASSUME NEW text \in Dsl, ExecuteFullFlow(text) PROVE FlowsInv'
    <3>0. PICK last \in Nat : last = Len(flows) + 1
      BY DEF FlowsInv
    <3>1. /\ Hooks(text) \in FlowStep /\ Hooks(text) \notin {"to pause", "paused"}
      BY DEF Hooks, FlowStep
    <3>2. /\ flows' \in Seq(Flow) /\ Len(flows') = last
          /\ DOMAIN flows' = DOMAIN flows \cup {last}
          /\ \A i \in DOMAIN flows : flows'[i] = flows[i]
          /\ flows'[last].text = text /\ flows'[last].step = Hooks(text)
      <4> DEFINE flow == [text |-> text, step |-> Hooks(text)]
      <4>1. /\ flows \in Seq(Flow) /\ flows' = Append(flows, flow)
            /\ flow \in Flow
        BY <2>2, <3>1 DEF ExecuteFullFlow, FlowsInv, Flow
      <4>2. flow.text = text /\ flow.step = Hooks(text)
        OBVIOUS
      <4> HIDE DEF flow
      <4>3. /\ flows' \in Seq(Flow) /\ Len(flows') = last
            /\ DOMAIN flows' = DOMAIN flows \cup {last} /\ flows'[last] = flow
            /\ \A i \in DOMAIN flows : flows'[i] = flows[i]
        BY ONLY <3>0, <4>1, Longer
      <4> QED BY <4>2, <4>3
    <3>3. UNCHANGED <<points, gate>>
      BY <2>2 DEF ExecuteFullFlow
    <3>4. \A i : Telemetry(i)' = Telemetry(i)
      BY <3>3 DEF Telemetry
    <3>5. Telemetry(last) = {}
      BY <3>0 DEF Telemetry, FlowsInv
    <3>6. FlowInv(last)'
      <4>1. Cardinality(Telemetry(last)') = 0
        <5>1. Telemetry(last)' = {}
          BY ONLY <3>4, <3>5
        <5> QED BY ONLY <5>1, FS_EmptySet
      <4>2. Hooks(text) = "canary" => Cleared(text)
        BY ReviewClears
      <4>3. Hooks(text) \in {"canary", "to pause", "paused"} => Hooks(text) = "canary"
        BY <3>1
      <4>4. flows'[last].text = text /\ flows'[last].step = Hooks(text)
        BY <3>2
      <4>5. Cardinality(Telemetry(last)') = (IF flows'[last].step \in {"to pause", "paused"} THEN 1 ELSE 0)
        BY ONLY <3>1, <4>1, <4>4
      <4>6. flows'[last].step \in {"canary", "to pause", "paused"} => Cleared(flows'[last].text)
        BY ONLY <4>2, <4>3, <4>4
      <4> QED BY <4>5, <4>6 DEF FlowInv
    <3>7. \A i \in DOMAIN flows : FlowInv(i)'
      BY <3>2, <3>4 DEF FlowsInv, FlowInv
    <3>8. \A n \in DOMAIN points' : points'[n] \in 1..Len(flows')
      BY <3>2, <3>3, SMTT(90) DEF FlowsInv
    <3>9. points' \in Seq(Nat) /\ gate' = Fresh
      BY <3>3 DEF FlowsInv
    <3>10. \A i \in DOMAIN flows' : FlowInv(i)'
      BY <3>2, <3>6, <3>7
    <3> QED BY <3>2, <3>8, <3>9, <3>10 DEF FlowsInv
  <2>3. ASSUME NEW i \in DOMAIN flows, ExecuteCanary(i) PROVE FlowsInv'
    <3>1. i \in Nat /\ i \in 1..Len(flows) /\ flows[i].step = "canary" /\ points' = Append(points, i)
      BY <2>3, FlowTyping DEF ExecuteCanary, FlowsInv
    <3>2. gate' = gate /\ flows' = [flows EXCEPT ![i].step = "to pause"]
      BY <2>3, GatePauses DEF ExecuteCanary, FlowsInv, Resized
    <3>3. /\ flows' \in Seq(Flow) /\ Len(flows') = Len(flows)
          /\ DOMAIN flows' = DOMAIN flows
          /\ \A j \in DOMAIN flows : j # i => flows'[j] = flows[j]
          /\ flows'[i].text = flows[i].text /\ flows'[i].step = "to pause"
      <4>1. flows \in Seq(Flow) /\ "to pause" \in FlowStep
        BY DEF FlowsInv, FlowStep
      <4> QED BY ONLY i \in DOMAIN flows, <3>2, <4>1, FlowGoes
    <3>4. ASSUME NEW j \in DOMAIN flows PROVE FlowInv(j)'
      <4>1. Cardinality(Telemetry(j)') = Cardinality(Telemetry(j)) + (IF j = i THEN 1 ELSE 0)
        BY <3>1, PointsGrow DEF FlowsInv
      <4>2. FlowInv(j)
        BY DEF FlowsInv
      <4>3. CASE j = i
        <5>1. Cardinality(Telemetry(i)) = 0 /\ Cleared(flows[i].text)
          BY <3>1, <4>2, <4>3 DEF FlowInv
        <5>2. Cardinality(Telemetry(i)') = 1
          BY <4>1, <4>3, <5>1
        <5> QED BY <3>3, <4>3, <5>1, <5>2 DEF FlowInv
      <4>4. CASE j # i
        <5>1. Cardinality(Telemetry(j)) \in {0, 1}
          BY <4>2 DEF FlowInv
        <5>2. Cardinality(Telemetry(j)') = Cardinality(Telemetry(j))
          BY ONLY <4>1, <4>4, <5>1
        <5>3. flows'[j] = flows[j]
          BY ONLY j \in DOMAIN flows, <3>3, <4>4
        <5> QED BY <4>2, <5>2, <5>3 DEF FlowInv
      <4> QED BY <4>3, <4>4
    <3>5. points' \in Seq(Nat) /\ \A n \in DOMAIN points' : points'[n] \in 1..Len(flows')
      <4>1. points \in Seq(Nat) /\ \A n \in DOMAIN points : points[n] \in 1..Len(flows)
        BY DEF FlowsInv
      <4>2. /\ points' \in Seq(Nat) /\ DOMAIN points' = DOMAIN points \cup {Len(points) + 1}
            /\ points'[Len(points) + 1] = i /\ \A n \in DOMAIN points : points'[n] = points[n]
        BY <3>1, <4>1, SMTT(90)
      <4> QED BY <3>1, <3>3, <4>1, <4>2, ZenonT(90)
    <3>6. \A j \in DOMAIN flows' : FlowInv(j)'
      BY <3>3, <3>4
    <3> QED BY <3>2, <3>3, <3>5, <3>6 DEF FlowsInv
  <2>4. ASSUME NEW i \in DOMAIN flows, PromoteOrRollback(i) PROVE FlowsInv'
    <3>1. flows[i].step = "to pause" /\ UNCHANGED <<points, gate>>
      <4>1. flows[i].step \in FlowStep
        BY FlowTyping DEF FlowsInv
      <4> QED BY <2>4, <4>1 DEF PromoteOrRollback, FlowStep
    <3>2. flows' = [flows EXCEPT ![i].step = "paused"]
      BY <2>4, <3>1 DEF PromoteOrRollback
    <3>3. /\ flows' \in Seq(Flow) /\ Len(flows') = Len(flows)
          /\ DOMAIN flows' = DOMAIN flows
          /\ \A j \in DOMAIN flows : j # i => flows'[j] = flows[j]
          /\ flows'[i].text = flows[i].text /\ flows'[i].step = "paused"
      <4>1. flows \in Seq(Flow) /\ "paused" \in FlowStep
        BY DEF FlowsInv, FlowStep
      <4> QED BY ONLY i \in DOMAIN flows, <3>2, <4>1, FlowGoes
    <3>4. \A j : Telemetry(j)' = Telemetry(j)
      BY <3>1 DEF Telemetry
    <3>5. \A j \in DOMAIN flows : FlowInv(j)'
      BY <3>1, <3>3, <3>4 DEF FlowsInv, FlowInv
    <3> QED BY <3>1, <3>3, <3>5 DEF FlowsInv
  <2>5. ASSUME ControllerNext PROVE UNCHANGED <<flows, points, gate>>
    BY <2>5 DEF ControllerNext, SetBaseline, Decide, Reset
  <2> QED BY <2>1, <2>2, <2>3, <2>4, <2>5 DEF MaalNext, FlowNext, maalVars
<1>3. FlowsInv => GateHolds
  <2> SUFFICES ASSUME FlowsInv PROVE GateHolds
    OBVIOUS
  <2>1. ASSUME NEW i \in DOMAIN flows
        PROVE  flows[i].step \in FlowStep /\ FlowInv(i)
    BY FlowTyping DEF FlowsInv
  <2>2. gate = Fresh
    BY DEF FlowsInv
  <2>3. ASSUME NEW i \in DOMAIN flows
        PROVE  /\ flows[i].step \notin {"promoted", "rolled_back", "to promote", "to roll back"}
               /\ Cardinality(Telemetry(i)) = 1 => flows[i].step \in {"to pause", "paused"}
               /\ Cardinality(Telemetry(i)) = 1 => Cleared(flows[i].text)
    <3>1. flows[i].step \in FlowStep /\ FlowInv(i)
      BY <2>1
    <3>2. flows[i].step \notin {"promoted", "rolled_back", "to promote", "to roll back"}
      BY ONLY <3>1 DEF FlowStep
    <3>3. Cardinality(Telemetry(i)) = 1 => flows[i].step \in {"to pause", "paused"}
      <4>1. Cardinality(Telemetry(i)) = (IF flows[i].step \in {"to pause", "paused"} THEN 1 ELSE 0)
        BY <3>1 DEF FlowInv
      <4>2. ~ (flows[i].step \in {"to pause", "paused"}) => Cardinality(Telemetry(i)) = 0
        BY <4>1, Zenon
      <4>3. Cardinality(Telemetry(i)) = 0 => ~ Cardinality(Telemetry(i)) = 1
        OBVIOUS
      <4> QED BY <4>2, <4>3, Zenon
    <3>4. Cardinality(Telemetry(i)) = 1 => Cleared(flows[i].text)
      BY <3>1, <3>3 DEF FlowInv
    <3> QED BY <3>2, <3>3, <3>4
  <2>4. ASSUME NEW i \in DOMAIN flows
        PROVE  Cardinality(Telemetry(i)) = (IF flows[i].step \in {"to pause", "paused"} THEN 1 ELSE 0)
    BY <2>1 DEF FlowInv
  <2> QED BY <2>2, <2>3, <2>4 DEF GateHolds, Telemetry, Cleared
<1> QED BY <1>1, <1>2, <1>3, PTL DEF MaalSpec

-----------------------------------------------------------------------------
(* The cohort controller.                                                  *)

\* A step of the ladder doubles, and its last one is past the whole.
LEMMA Doubling ==
  /\ \A n \in 1..11 : Ladder[n] \in Nat /\ Ladder[n] >= 10
  /\ \A n \in 1..10 : Ladder[n + 1] = 2 * Ladder[n]
  /\ Ladder[1] = 10 /\ Ladder[11] >= Whole
BY SMTT(90) DEF Ladder, Whole, OnePercent

\* What a step of a config is: at least a percent and a tenth of the cap.
LEMMA StepSize ==
  ASSUME NEW config \in Config
  PROVE  /\ config.cap \in Nat /\ config.cap <= Whole
         /\ CalculateStepSize(config.cap) \in Nat
         /\ CalculateStepSize(config.cap) >= OnePercent
         /\ 10 * CalculateStepSize(config.cap) >= config.cap
<1>1. config.cap \in Nat /\ config.cap <= Whole /\ config.cap % 10 = 0
  <2>1. config.cap \in Tenths
    BY DEF Config
  <2>2. Whole \in Nat
    BY DEF Whole, OnePercent
  <2> QED BY <2>1, <2>2 DEF Tenths
<1>2. config.cap = 10 * (config.cap \div 10) /\ config.cap \div 10 \in Nat
  BY <1>1
<1> QED BY <1>1, <1>2, SMT DEF CalculateStepSize, Greater, OnePercent

\* The product of two numbers is at least that of two smaller ones.
LEMMA Products ==
  ASSUME NEW a \in Nat, NEW b \in Nat, NEW c \in Nat, NEW d \in Nat, a >= c, b >= d
  PROVE  a * b >= c * d
<1>1. PICK e \in Nat, f \in Nat : a = c + e /\ b = d + f
  <2>1. a - c \in Nat /\ b - d \in Nat /\ a = c + (a - c) /\ b = d + (b - d)
    OBVIOUS
  <2> QED BY <2>1
<1>2. (c + e) * (d + f) = c * d + c * f + e * d + e * f
  OBVIOUS
<1>3. c * d \in Nat /\ c * f \in Nat /\ e * d \in Nat /\ e * f \in Nat
  OBVIOUS
<1> QED BY <1>1, <1>2, <1>3

\* A growth below the cap adds what it has to, and there is one left to take.
LEMMA GrowthAdds ==
  ASSUME NEW config \in Config, NEW size \in Nat, size = 0 \/ size >= 10,
         NEW n \in Nat, n <= StepLimit(config.curve), size < config.cap,
         n > 0 => size >= LeastAfter(config, n)
  PROVE  LET next == ApplyGrowthCurve(size, config) IN
         /\ next \in Nat /\ (next = size \/ next >= 10)
         /\ n + 1 <= StepLimit(config.curve)
         /\ next # size => next >= LeastAfter(config, n + 1)
<1> DEFINE step == CalculateStepSize(config.cap)
<1>1. /\ config.cap \in Nat /\ config.cap <= Whole
      /\ step \in Nat /\ step >= OnePercent /\ 10 * step >= config.cap
  BY StepSize
<1>0. step >= 100
  BY <1>1 DEF OnePercent
<1> HIDE DEF step
<1>2. CASE config.curve = "linear"
  <2>1. ApplyGrowthCurve(size, config) = size + step /\ StepLimit(config.curve) = 10
    BY <1>2 DEF ApplyGrowthCurve, StepLimit, step
  <2>2. LeastAfter(config, n) = n * step /\ LeastAfter(config, n + 1) = (n + 1) * step
    BY <1>2 DEF LeastAfter, step
  <2>3. (n + 1) * step = n * step + step /\ n * step \in Nat
    BY <1>1
  <2>4. size >= n * step
    BY <2>2, <1>1
  <2>5. n < 10
    <3>1. CASE n >= 10
      <4>1. n * step >= 10 * step
        BY ONLY n \in Nat, n >= 10, <1>1, <3>1, 10 \in Nat, Products, SMTT(60)
      <4> QED BY <1>1, <2>3, <2>4, <4>1
    <3> QED BY <3>1
  <2> QED BY <1>0, <1>1, <2>1, <2>2, <2>3, <2>4, <2>5
<1>3. CASE config.curve = "adaptive"
  <2> DEFINE add == (3 * step) \div 4
  <2>1. ApplyGrowthCurve(size, config) = size + add /\ StepLimit(config.curve) = 14
    BY <1>3 DEF ApplyGrowthCurve, StepLimit, step
  <2>2. LeastAfter(config, n) = n * add /\ LeastAfter(config, n + 1) = (n + 1) * add
    BY <1>3 DEF LeastAfter, step
  <2>3. add \in Nat /\ add >= 10 /\ 14 * add >= config.cap
    BY <1>0, <1>1
  <2> HIDE DEF add
  <2>4. (n + 1) * add = n * add + add /\ n * add \in Nat
    BY <2>3
  <2>5. size >= n * add
    BY <2>2, <2>3
  <2>6. n < 14
    <3>1. CASE n >= 14
      <4>1. n * add >= 14 * add
        BY ONLY n \in Nat, n >= 14, <2>3, <3>1, 14 \in Nat, Products, SMTT(60)
      <4> QED BY <1>1, <2>3, <2>4, <2>5, <4>1
    <3> QED BY <3>1
  <2> QED BY <2>1, <2>2, <2>3, <2>4, <2>5, <2>6
<1>4. CASE config.curve = "exponential"
  <2> DEFINE product == size * (100 + step)
             next == product \div 100
  <2>1. ApplyGrowthCurve(size, config) = next /\ StepLimit(config.curve) = 10
    BY <1>4 DEF ApplyGrowthCurve, StepLimit, OnePercent, step
  <2>2. LeastAfter(config, n) = Ladder[n + 1] /\ LeastAfter(config, n + 1) = Ladder[(n + 1) + 1]
    BY <1>4 DEF LeastAfter
  <2>3. n + 1 \in 1..11 /\ Ladder[n + 1] \in Nat /\ Ladder[n + 1] >= 10
    BY <2>1, Doubling
  <2>4. CASE size = 0
    <3>1. product = 0 /\ n = 0
      BY <1>1, <2>2, <2>3, <2>4
    <3> QED BY <2>1, <2>4, <3>1
  <2>5. CASE size >= 10
    <3>1. size >= Ladder[n + 1]
      BY <2>2, <2>5, Doubling
    <3>2. n < 10
      <4>1. n = 10 => Ladder[n + 1] >= Whole
        BY Doubling
      <4>2. Whole \in Nat
        BY DEF Whole, OnePercent
      <4> QED BY <1>1, <2>1, <2>3, <3>1, <4>1, <4>2
    <3>3. n + 1 \in 1..10 /\ Ladder[(n + 1) + 1] = 2 * Ladder[n + 1]
      BY <3>2, Doubling
    <3>4. product >= size * 200 /\ product \in Nat
      <4>1. 100 + step \in Nat /\ 100 + step >= 200
        BY <1>0, <1>1
      <4> QED BY ONLY size \in Nat, size >= size, <4>1, 200 \in Nat, Products
    <3>5. next \in Nat /\ next >= 2 * size
      BY <3>4
    <3> HIDE DEF next
    <3> QED BY <2>1, <2>2, <2>3, <3>1, <3>2, <3>3, <3>5
  <2> QED BY <2>4, <2>5
<1>5. config.curve \in {"linear", "exponential", "adaptive"}
  BY DEF Config
<1> QED BY <1>2, <1>3, <1>4, <1>5

\* A controller that has decided nothing is at one percent.
LEMMA FreshGrowth ==
  /\ Fresh.size = 100 /\ "size" \in DOMAIN Fresh
  /\ NoDecision.config \in Config /\ NoDecision.grown = 0
  /\ StepLimit(NoDecision.config.curve) = 10
<1>1. 0 \in Tenths
  BY DEF Tenths, Whole, OnePercent
<1> QED BY <1>1 DEF Fresh, OnePercent, NoDecision, Config, StepLimit

\* A config that makes a cohort grow takes it to the cap in at most ten growths, on the
\* adaptive curve in at most fourteen, and holds it there, for any configs one after the
\* other and any metrics (CanaryCohortController.ts:39-125).
THEOREM CapReached == MaalSpec => []CapReachedInSteps
<1>1. MaalInit => GrowthInv
  BY FreshGrowth DEF MaalInit, GrowthInv
<1>2. GrowthInv /\ [MaalNext]_maalVars => GrowthInv'
  <2> SUFFICES ASSUME GrowthInv, [MaalNext]_maalVars PROVE GrowthInv'
    OBVIOUS
  <2>1. CASE UNCHANGED <<free, latest>>
    BY <2>1 DEF GrowthInv
  <2>2. ASSUME FlowNext PROVE UNCHANGED <<free, latest>>
    <3>1. ASSUME NEW text \in Dsl, ExecuteFullFlow(text) PROVE free' = free /\ latest' = latest
      BY <3>1 DEF ExecuteFullFlow
    <3>2. ASSUME NEW i \in DOMAIN flows, ExecuteCanary(i) PROVE free' = free /\ latest' = latest
      <4>1. UNCHANGED <<free, latest>>
        BY <3>2, Zenon DEF ExecuteCanary
      <4> QED BY ONLY <4>1
    <3>3. ASSUME NEW i \in DOMAIN flows, PromoteOrRollback(i) PROVE free' = free /\ latest' = latest
      BY <3>3 DEF PromoteOrRollback
    <3>4. free' = free /\ latest' = latest
      BY <2>2, <3>1, <3>2, <3>3, Zenon DEF FlowNext
    <3> QED BY ONLY <3>4
  <2>3. ASSUME NEW b, SetBaseline(b) PROVE GrowthInv'
    <3>1. DOMAIN free' = DOMAIN free /\ free'.size = free.size /\ latest' = latest
      BY <2>3 DEF SetBaseline, GrowthInv
    <3> QED BY <3>1 DEF GrowthInv
  <2>4. CASE Reset
    <3>1. free' = Fresh /\ latest' = NoDecision
      BY <2>4 DEF Reset
    <3> QED BY <3>1, FreshGrowth DEF GrowthInv
  <2>5. ASSUME NEW seen, NEW config \in [cap : Cap, curve : Curve], Decide(seen, config) PROVE GrowthInv'
    <3> DEFINE action == DecideCohortGrowth(seen, free, config)
               before == IF config = latest.config THEN latest.grown ELSE 0
               next == ApplyGrowthCurve(free.size, config)
               capped == Lesser(next, config.cap)
    <3>0. config \in Config
      <4>1. \A n \in Cap : n \in 0..Whole /\ n % 10 = 0
        BY MaalConstants, Zenon
      <4>2. \A c \in Curve : c \in {"linear", "exponential", "adaptive"}
        BY MaalConstants, Zenon
      <4> QED BY <4>1, <4>2 DEF Config, Tenths
    <3>1. /\ before \in Nat /\ before <= StepLimit(config.curve) /\ StepLimit(config.curve) \in {10, 14}
          /\ before > 0 => free.size <= config.cap
          /\ before > 0 /\ free.size < config.cap => free.size >= LeastAfter(config, before)
      BY DEF GrowthInv, StepLimit
    <3>2. latest'.config = config /\ free' = Resized(action, free, config)
      BY <2>5 DEF Decide
    <3>3. CASE action # "grow"
      <4>1. free' = free /\ latest'.grown = before
        BY <2>5, <3>1, <3>3 DEF Decide, Resized
      <4> HIDE DEF before
      <4> QED BY <3>0, <3>1, <3>2, <4>1 DEF GrowthInv
    <3>4. CASE action = "grow"
      <4>1. capped # free.size
        BY <3>4 DEF DecideCohortGrowth
      <4>2. /\ DOMAIN free' = DOMAIN free /\ free'.size = capped
            /\ latest'.grown = before + 1
        BY <2>5, <3>4 DEF Decide, Resized, GrowthInv
      <4>3. config.cap \in Nat /\ (config.cap = 0 \/ config.cap >= 10)
        <5>1. config.cap \in Nat /\ config.cap % 10 = 0
          BY <3>0, StepSize DEF Config, Tenths
        <5> QED BY <5>1
      <4>4. free.size \in Nat /\ (free.size = 0 \/ free.size >= 10)
        BY DEF GrowthInv
      <4>5. next \in Nat
        <5>1. CalculateStepSize(config.cap) \in Nat /\ config.curve \in {"linear", "exponential", "adaptive"}
          BY <3>0, StepSize DEF Config
        <5>2. PICK step \in Nat : step = CalculateStepSize(config.cap)
          BY <5>1
        <5>3. free.size * (100 + step) \in Nat
          BY <4>4
        <5> QED BY <4>4, <5>1, <5>2, <5>3 DEF ApplyGrowthCurve, OnePercent
      <4>6. CASE free.size < config.cap
        <5>1. before > 0 => free.size >= LeastAfter(config, before)
          BY <3>1, <4>6
        <5> HIDE DEF before
        <5>2. /\ next = free.size \/ next >= 10
              /\ before + 1 <= StepLimit(config.curve)
              /\ next # free.size => next >= LeastAfter(config, before + 1)
          BY <3>0, <3>1, <4>4, <4>6, <5>1, GrowthAdds
        <5>3. next # free.size
          BY <4>1, <4>6, <4>5, <4>3, <4>4 DEF Lesser
        <5> HIDE DEF next
        <5>4. /\ capped \in Nat /\ capped <= config.cap /\ (capped = 0 \/ capped >= 10)
              /\ capped < config.cap => capped >= LeastAfter(config, before + 1)
          BY <4>3, <4>5, <5>2, <5>3 DEF Lesser
        <5> HIDE DEF capped
        <5> QED BY <3>0, <3>1, <3>2, <4>2, <5>2, <5>4 DEF GrowthInv
      <4>7. CASE free.size >= config.cap
        <5>1. before = 0 \/ free.size = config.cap
          BY <3>1, <4>3, <4>4, <4>7
        <5> HIDE DEF before
        <5>2. next >= free.size
          <6>1. /\ CalculateStepSize(config.cap) \in Nat
                /\ config.curve \in {"linear", "exponential", "adaptive"}
            BY <3>0, StepSize DEF Config
          <6>2. PICK step \in Nat : step = CalculateStepSize(config.cap)
            BY <6>1
          <6>3. free.size * (100 + step) = 100 * free.size + free.size * step /\ free.size * step \in Nat
            BY <4>4
          <6>4. (free.size * (100 + step)) \div 100 >= free.size
            BY <4>4, <6>3
          <6>5. CASE config.curve = "exponential"
            BY <6>2, <6>4, <6>5 DEF ApplyGrowthCurve, OnePercent
          <6>6. CASE config.curve = "linear"
            BY <4>4, <6>2, <6>6 DEF ApplyGrowthCurve
          <6>7. CASE config.curve = "adaptive"
            <7>1. (3 * step) \div 4 \in Nat
              BY <6>2
            <7> QED BY <4>4, <6>2, <6>7, <7>1 DEF ApplyGrowthCurve
          <6> QED BY <6>1, <6>5, <6>6, <6>7
        <5> HIDE DEF next
        <5>3. capped = config.cap
          BY <4>3, <4>4, <4>5, <4>7, <5>2 DEF Lesser
        <5>4. before = 0
          BY <4>1, <5>1, <5>3
        <5> HIDE DEF capped
        <5> QED BY <3>0, <3>1, <3>2, <4>2, <4>3, <5>3, <5>4 DEF GrowthInv
      <4> QED BY <4>3, <4>4, <4>6, <4>7
    <3> QED BY <3>3, <3>4
  <2> QED BY <2>1, <2>2, <2>3, <2>4, <2>5 DEF MaalNext, ControllerNext, maalVars
<1>3. GrowthInv => CapReachedInSteps
  BY DEF GrowthInv, CapReachedInSteps, StepLimit
<1> QED BY <1>1, <1>2, <1>3, PTL DEF MaalSpec

-----------------------------------------------------------------------------
(* The order of a plan, for any targets and dependencies.                  *)

PlanTarget == [type : Type, deps : Seq(Type)]

\* A sequence of targets names types.
LEMMA TargetsGive ==
  ASSUME NEW ts \in Seq(PlanTarget)
  PROVE  /\ DOMAIN ts = 1..Len(ts) /\ Len(ts) \in Nat
         /\ \A i \in DOMAIN ts : ts[i].type \in Type /\ ts[i].deps \in Seq(Type)
         /\ Types(ts) \in Seq(Type) /\ DOMAIN Types(ts) = DOMAIN ts
         /\ \A i \in DOMAIN ts : Types(ts)[i] = ts[i].type
         /\ \A k : Needs(ts, k) \subseteq Type
<1>1. DOMAIN ts = 1..Len(ts) /\ Len(ts) \in Nat
  OBVIOUS
<1>2. ASSUME NEW i \in DOMAIN ts PROVE ts[i].type \in Type /\ ts[i].deps \in Seq(Type)
  <2>1. ts[i] \in PlanTarget
    OBVIOUS
  <2> QED BY <2>1 DEF PlanTarget
<1>3. PICK p : p = Types(ts)
  OBVIOUS
<1>4. p = [i \in 1..Len(ts) |-> ts[i].type]
  BY <1>1, <1>3 DEF Types
<1>5. p \in Seq(Type) /\ DOMAIN p = DOMAIN ts /\ \A i \in DOMAIN ts : p[i] = ts[i].type
  BY <1>1, <1>2, <1>4
<1>6. ASSUME NEW k PROVE Needs(ts, k) \subseteq Type
  <2>1. \A i \in DOMAIN ts : ToSet(ts[i].deps) \subseteq Type
    BY <1>2 DEF ToSet
  <2> QED BY <2>1 DEF Needs
<1> QED BY <1>1, <1>2, <1>3, <1>5, <1>6

\* What two sequences have, one after the other.
LEMMA Together ==
  ASSUME NEW S, NEW a \in Seq(S), NEW b \in Seq(S)
  PROVE  a \o b \in Seq(S) /\ ToSet(a \o b) = ToSet(a) \cup ToSet(b)
<1>0. PICK c : c = a \o b
  OBVIOUS
<1>1. PICK m, n \in Nat : m = Len(a) /\ n = Len(b) /\ DOMAIN a = 1..m /\ DOMAIN b = 1..n
  OBVIOUS
<1>2. /\ a \o b \in Seq(S) /\ Len(a \o b) = Len(a) + Len(b)
      /\ \A i \in 1..(Len(a) + Len(b)) : (a \o b)[i] = IF i <= Len(a) THEN a[i] ELSE b[i - Len(a)]
  BY ONLY a \in Seq(S), b \in Seq(S), ConcatProperties
<1>3. /\ c \in Seq(S) /\ Len(c) = m + n
      /\ \A i \in 1..(m + n) : c[i] = IF i <= m THEN a[i] ELSE b[i - m]
  BY ONLY <1>0, <1>1, <1>2
<1>4. DOMAIN c = 1..(m + n)
  BY <1>3
<1>5. ASSUME NEW x \in ToSet(c) PROVE x \in ToSet(a) \cup ToSet(b)
  <2>1. PICK i \in 1..(m + n) : c[i] = x
    BY <1>4 DEF ToSet
  <2>2. CASE i <= m
    <3>1. i \in DOMAIN a /\ a[i] = x
      BY <1>1, <1>3, <2>1, <2>2
    <3> QED BY <3>1 DEF ToSet
  <2>3. CASE ~ (i <= m)
    <3>1. i - m \in DOMAIN b /\ b[i - m] = x
      BY <1>1, <1>3, <2>1, <2>3
    <3> QED BY <3>1 DEF ToSet
  <2> QED BY <2>2, <2>3
<1>6. ASSUME NEW x \in ToSet(a) PROVE x \in ToSet(c)
  <2>1. PICK i \in 1..m : a[i] = x
    BY <1>1 DEF ToSet
  <2>2. i \in 1..(m + n) /\ c[i] = x
    BY <1>1, <1>3, <2>1
  <2> QED BY <1>4, <2>2 DEF ToSet
<1>7. ASSUME NEW x \in ToSet(b) PROVE x \in ToSet(c)
  <2>1. PICK i \in 1..n : b[i] = x
    BY <1>1 DEF ToSet
  <2>2. PICK j \in Nat : j = m + i
    OBVIOUS
  <2>3. j \in 1..(m + n) /\ ~ (j <= m) /\ j - m = i
    BY <1>1, <2>2
  <2>4. c[j] = x
    BY <1>3, <2>1, <2>3
  <2> QED BY <1>4, <2>3, <2>4 DEF ToSet
<1>8. ToSet(c) = ToSet(a) \cup ToSet(b)
  BY ONLY <1>5, <1>6, <1>7
<1> QED BY ONLY <1>0, <1>3, <1>8, Zenon

\* A sequence has the types of the first n targets and what they depend on.
Mentions(ts, s, n) ==
  \A i \in 1..n : ts[i].type \in ToSet(s) /\ \A j \in DOMAIN ts[i].deps : ts[i].deps[j] \in ToSet(s)

\* The sequence of what the targets name.
LEMMA MentionedGives ==
  ASSUME NEW ts \in Seq(PlanTarget)
  PROVE  Mentioned(ts) \in Seq(Type) /\ Mentions(ts, Mentioned(ts), Len(ts))
<1>1. PICK N \in Nat : N = Len(ts) /\ DOMAIN ts = 1..N
  BY TargetsGive
<1> DEFINE Turns(f) == f = [n \in 0..Len(ts) |->
                              IF n = 0 THEN <<>> ELSE Append(f[n - 1], ts[n].type) \o ts[n].deps]
<1>2. Mentioned(ts) = (CHOOSE f : Turns(f))[Len(ts)]
  BY DEF Mentioned
<1>3. PICK g : g = [p \in Seq(Type) \X (1..N) |-> Append(p[1], ts[p[2]].type) \o ts[p[2]].deps]
  OBVIOUS
<1>4. \A n \in 1..N : \A s \in Seq(Type) :
        /\ g[<<s, n>>] = Append(s, ts[n].type) \o ts[n].deps
        /\ g[<<s, n>>] \in Seq(Type)
  <2> SUFFICES ASSUME NEW n \in 1..N, NEW s \in Seq(Type)
               PROVE  /\ g[<<s, n>>] = Append(s, ts[n].type) \o ts[n].deps
                      /\ g[<<s, n>>] \in Seq(Type)
    OBVIOUS
  <2>1. g[<<s, n>>] = Append(s, ts[n].type) \o ts[n].deps
    BY <1>3
  <2>2. PICK a, b : a = Append(s, ts[n].type) /\ b = ts[n].deps
    OBVIOUS
  <2>3. a \in Seq(Type) /\ b \in Seq(Type)
    BY <1>1, <2>2, TargetsGive
  <2>4. a \o b \in Seq(Type)
    BY ONLY <2>3, ConcatProperties
  <2> QED BY <2>1, <2>2, <2>4
<1>5. <<>> \in Seq(Type)
  OBVIOUS
<1>6. PICK f \in [0..N -> Seq(Type)] : Follows(f, N, <<>>, g)
  <2>1. N \in Nat /\ \A n \in 1..N : \A s \in Seq(Type) : g[<<s, n>>] \in Seq(Type)
    BY <1>4
  <2> QED BY ONLY <1>5, <2>1, Iteration
<1>7. Turns(f)
  <2>1. \A n \in 0..N : f[n] = IF n = 0 THEN <<>> ELSE Append(f[n - 1], ts[n].type) \o ts[n].deps
    <3>1. f[0] = <<>>
      BY <1>6 DEF Follows
    <3>2. ASSUME NEW n \in 1..N PROVE f[n] = Append(f[n - 1], ts[n].type) \o ts[n].deps
      <4>1. PICK s \in Seq(Type) : s = f[n - 1]
        BY <1>6
      <4>2. f[n] = g[<<s, n>>]
        BY <1>6, <4>1 DEF Follows
      <4>3. g[<<s, n>>] = Append(s, ts[n].type) \o ts[n].deps
        BY <1>4
      <4>4. f[n] = Append(s, ts[n].type) \o ts[n].deps
        BY ONLY <4>2, <4>3, Zenon
      <4> QED BY ONLY <4>1, <4>4, Zenon
    <3>3. ASSUME NEW n \in 0..N
          PROVE  f[n] = IF n = 0 THEN <<>> ELSE Append(f[n - 1], ts[n].type) \o ts[n].deps
      <4>1. CASE n = 0
        BY <3>1, <4>1, Zenon
      <4>2. CASE n # 0
        <5>1. n \in 1..N
          BY <4>2
        <5> QED BY <3>2, <4>2, <5>1, Zenon
      <4> QED BY <4>1, <4>2
    <3> QED BY <3>3
  <2>2. f = [n \in 0..N |-> f[n]]
    OBVIOUS
  <2> QED BY <1>1, <2>1, <2>2
<1>8. PICK h : h = CHOOSE x : Turns(x)
  <2> HIDE DEF Turns
  <2> QED OBVIOUS
<1>9. Turns(h)
  <2> HIDE DEF Turns
  <2> QED BY ONLY <1>7, <1>8
<1>10. /\ Mentioned(ts) = h[N] /\ h[0] = <<>>
       /\ \A n \in 1..N : h[n] = Append(h[n - 1], ts[n].type) \o ts[n].deps
  <2>1. h = [n \in 0..N |-> IF n = 0 THEN <<>> ELSE Append(h[n - 1], ts[n].type) \o ts[n].deps]
    BY ONLY <1>1, <1>9
  <2>2. h[0] = <<>>
    <3>1. 0 \in 0..N
      BY ONLY N \in Nat
    <3> QED BY ONLY <2>1, <3>1
  <2>3. ASSUME NEW n \in 1..N PROVE h[n] = Append(h[n - 1], ts[n].type) \o ts[n].deps
    <3>1. n \in 0..N /\ n # 0
      OBVIOUS
    <3> QED BY ONLY <2>1, <3>1
  <2>4. Mentioned(ts) = h[N]
    <3> HIDE DEF Turns
    <3> QED BY ONLY <1>1, <1>2, <1>8
  <2> QED BY ONLY <2>2, <2>3, <2>4
<1> DEFINE T == {p \in Seq(Type) \X (0..N) : Mentions(ts, p[1], p[2])}
<1>11. <<h[0], 0>> \in T
  <2>1. h[0] \in Seq(Type) /\ 0 \in 0..N
    BY <1>5, <1>10
  <2>2. Mentions(ts, h[0], 0)
    BY DEF Mentions
  <2> QED BY ONLY <2>1, <2>2
<1>12. ASSUME NEW n \in 1..N, <<h[n - 1], n - 1>> \in T PROVE <<h[n], n>> \in T
  <2>1. PICK s \in Seq(Type) : s = h[n - 1] /\ Mentions(ts, s, n - 1)
    BY <1>12
  <2>2. PICK a, b : a = Append(s, ts[n].type) /\ b = ts[n].deps
    OBVIOUS
  <2>3. ts[n].type \in Type /\ b \in Seq(Type)
    BY <1>1, <2>2, TargetsGive
  <2>4. /\ a \in Seq(Type) /\ DOMAIN a = DOMAIN s \cup {Len(s) + 1} /\ a[Len(s) + 1] = ts[n].type
        /\ \A i \in DOMAIN s : a[i] = s[i]
    <3>1. PICK e \in Type : e = ts[n].type
      BY <2>3
    <3>2. a = Append(s, e)
      BY <2>2, <3>1
    <3>3. /\ a \in Seq(Type) /\ DOMAIN a = DOMAIN s \cup {Len(s) + 1} /\ a[Len(s) + 1] = e
          /\ \A i \in DOMAIN s : a[i] = s[i]
      BY ONLY s \in Seq(Type), e \in Type, <3>2, Longer
    <3> QED BY <3>1, <3>3
  <2>5. PICK c : c = a \o b
    OBVIOUS
  <2>6. ToSet(c) = ToSet(a) \cup ToSet(b) /\ c \in Seq(Type)
    <3>1. a \in Seq(Type) /\ b \in Seq(Type)
      BY <2>3, <2>4
    <3>2. a \o b \in Seq(Type) /\ ToSet(a \o b) = ToSet(a) \cup ToSet(b)
      BY ONLY <3>1, Together
    <3> QED BY ONLY <2>5, <3>2, Zenon
  <2>7. ToSet(s) \subseteq ToSet(a) /\ ts[n].type \in ToSet(a)
    BY <2>4 DEF ToSet
  <2>8. h[n] = c
    <3>1. h[n] = Append(s, ts[n].type) \o ts[n].deps
      BY ONLY <1>10, n \in 1..N, <2>1, Zenon
    <3> QED BY ONLY <2>2, <2>5, <3>1, Zenon
  <2>9. Mentions(ts, c, n)
    <3> SUFFICES ASSUME NEW i \in 1..n
                 PROVE  ts[i].type \in ToSet(c) /\ \A j \in DOMAIN ts[i].deps : ts[i].deps[j] \in ToSet(c)
      BY DEF Mentions
    <3>1. CASE i \in 1..(n - 1)
      BY <2>1, <2>6, <2>7, <3>1 DEF Mentions
    <3>2. CASE i = n
      <4>1. \A j \in DOMAIN b : b[j] \in ToSet(b)
        BY DEF ToSet
      <4> QED BY <2>2, <2>6, <2>7, <3>2, <4>1
    <3> QED BY <3>1, <3>2
  <2> QED BY <2>6, <2>8, <2>9
<1>13. \A n \in 0..N : <<h[n], n>> \in T
  <2> HIDE DEF T
  <2> QED BY ONLY N \in Nat, <1>11, <1>12, Throughout
<1>14. N \in 0..N
  OBVIOUS
<1>15. <<h[N], N>> \in T
  BY <1>13, <1>14
<1> QED BY <1>1, <1>10, <1>15

\* The keys of the maps are what is mentioned, once each.
LEMMA KeysGive ==
  ASSUME NEW ts \in Seq(PlanTarget)
  PROVE  /\ Keys(ts) \in Seq(Type)
         /\ \A i, j \in DOMAIN Keys(ts) : Keys(ts)[i] = Keys(ts)[j] => i = j
         /\ Mentions(ts, Keys(ts), Len(ts))
<1>1. PICK mentioned \in Seq(Type) : mentioned = Mentioned(ts) /\ Mentions(ts, mentioned, Len(ts))
  BY MentionedGives
<1>2. PICK places : places = {i \in DOMAIN mentioned : \A j \in 1..(i - 1) : mentioned[j] # mentioned[i]}
  OBVIOUS
<1>3. PICK t : t = Picked(mentioned, places)
  OBVIOUS
<1>4. places \in SUBSET DOMAIN mentioned
  BY <1>2
<1>5. /\ t \in Seq(Type) /\ Cardinality(places) \in Nat /\ DOMAIN t = 1..Cardinality(places)
      /\ \A j \in DOMAIN t : Nth(places, j) \in places /\ t[j] = mentioned[Nth(places, j)]
      /\ \A i, j \in DOMAIN t : i < j => Nth(places, i) < Nth(places, j)
      /\ \A n \in places : \E j \in DOMAIN t : Nth(places, j) = n
  BY ONLY <1>3, <1>4, mentioned \in Seq(Type), PickedGives
<1>6. t = Keys(ts)
  BY <1>1, <1>2, <1>3 DEF Keys
<1>7. DOMAIN mentioned = 1..Len(mentioned) /\ Len(mentioned) \in Nat
  OBVIOUS
<1>8. ASSUME NEW i \in DOMAIN t, NEW j \in DOMAIN t, i < j PROVE t[i] # t[j]
  <2>1. PICK m \in places, n \in places : m = Nth(places, i) /\ n = Nth(places, j)
    BY <1>5
  <2>2. m < n /\ t[i] = mentioned[m] /\ t[j] = mentioned[n]
    BY <1>5, <1>8, <2>1
  <2>3. m \in 1..(n - 1)
    BY <1>2, <1>7, <2>2
  <2>4. mentioned[m] # mentioned[n]
    BY <1>2, <2>3
  <2> QED BY <2>2, <2>4
<1>9. ASSUME NEW i \in DOMAIN t, NEW j \in DOMAIN t, t[i] = t[j] PROVE i = j
  <2>1. i \in Int /\ j \in Int
    BY <1>5
  <2>2. i < j \/ j < i \/ i = j
    BY ONLY <2>1
  <2> QED BY <1>8, <1>9, <2>2
<1>10. ASSUME NEW x \in ToSet(mentioned) PROVE x \in ToSet(t)
  <2>1. PICK T : T = {i \in DOMAIN mentioned : mentioned[i] = x}
    OBVIOUS
  <2>2. T \subseteq Nat /\ T # {}
    BY <1>7, <1>10, <2>1 DEF ToSet
  <2>3. PICK n \in T : \A m \in T : n <= m
    BY ONLY <2>2, Smallest
  <2>4. ASSUME NEW j \in 1..(n - 1) PROVE mentioned[j] # mentioned[n]
    <3>1. n \in 1..Len(mentioned) /\ mentioned[n] = x
      BY <1>7, <2>1
    <3>2. j \in DOMAIN mentioned /\ ~ (n <= j)
      BY <1>7, <3>1
    <3>3. j \notin T
      BY <2>3, <3>2
    <3> QED BY <2>1, <3>1, <3>2, <3>3
  <2>5. n \in places
    BY <1>2, <2>1, <2>4
  <2>6. PICK j \in DOMAIN t : t[j] = mentioned[n]
    BY <1>5, <2>5
  <2> QED BY <2>1, <2>6 DEF ToSet
<1>11. Mentions(ts, t, Len(ts))
  BY <1>1, <1>10 DEF Mentions
<1> QED BY <1>5, <1>6, <1>9, <1>11

-----------------------------------------------------------------------------
(* Kahn's algorithm.                                                       *)

\* Whatever is out has what it awaits out before it, and whatever is queued has it out.
Before(ts, out) == \A i \in DOMAIN out : \A k \in Awaited(ts, out[i]) : \E j \in 1..(i - 1) : out[j] = k
Freed(ts, s) == \A i \in DOMAIN s.queue : \A k \in Awaited(ts, s.queue[i]) : \E j \in DOMAIN s.out : s.out[j] = k
Sorting == [queue : Seq(Type), out : Seq(Type)]
KahnOrder(ts, s) == Before(ts, s.out) /\ Freed(ts, s)

\* No key is there twice, and every key is there that has to wait for none, or for what is out.
Apart(s) ==
  /\ \A i, j \in DOMAIN s.out : s.out[i] = s.out[j] => i = j
  /\ \A i, j \in DOMAIN s.queue : s.queue[i] = s.queue[j] => i = j
  /\ \A i \in DOMAIN s.out : \A j \in DOMAIN s.queue : s.out[i] # s.queue[j]
Ready(ts, s) == \A k \in ToSet(Keys(ts)) : Awaited(ts, k) \subseteq ToSet(s.out) => k \in ToSet(s.out) \cup ToSet(s.queue)
Keyed(ts, s) == ToSet(s.out) \cup ToSet(s.queue) \subseteq ToSet(Keys(ts))
Covers(ts, s) == Apart(s) /\ Ready(ts, s) /\ Keyed(ts, s)

TypesOnce(ts) == \A i, j \in DOMAIN ts : ts[i].type = ts[j].type => i = j

\* One key more is out.
LEMMA ShiftGives ==
  ASSUME NEW ts \in Seq(PlanTarget), NEW s \in Sorting, s.queue # <<>>, NEW t, t = Shift(ts, s)
  PROVE  /\ t \in Sorting /\ (KahnOrder(ts, s) => KahnOrder(ts, t)) /\ Len(t.out) = Len(s.out) + 1
         /\ TypesOnce(ts) /\ KahnOrder(ts, s) /\ Covers(ts, s) => Covers(ts, t)
<1>1. PICK q, o : q = s.queue /\ o = s.out
  OBVIOUS
<1>2. q \in Seq(Type) /\ o \in Seq(Type) /\ q # <<>>
  BY <1>1 DEF Sorting
<1>3. PICK k : k = Head(q)
  OBVIOUS
<1>4. k \in Type /\ q[1] = k /\ 1 \in DOMAIN q
  BY <1>2, <1>3
<1>5. PICK out : out = Append(o, k)
  OBVIOUS
<1>6. /\ out \in Seq(Type) /\ Len(out) = Len(o) + 1 /\ DOMAIN out = DOMAIN o \cup {Len(o) + 1}
      /\ out[Len(o) + 1] = k /\ \A i \in DOMAIN o : out[i] = o[i]
  BY ONLY <1>2, <1>4, <1>5, Longer
<1>7. PICK freed : freed = {i \in DOMAIN ts : LET awaited == Awaited(ts, ts[i].type) IN
                                  k \in awaited /\ awaited \subseteq ToSet(out)}
  OBVIOUS
<1>8. PICK types \in Seq(Type) : types = Types(ts) /\ DOMAIN types = DOMAIN ts
                                 /\ \A i \in DOMAIN ts : types[i] = ts[i].type
  BY TargetsGive
<1>9. freed \in SUBSET DOMAIN types
  BY <1>7, <1>8
<1>10. PICK more : more = Picked(types, freed)
  OBVIOUS
<1>11. /\ more \in Seq(Type)
       /\ \A j \in DOMAIN more : Nth(freed, j) \in freed /\ more[j] = types[Nth(freed, j)]
       /\ \A i, j \in DOMAIN more : i < j => Nth(freed, i) < Nth(freed, j)
       /\ \A p \in freed : \E j \in DOMAIN more : Nth(freed, j) = p
  BY ONLY types \in Seq(Type), <1>9, <1>10, PickedGives
<1>12. PICK rest : rest = Tail(q)
  OBVIOUS
<1>13. rest \in Seq(Type) /\ Len(rest) = Len(q) - 1 /\ \A i \in 1..Len(rest) : rest[i] = q[i + 1]
  BY <1>2, <1>12, HeadTailProperties
<1>14. PICK queue : queue = rest \o more
  OBVIOUS
<1>15. PICK m, n \in Nat : m = Len(rest) /\ n = Len(more)
  BY <1>11, <1>13
<1>16. /\ queue \in Seq(Type) /\ Len(queue) = m + n
       /\ \A i \in 1..Len(queue) : queue[i] = IF i <= m THEN rest[i] ELSE more[i - m]
  <2>1. rest \in Seq(Type) /\ more \in Seq(Type)
    BY <1>11, <1>13
  <2>2. /\ rest \o more \in Seq(Type) /\ Len(rest \o more) = Len(rest) + Len(more)
        /\ \A i \in 1..(Len(rest) + Len(more)) : (rest \o more)[i] =
              IF i <= Len(rest) THEN rest[i] ELSE more[i - Len(rest)]
    BY ONLY <2>1, ConcatProperties, SMTT(90)
  <2> QED BY ONLY <1>14, <1>15, <2>2
<1>17. t.queue = queue /\ t.out = out /\ t = [queue |-> queue, out |-> out]
  BY <1>1, <1>3, <1>5, <1>7, <1>8, <1>10, <1>12, <1>14 DEF Shift
<1>18. t \in Sorting
  BY <1>6, <1>16, <1>17 DEF Sorting
<1>19. Len(o) \in Nat /\ DOMAIN o = 1..Len(o) /\ Len(q) \in Nat /\ DOMAIN q = 1..Len(q) /\ DOMAIN more = 1..n
       /\ DOMAIN queue = 1..(m + n)
  BY <1>2, <1>11, <1>15, <1>16
<1>20. ASSUME KahnOrder(ts, s) PROVE Before(ts, out)
  <2> SUFFICES ASSUME NEW i \in DOMAIN out, NEW x \in Awaited(ts, out[i])
               PROVE  \E j \in 1..(i - 1) : out[j] = x
    BY DEF Before
  <2>1. CASE i \in DOMAIN o
    <3>1. x \in Awaited(ts, o[i])
      BY <1>6, <2>1
    <3>2. PICK j \in 1..(i - 1) : o[j] = x
      BY <1>1, <1>20, <2>1, <3>1 DEF KahnOrder, Before
    <3>3. j \in DOMAIN o
      BY <1>19, <2>1, SMTT(90)
    <3> QED BY <1>6, <3>2, <3>3
  <2>2. CASE i = Len(o) + 1
    <3>1. x \in Awaited(ts, q[1])
      BY <1>4, <1>6, <2>2
    <3>2. PICK j \in DOMAIN o : o[j] = x
      BY <1>1, <1>4, <1>20, <3>1 DEF KahnOrder, Freed
    <3>3. j \in 1..(i - 1)
      BY <1>19, <2>2
    <3> QED BY <1>6, <3>2, <3>3
  <2> QED BY <1>6, <2>1, <2>2
<1>21. ASSUME KahnOrder(ts, s) PROVE Freed(ts, t)
  <2> SUFFICES ASSUME NEW i \in DOMAIN queue, NEW x \in Awaited(ts, queue[i])
               PROVE  \E j \in DOMAIN out : out[j] = x
    BY <1>17 DEF Freed
  <2>1. CASE i <= m
    <3>1. i \in 1..Len(queue) /\ i \in 1..Len(rest) /\ i + 1 \in 1..Len(q)
      BY <1>13, <1>15, <1>16, <1>19, <2>1, SMTT(90)
    <3>2. queue[i] = rest[i] /\ rest[i] = q[i + 1] /\ i + 1 \in DOMAIN q
      BY <1>13, <1>16, <1>19, <2>1, <3>1
    <3>3. PICK j \in DOMAIN o : o[j] = x
      BY <1>1, <1>21, <3>2, ZenonT(90) DEF KahnOrder, Freed
    <3> QED BY <1>6, <3>3
  <2>2. CASE ~ (i <= m)
    <3>1. i - m \in DOMAIN more /\ queue[i] = more[i - m]
      <4>1. i \in 1..(m + n)
        BY ONLY <1>19, i \in DOMAIN queue
      <4>2. i - m \in 1..n /\ i \in 1..Len(queue)
        BY ONLY <4>1, m \in Nat, n \in Nat, <2>2, <1>16
      <4> QED BY ONLY <4>2, <1>16, <1>19, <2>2
    <3>2. PICK p \in freed : queue[i] = types[p]
      BY <1>11, <3>1
    <3>3. queue[i] = ts[p].type
      BY <1>7, <1>8, <3>2
    <3>4. Awaited(ts, queue[i]) \subseteq ToSet(out)
      BY <1>7, <3>3
    <3> QED BY <3>4 DEF ToSet
  <2> QED BY <2>1, <2>2
<1>22. ASSUME TypesOnce(ts), KahnOrder(ts, s), Covers(ts, s) PROVE Apart(t)
  <2>1. /\ \A i, j \in DOMAIN o : o[i] = o[j] => i = j
        /\ \A i, j \in DOMAIN q : q[i] = q[j] => i = j
        /\ \A i \in DOMAIN o : \A j \in DOMAIN q : o[i] # q[j]
    BY <1>1, <1>22 DEF Covers, Apart
  <2>2. \A i \in DOMAIN o : o[i] # k
    BY <1>4, <2>1
  <2>3. ASSUME NEW p \in freed PROVE (\A i \in DOMAIN o : o[i] # ts[p].type) /\ (\A i \in DOMAIN q : q[i] # ts[p].type)
    <3>1. k \in Awaited(ts, ts[p].type)
      BY <1>7
    <3>2. ASSUME NEW i \in DOMAIN o, o[i] = ts[p].type PROVE FALSE
      <4>1. PICK j \in 1..(i - 1) : o[j] = k
        BY <1>1, <1>22, <3>1, <3>2 DEF KahnOrder, Before
      <4>2. j \in DOMAIN o
        BY <1>19, <3>2, SMTT(90)
      <4> QED BY <2>2, <4>1, <4>2
    <3>3. ASSUME NEW i \in DOMAIN q, q[i] = ts[p].type PROVE FALSE
      <4>1. PICK j \in DOMAIN o : o[j] = k
        BY <1>1, <1>22, <3>1, <3>3 DEF KahnOrder, Freed
      <4> QED BY <2>2, <4>1
    <3> QED BY <3>2, <3>3
  <2>4. ASSUME NEW i \in DOMAIN queue
        PROVE  \/ i <= m /\ i + 1 \in DOMAIN q /\ queue[i] = q[i + 1]
               \/ ~ (i <= m) /\ i - m \in DOMAIN more /\ \E p \in freed : p = Nth(freed, i - m) /\ queue[i] = ts[p].type
    <3>1. CASE i <= m
      <4>1. i \in 1..Len(queue) /\ i \in 1..Len(rest) /\ i + 1 \in 1..Len(q)
        BY <1>13, <1>15, <1>16, <1>19, <3>1, SMTT(90)
      <4> QED BY <1>13, <1>16, <1>19, <3>1, <4>1
    <3>2. CASE ~ (i <= m)
      <4>1. i - m \in DOMAIN more /\ queue[i] = more[i - m]
        <5>1. i \in 1..(m + n)
          BY ONLY <1>19, i \in DOMAIN queue
        <5>2. i - m \in 1..n /\ i \in 1..Len(queue)
          BY ONLY <5>1, m \in Nat, n \in Nat, <3>2, <1>16
        <5> QED BY ONLY <5>2, <1>16, <1>19, <3>2
      <4>2. PICK p \in freed : p = Nth(freed, i - m) /\ queue[i] = types[p]
        BY <1>11, <4>1
      <4>3. queue[i] = ts[p].type
        BY <1>7, <1>8, <4>2
      <4> QED BY <3>2, <4>1, <4>2, <4>3
    <3> QED BY <3>1, <3>2
  <2>5. \A i, j \in DOMAIN out : out[i] = out[j] => i = j
    BY <1>6, <2>1, <2>2
  <2>6. ASSUME NEW i \in DOMAIN queue, NEW j \in DOMAIN queue, i < j PROVE queue[i] # queue[j]
    <3>0. i \in Int /\ j \in Int /\ m \in Int
      BY <1>19
    <3>1. CASE j <= m
      <4>1. i <= m
        BY ONLY <3>0, <3>1, <2>6
      <4>2. i + 1 \in DOMAIN q /\ j + 1 \in DOMAIN q /\ queue[i] = q[i + 1] /\ queue[j] = q[j + 1]
        BY <2>4, <3>1, <4>1
      <4>3. i + 1 # j + 1
        BY ONLY <3>0, <2>6
      <4> QED BY <2>1, <4>2, <4>3
    <3>2. CASE ~ (j <= m)
      <4>1. PICK p \in freed : j - m \in DOMAIN more /\ p = Nth(freed, j - m) /\ queue[j] = ts[p].type
        BY <2>4, <3>2
      <4>2. CASE i <= m
        <5>1. i + 1 \in DOMAIN q /\ queue[i] = q[i + 1]
          BY <2>4, <4>2
        <5> QED BY <2>3, <4>1, <5>1
      <4>3. CASE ~ (i <= m)
        <5>1. PICK x \in freed : i - m \in DOMAIN more /\ x = Nth(freed, i - m) /\ queue[i] = ts[x].type
          BY <2>4, <4>3
        <5>2. i - m < j - m
          BY ONLY <3>0, <2>6
        <5>3. x < p
          BY <1>11, <4>1, <5>1, <5>2
        <5>4. x \in DOMAIN ts /\ p \in DOMAIN ts /\ x # p
          BY <1>7, <5>3, TargetsGive
        <5> QED BY <1>22, <4>1, <5>1, <5>4 DEF TypesOnce
      <4> QED BY <4>2, <4>3
    <3> QED BY <3>1, <3>2
  <2>7. ASSUME NEW i \in DOMAIN queue, NEW j \in DOMAIN queue, queue[i] = queue[j] PROVE i = j
    <3>1. i \in Int /\ j \in Int
      BY <1>19
    <3>2. i < j \/ j < i \/ i = j
      BY ONLY <3>1
    <3> QED BY <2>6, <2>7, <3>2
  <2>8. ASSUME NEW i \in DOMAIN out, NEW j \in DOMAIN queue PROVE out[i] # queue[j]
    <3>1. CASE j <= m
      <4>1. j + 1 \in DOMAIN q /\ queue[j] = q[j + 1] /\ j + 1 # 1
        BY <1>19, <2>4, <3>1
      <4> QED BY <1>4, <1>6, <2>1, <4>1
    <3>2. CASE ~ (j <= m)
      <4>1. PICK p \in freed : queue[j] = ts[p].type
        BY <2>4, <3>2
      <4> QED BY <1>4, <1>6, <2>3, <4>1
    <3> QED BY <3>1, <3>2
  <2> QED BY <1>17, <2>5, <2>7, <2>8 DEF Apart
<1>23. ToSet(queue) = ToSet(rest) \cup ToSet(more)
  <2>1. rest \in Seq(Type) /\ more \in Seq(Type)
    BY <1>11, <1>13
  <2>2. ToSet(rest \o more) = ToSet(rest) \cup ToSet(more)
    BY ONLY <2>1, Together
  <2> QED BY ONLY <1>14, <2>2, Zenon
<1>24. ToSet(out) = ToSet(o) \cup {k} /\ ToSet(q) = {k} \cup ToSet(rest)
  <2>1. ToSet(out) = ToSet(o) \cup {k}
    <3>1. \A x \in ToSet(out) : x \in ToSet(o) \/ x = k
      BY <1>6 DEF ToSet
    <3>2. \A x \in ToSet(o) : x \in ToSet(out)
      BY <1>6 DEF ToSet
    <3>3. k \in ToSet(out)
      BY <1>6 DEF ToSet
    <3> QED BY <3>1, <3>2, <3>3
  <2>2. \A i \in DOMAIN q : i = 1 \/ (i - 1 \in DOMAIN rest /\ rest[i - 1] = q[i])
    BY <1>13, <1>19, SMTT(90)
  <2>3. \A i \in DOMAIN rest : i + 1 \in DOMAIN q /\ rest[i] = q[i + 1]
    BY <1>13, <1>19, SMTT(90)
  <2>4. ToSet(q) = {k} \cup ToSet(rest)
    <3>1. \A x \in ToSet(q) : x \in ToSet(rest) \/ x = k
      BY <1>4, <2>2 DEF ToSet
    <3>2. \A x \in ToSet(rest) : x \in ToSet(q)
      BY <2>3 DEF ToSet
    <3>3. k \in ToSet(q)
      BY <1>4 DEF ToSet
    <3> QED BY <3>1, <3>2, <3>3
  <2> QED BY <2>1, <2>4
<1>25. \A x \in ToSet(more) : \E p \in freed : x = ts[p].type
  <2> SUFFICES ASSUME NEW x \in ToSet(more) PROVE \E p \in freed : x = ts[p].type
    OBVIOUS
  <2>1. PICK i \in DOMAIN more : more[i] = x
    BY DEF ToSet
  <2>2. PICK p \in freed : x = types[p]
    BY <1>11, <2>1
  <2> QED BY <1>7, <1>8, <2>2
<1>26. \A p \in freed : ts[p].type \in ToSet(more)
  <2> SUFFICES ASSUME NEW p \in freed PROVE ts[p].type \in ToSet(more)
    OBVIOUS
  <2>1. PICK j \in DOMAIN more : Nth(freed, j) = p
    BY <1>11
  <2>2. more[j] = ts[p].type
    BY <1>7, <1>8, <1>11, <2>1
  <2> QED BY <2>2 DEF ToSet
<1>27. ASSUME Covers(ts, s) PROVE Ready(ts, t)
  <2> SUFFICES ASSUME NEW x \in ToSet(Keys(ts)), Awaited(ts, x) \subseteq ToSet(out)
               PROVE  x \in ToSet(out) \cup ToSet(queue)
    BY <1>17 DEF Ready
  <2>1. CASE Awaited(ts, x) \subseteq ToSet(o)
    <3>1. x \in ToSet(o) \cup ToSet(q)
      BY <1>1, <1>27, <2>1 DEF Covers, Ready
    <3> QED BY <1>23, <1>24, <3>1
  <2>2. CASE ~ (Awaited(ts, x) \subseteq ToSet(o))
    <3>1. k \in Awaited(ts, x)
      BY <1>24, <2>2
    <3>2. PICK i \in DOMAIN ts : ts[i].type = x
      BY <3>1 DEF Awaited, Needs
    <3>3. i \in freed
      BY <1>7, <3>1, <3>2
    <3> QED BY <1>23, <1>26, <3>2, <3>3
  <2> QED BY <2>1, <2>2
<1>28. ASSUME Covers(ts, s) PROVE Keyed(ts, t)
  <2>1. ToSet(o) \cup ToSet(q) \subseteq ToSet(Keys(ts))
    BY <1>1, <1>28 DEF Covers, Keyed
  <2>2. \A i \in DOMAIN ts : ts[i].type \in ToSet(Keys(ts))
    BY KeysGive, TargetsGive DEF Mentions
  <2>3. ToSet(more) \subseteq ToSet(Keys(ts))
    BY <1>7, <1>25, <2>2
  <2> QED BY <1>17, <1>23, <1>24, <2>1, <2>3 DEF Keyed
<1>29. Len(t.out) = Len(s.out) + 1
  BY <1>1, <1>6, <1>17
<1> QED BY <1>17, <1>18, <1>20, <1>21, <1>22, <1>27, <1>28, <1>29 DEF KahnOrder, Covers

\* As many different keys as a list has are at most as many as it has places.
LEMMA NoMoreThan ==
  ASSUME NEW S, NEW keys \in Seq(S), NEW k \in Nat, NEW f \in [1..k -> ToSet(keys)],
         \A i, j \in 1..k : f[i] = f[j] => i = j
  PROVE  k <= Len(keys)
<1>1. PICK n \in Nat : n = Len(keys) /\ DOMAIN keys = 1..n
  OBVIOUS
<1>2. PICK T, D : T = ToSet(keys) /\ D = 1..n
  OBVIOUS
<1>3. keys \in Surjection(D, T)
  <2>1. keys \in [D -> T] /\ \A t \in T : \E i \in D : keys[i] = t
    BY <1>1, <1>2 DEF ToSet
  <2> QED BY <2>1 DEF Surjection
<1>4. IsFiniteSet(D) /\ Cardinality(D) = n
  <2>1. 1 \in Int /\ n \in Int /\ n \in Nat
    OBVIOUS
  <2>2. IsFiniteSet(1..n) /\ Cardinality(1..n) = IF 1 > n THEN 0 ELSE n - 1 + 1
    BY ONLY <2>1, FS_Interval
  <2> QED BY ONLY <1>2, <2>1, <2>2
<1>5. IsFiniteSet(T) /\ Cardinality(T) <= Cardinality(D)
  BY ONLY <1>3, <1>4, FS_Surjection
<1>6. PICK P : P = 1..k
  OBVIOUS
<1>7. f \in Injection(P, T)
  BY <1>2, <1>6 DEF Injection, IsInjective
<1>8. Cardinality(P) <= Cardinality(T)
  BY ONLY <1>5, <1>7, FS_Injection
<1>9. Cardinality(P) = k
  <2>1. 1 \in Int /\ k \in Int /\ k \in Nat
    OBVIOUS
  <2>2. Cardinality(1..k) = IF 1 > k THEN 0 ELSE k - 1 + 1
    BY ONLY <2>1, FS_Interval
  <2> QED BY ONLY <1>6, <2>1, <2>2
<1>10. Cardinality(T) \in Nat
  BY <1>5, FS_CardinalityType
<1> QED BY ONLY n \in Nat, k \in Nat, <1>1, <1>4, <1>5, <1>8, <1>9, <1>10

\* After n turns n keys are out, or the queue is empty.
Sifted(ts, s, n) ==
  /\ KahnOrder(ts, s)
  /\ TypesOnce(ts) => Covers(ts, s) /\ (s.queue = <<>> \/ Len(s.out) = n)

\* With as many turns as there are keys the queue is empty.
LEMMA QueueEmpties ==
  ASSUME NEW ts \in Seq(PlanTarget), NEW s \in Sorting, Covers(ts, s), Len(s.out) = Len(Keys(ts))
  PROVE  s.queue = <<>>
<1>1. PICK q, o : q = s.queue /\ o = s.out
  OBVIOUS
<1>2. q \in Seq(Type) /\ o \in Seq(Type)
  BY <1>1 DEF Sorting
<1>3. PICK keys \in Seq(Type) : keys = Keys(ts)
  BY KeysGive
<1>4. PICK n \in Nat : n = Len(o) /\ n = Len(keys) /\ DOMAIN o = 1..n
  BY <1>1, <1>2, <1>3
<1>5. SUFFICES ASSUME q # <<>> PROVE FALSE
  BY <1>1
<1>6. 1 \in DOMAIN q
  BY <1>2, <1>5
<1>7. PICK f : f = [i \in 1..(n + 1) |-> IF i = n + 1 THEN q[1] ELSE o[i]]
  OBVIOUS
<1>8. /\ \A i \in 1..(n + 1) : i \in 1..n \/ i = n + 1
      /\ ~ (n + 1 \in 1..n) /\ n + 1 \in Nat /\ ~ (n + 1 <= n)
  OBVIOUS
<1>9. \A i \in 1..(n + 1) : f[i] = IF i = n + 1 THEN q[1] ELSE o[i]
  BY <1>7
<1>10. \A i \in 1..(n + 1) : f[i] \in ToSet(keys)
  <2>1. ToSet(o) \cup ToSet(q) \subseteq ToSet(keys)
    BY <1>1, <1>3 DEF Covers, Keyed
  <2>2. q[1] \in ToSet(q) /\ \A i \in 1..n : o[i] \in ToSet(o)
    BY <1>4, <1>6 DEF ToSet
  <2> QED BY ONLY <1>8, <1>9, <2>1, <2>2
<1>11. f \in [1..(n + 1) -> ToSet(keys)]
  BY <1>7, <1>10
<1>12. \A i, j \in 1..(n + 1) : f[i] = f[j] => i = j
  <2>1. /\ \A i, j \in 1..n : o[i] = o[j] => i = j
        /\ \A i \in 1..n : o[i] # q[1]
    BY <1>1, <1>4, <1>6 DEF Covers, Apart
  <2> QED BY ONLY <1>8, <1>9, <2>1
<1>13. n + 1 <= Len(keys)
  BY ONLY <1>8, <1>11, <1>12, keys \in Seq(Type), NoMoreThan
<1> QED BY <1>4, <1>8, <1>13

\* What the algorithm lets out: of a plan with each type once, all whose needs it has let out.
LEMMA SortedGives ==
  ASSUME NEW ts \in Seq(PlanTarget)
  PROVE  /\ Sorted(ts) \in Seq(Type) /\ Before(ts, Sorted(ts))
         /\ TypesOnce(ts) => \A k \in ToSet(Keys(ts)) :
                               Awaited(ts, k) \subseteq ToSet(Sorted(ts)) => k \in ToSet(Sorted(ts))
<1>1. PICK keys \in Seq(Type) : keys = Keys(ts) /\ \A i, j \in DOMAIN keys : keys[i] = keys[j] => i = j
  BY KeysGive
<1>2. PICK N \in Nat : N = Len(keys)
  OBVIOUS
<1>3. PICK first : first = Picked(keys, {i \in DOMAIN keys : Awaited(ts, keys[i]) = {}})
  OBVIOUS
<1>4. /\ first \in Seq(Type) /\ \A i \in DOMAIN first : Awaited(ts, first[i]) = {}
      /\ \A i, j \in DOMAIN first : first[i] = first[j] => i = j
      /\ ToSet(first) \subseteq ToSet(keys)
      /\ \A k \in ToSet(keys) : Awaited(ts, k) = {} => k \in ToSet(first)
  <2>1. PICK places : places = {i \in DOMAIN keys : Awaited(ts, keys[i]) = {}}
    OBVIOUS
  <2>2. places \in SUBSET DOMAIN keys /\ first = Picked(keys, places)
    BY <1>3, <2>1
  <2>3. /\ first \in Seq(Type) /\ Cardinality(places) \in Nat /\ DOMAIN first = 1..Cardinality(places)
        /\ \A j \in DOMAIN first : Nth(places, j) \in places /\ first[j] = keys[Nth(places, j)]
        /\ \A i, j \in DOMAIN first : i < j => Nth(places, i) < Nth(places, j)
        /\ \A n \in places : \E j \in DOMAIN first : Nth(places, j) = n
    BY ONLY keys \in Seq(Type), <2>2, PickedGives
  <2>4. \A i \in DOMAIN first : Awaited(ts, first[i]) = {}
    BY <2>1, <2>3
  <2>5. ASSUME NEW i \in DOMAIN first, NEW j \in DOMAIN first, first[i] = first[j] PROVE i = j
    <3>1. PICK x \in places, y \in places : x = Nth(places, i) /\ y = Nth(places, j)
      BY <2>3
    <3>2. x = y
      <4>1. keys[x] = first[i] /\ keys[y] = first[j]
        BY <2>3, <3>1
      <4>2. x \in DOMAIN keys /\ y \in DOMAIN keys /\ keys[x] = keys[y]
        BY <2>1, <2>5, <4>1
      <4> QED BY ONLY <1>1, <4>2
    <3>3. i \in Int /\ j \in Int
      BY <2>3
    <3>4. i < j \/ j < i \/ i = j
      BY ONLY <3>3
    <3>5. x \in Int /\ y \in Int
      BY <2>1
    <3>6. (i < j => x < y) /\ (j < i => y < x)
      BY <2>3, <3>1
    <3> QED BY ONLY <3>2, <3>4, <3>5, <3>6
  <2>6. ToSet(first) \subseteq ToSet(keys)
    BY <2>2, <2>3 DEF ToSet
  <2>7. ASSUME NEW k \in ToSet(keys), Awaited(ts, k) = {} PROVE k \in ToSet(first)
    <3>1. PICK i \in DOMAIN keys : keys[i] = k
      BY DEF ToSet
    <3>2. i \in places
      BY <2>1, <2>7, <3>1
    <3>3. PICK j \in DOMAIN first : first[j] = k
      BY <2>3, <3>1, <3>2
    <3> QED BY <3>3 DEF ToSet
  <2> QED BY <2>3, <2>4, <2>5, <2>6, <2>7
<1>5. PICK s : s = [queue |-> first, out |-> <<>>]
  OBVIOUS
<1>6. s \in Sorting /\ Sifted(ts, s, 0)
  <2>1. s \in Sorting /\ s.queue = first /\ s.out = <<>> /\ <<>> \in Seq(Type)
    BY <1>4, <1>5 DEF Sorting
  <2>2. Before(ts, s.out)
    BY <2>1 DEF Before
  <2>3. Freed(ts, s)
    BY <1>4, <2>1 DEF Freed
  <2>4. Apart(s)
    BY <1>4, <2>1 DEF Apart
  <2>5. ToSet(s.out) = {} /\ Len(s.out) = 0
    BY <2>1 DEF ToSet
  <2>6. Ready(ts, s)
    BY <1>1, <1>4, <2>1, <2>5 DEF Ready
  <2>7. Keyed(ts, s)
    BY <1>1, <1>4, <2>1, <2>5 DEF Keyed
  <2> QED BY <2>1, <2>2, <2>3, <2>4, <2>5, <2>6, <2>7 DEF KahnOrder, Sifted, Covers
<1> DEFINE Turns(f) == f = [n \in 0..Len(keys) |->
                              IF n = 0 THEN s
                              ELSE IF f[n - 1].queue = <<>> THEN f[n - 1]
                              ELSE Shift(ts, f[n - 1])]
<1>7. Sorted(ts) = (CHOOSE f : Turns(f))[Len(keys)].out
  <2>1. keys = Keys(ts)
    BY <1>1
  <2> QED BY <2>1, <1>3, <1>5, Zenon DEF Sorted
<1>8. PICK g : g = [p \in Sorting \X (1..N) |-> IF p[1].queue = <<>> THEN p[1] ELSE Shift(ts, p[1])]
  OBVIOUS
<1>9. \A n \in 1..N : \A w \in Sorting :
        /\ g[<<w, n>>] = IF w.queue = <<>> THEN w ELSE Shift(ts, w)
        /\ g[<<w, n>>] \in Sorting
  <2> SUFFICES ASSUME NEW n \in 1..N, NEW w \in Sorting
               PROVE  /\ g[<<w, n>>] = IF w.queue = <<>> THEN w ELSE Shift(ts, w)
                      /\ g[<<w, n>>] \in Sorting
    OBVIOUS
  <2>1. g[<<w, n>>] = IF w.queue = <<>> THEN w ELSE Shift(ts, w)
    BY <1>8
  <2>2. CASE w.queue = <<>>
    BY <2>1, <2>2
  <2>3. CASE w.queue # <<>>
    <3>1. PICK v : v = Shift(ts, w)
      OBVIOUS
    <3>2. v \in Sorting
      BY ONLY ts \in Seq(PlanTarget), w \in Sorting, <2>3, <3>1, ShiftGives
    <3> QED BY <2>1, <2>3, <3>1, <3>2
  <2> QED BY <2>2, <2>3, <2>1
<1>10. PICK f \in [0..N -> Sorting] : Follows(f, N, s, g)
  <2>1. N \in Nat /\ s \in Sorting /\ \A n \in 1..N : \A w \in Sorting : g[<<w, n>>] \in Sorting
    BY <1>6, <1>9
  <2> QED BY ONLY <2>1, Iteration
<1>11. Turns(f)
  <2>1. \A n \in 0..N : f[n] = IF n = 0 THEN s ELSE IF f[n - 1].queue = <<>> THEN f[n - 1] ELSE Shift(ts, f[n - 1])
    <3>1. f[0] = s
      BY <1>10 DEF Follows
    <3>2. ASSUME NEW n \in 1..N
          PROVE f[n] = IF f[n - 1].queue = <<>> THEN f[n - 1] ELSE Shift(ts, f[n - 1])
      <4>1. PICK w \in Sorting : w = f[n - 1]
        BY <1>10
      <4>2. f[n] = g[<<w, n>>]
        BY <1>10, <4>1 DEF Follows
      <4>3. g[<<w, n>>] = IF w.queue = <<>> THEN w ELSE Shift(ts, w)
        BY <1>9
      <4> QED BY ONLY <4>1, <4>2, <4>3
    <3> QED BY <3>1, <3>2, SMTT(90)
  <2>2. f = [n \in 0..N |-> f[n]]
    OBVIOUS
  <2> QED BY <1>2, <2>1, <2>2
<1>12. PICK h : h = CHOOSE x : Turns(x)
  <2> HIDE DEF Turns
  <2> QED OBVIOUS
<1>13. Turns(h)
  <2> HIDE DEF Turns
  <2> QED BY ONLY <1>11, <1>12
<1>14. /\ Sorted(ts) = h[N].out /\ h[0] = s
       /\ \A n \in 1..N : h[n] = IF h[n - 1].queue = <<>> THEN h[n - 1] ELSE Shift(ts, h[n - 1])
  <2>1. h = [n \in 0..N |-> IF n = 0 THEN s ELSE IF h[n - 1].queue = <<>> THEN h[n - 1] ELSE Shift(ts, h[n - 1])]
    BY <1>2, <1>13
  <2>2. h[0] = s
    BY <2>1
  <2>3. ASSUME NEW n \in 1..N PROVE h[n] = IF h[n - 1].queue = <<>> THEN h[n - 1] ELSE Shift(ts, h[n - 1])
    <3>1. n \in 0..N /\ n # 0
      OBVIOUS
    <3> QED BY ONLY <2>1, <3>1
  <2> QED BY <1>2, <1>7, <1>12, <2>2, <2>3
<1> DEFINE T == {p \in Sorting \X (0..N) : Sifted(ts, p[1], p[2])}
<1>15. <<h[0], 0>> \in T
  BY <1>6, <1>14
<1>16. ASSUME NEW n \in 1..N, <<h[n - 1], n - 1>> \in T PROVE <<h[n], n>> \in T
  <2>1. PICK w \in Sorting : w = h[n - 1] /\ Sifted(ts, w, n - 1)
    BY <1>16
  <2>2. CASE w.queue = <<>>
    <3>1. h[n] = w
      BY <1>14, <2>1, <2>2
    <3>2. Sifted(ts, w, n)
      BY <2>1, <2>2 DEF Sifted
    <3> QED BY <3>1, <3>2
  <2>3. CASE w.queue # <<>>
    <3>1. PICK v : v = Shift(ts, w)
      OBVIOUS
    <3>2. /\ v \in Sorting /\ (KahnOrder(ts, w) => KahnOrder(ts, v)) /\ Len(v.out) = Len(w.out) + 1
          /\ TypesOnce(ts) /\ KahnOrder(ts, w) /\ Covers(ts, w) => Covers(ts, v)
      BY ONLY ts \in Seq(PlanTarget), w \in Sorting, <2>3, <3>1, ShiftGives
    <3>3. h[n] = v
      BY <1>14, <2>1, <2>3, <3>1
    <3>4. TypesOnce(ts) => Covers(ts, w) /\ Len(w.out) = n - 1
      BY <2>1, <2>3 DEF Sifted
    <3>5. Sifted(ts, v, n)
      BY <2>1, <3>2, <3>4 DEF Sifted
    <3> QED BY <3>2, <3>3, <3>5
  <2> QED BY <2>2, <2>3
<1>17. \A n \in 0..N : <<h[n], n>> \in T
  <2> HIDE DEF T
  <2> QED BY ONLY N \in Nat, <1>15, <1>16, Throughout
<1>18. N \in 0..N
  OBVIOUS
<1>19. PICK w \in Sorting : w = h[N] /\ Sifted(ts, w, N)
  BY <1>17, <1>18
<1>20. Sorted(ts) = w.out /\ w.out \in Seq(Type) /\ Before(ts, w.out)
  BY <1>14, <1>19 DEF Sorting, KahnOrder, Sifted
<1>21. ASSUME TypesOnce(ts), NEW k \in ToSet(keys), Awaited(ts, k) \subseteq ToSet(w.out)
       PROVE  k \in ToSet(w.out)
  <2>1. Covers(ts, w) /\ (w.queue = <<>> \/ Len(w.out) = Len(Keys(ts)))
    BY <1>1, <1>2, <1>19, <1>21 DEF Sifted
  <2>2. w.queue = <<>>
    BY <2>1, QueueEmpties
  <2>3. k \in ToSet(w.out) \cup ToSet(w.queue)
    BY <1>1, <1>21, <2>1 DEF Covers, Ready
  <2>4. ToSet(w.queue) = {}
    BY <2>2 DEF ToSet
  <2> QED BY <2>3, <2>4
<1> QED BY <1>1, <1>20, <1>21

\* A plan comes to the types of its targets, each after those it needs.
Ordered(ts, p) == \A i \in DOMAIN p : \A t \in Needs(ts, p[i]) \cap {ts[k].type : k \in DOMAIN ts} :
                    \E j \in 1..(i - 1) : p[j] = t

\* What a target is or depends on is mentioned.
LEMMA NeedsMentioned ==
  ASSUME NEW ts \in Seq(PlanTarget), NEW s, Mentions(ts, s, Len(ts))
  PROVE  ToSet(Types(ts)) \subseteq ToSet(s) /\ \A k : Needs(ts, k) \subseteq ToSet(s)
<1>1. /\ \A i \in DOMAIN ts : ts[i].type \in ToSet(s) /\ \A j \in DOMAIN ts[i].deps : ts[i].deps[j] \in ToSet(s)
      /\ DOMAIN Types(ts) = DOMAIN ts /\ \A i \in DOMAIN ts : Types(ts)[i] = ts[i].type
  BY TargetsGive DEF Mentions
<1>2. ASSUME NEW t \in ToSet(Types(ts)) PROVE t \in ToSet(s)
  <2>1. PICK i \in DOMAIN Types(ts) : Types(ts)[i] = t
    BY DEF ToSet
  <2> QED BY <1>1, <2>1
<1>3. ASSUME NEW k, NEW x \in Needs(ts, k) PROVE x \in ToSet(s)
  <2>1. PICK i \in DOMAIN ts : x \in ToSet(ts[i].deps)
    BY DEF Needs
  <2>2. PICK j \in DOMAIN ts[i].deps : ts[i].deps[j] = x
    BY <2>1 DEF ToSet
  <2> QED BY <1>1, <2>2
<1> QED BY <1>2, <1>3

\* It is resolved in that order.
LEMMA ResolveGives ==
  ASSUME NEW ts \in Seq(PlanTarget)
  PROVE  /\ Resolve(ts) \in Seq(Type) /\ Ordered(ts, Resolve(ts))
         /\ TypesOnce(ts) => Reachable(ts) \subseteq ToSet(Resolve(ts))
        /\ Resolve(ts) \in Seq(ToSet(Types(ts)))
<1>1. PICK sorted \in Seq(Type) :
        /\ sorted = Sorted(ts) /\ Before(ts, sorted)
        /\ TypesOnce(ts) => \A k \in ToSet(Keys(ts)) :
                              Awaited(ts, k) \subseteq ToSet(sorted) => k \in ToSet(sorted)
  BY SortedGives
<1>2. PICK places : places = {i \in DOMAIN sorted : sorted[i] \in ToSet(Types(ts))}
  OBVIOUS
<1>3. PICK p : p = Picked(sorted, places)
  OBVIOUS
<1>4. p = Resolve(ts)
  BY <1>1, <1>2, <1>3 DEF Resolve
<1>5. places \in SUBSET DOMAIN sorted
  BY <1>2
<1>6. /\ p \in Seq(Type) /\ Cardinality(places) \in Nat /\ DOMAIN p = 1..Cardinality(places)
      /\ \A j \in DOMAIN p : Nth(places, j) \in places /\ p[j] = sorted[Nth(places, j)]
      /\ \A i, j \in DOMAIN p : i < j => Nth(places, i) < Nth(places, j)
      /\ \A n \in places : \E j \in DOMAIN p : Nth(places, j) = n
  BY ONLY sorted \in Seq(Type), <1>3, <1>5, PickedGives
<1>7. ASSUME NEW i \in DOMAIN p, NEW t \in Needs(ts, p[i]), t \in {ts[k].type : k \in DOMAIN ts}
      PROVE  \E j \in 1..(i - 1) : p[j] = t
  <2>1. PICK n \in places : n = Nth(places, i) /\ p[i] = sorted[n]
    BY <1>6
  <2>2. t \in Awaited(ts, sorted[n]) /\ n \in DOMAIN sorted
    BY <1>2, <1>7, <2>1 DEF Awaited
  <2>3. PICK m \in 1..(n - 1) : sorted[m] = t
    BY <1>1, <2>2 DEF Before
  <2>4. m \in DOMAIN sorted /\ m < n /\ n \in Int
    BY <2>2
  <2>5. t \in ToSet(Types(ts))
    <3>1. PICK k \in DOMAIN ts : ts[k].type = t
      BY <1>7
    <3>2. k \in DOMAIN Types(ts) /\ Types(ts)[k] = t
      BY <3>1, TargetsGive
    <3> QED BY <3>2 DEF ToSet
  <2>6. m \in places
    BY <1>2, <2>3, <2>4, <2>5
  <2>7. PICK j \in DOMAIN p : Nth(places, j) = m
    BY <1>6, <2>6
  <2>8. p[j] = t
    BY <1>6, <2>3, <2>7
  <2>9. i \in Int /\ j \in Int /\ 1 <= j /\ 1 <= i
    BY <1>6
  <2>10. j < i
    <3>1. SUFFICES ASSUME ~ (j < i) PROVE FALSE
      OBVIOUS
    <3>2. i = j \/ i < j
      BY <2>9, <3>1
    <3>3. i = j => n = m
      BY <2>1, <2>7
    <3>4. i < j => n < m
      BY <1>6, <2>1, <2>7
    <3> QED BY <2>4, <3>2, <3>3, <3>4
  <2>11. j \in 1..(i - 1)
    BY <2>9, <2>10
  <2> QED BY <2>8, <2>11
<1>8. ASSUME TypesOnce(ts), NEW t \in Reachable(ts) PROVE t \in ToSet(p)
  <2>1. t \in ToSet(Types(ts)) /\ t \notin Endless(ts)
    BY <1>8 DEF Reachable
  <2>2. PICK U : U = ToSet(Keys(ts)) \ ToSet(sorted)
    OBVIOUS
  <2>3. ASSUME NEW k \in U PROVE Needs(ts, k) \cap U # {}
    <3>1. PICK x \in Awaited(ts, k) : x \notin ToSet(sorted)
      BY <1>1, <1>8, <2>2, <2>3
    <3>2. x \in Needs(ts, k)
      BY <3>1 DEF Awaited
    <3>3. x \in ToSet(Keys(ts))
      BY <3>2, KeysGive, NeedsMentioned
    <3> QED BY <2>2, <3>1, <3>2, <3>3
  <2>4. U \in SUBSET ToSet(Keys(ts))
    BY <2>2
  <2>5. U \subseteq Endless(ts)
    BY <2>3, <2>4 DEF Endless
  <2>6. t \in ToSet(Keys(ts))
    BY <2>1, KeysGive, NeedsMentioned
  <2>7. t \in ToSet(sorted)
    BY <2>1, <2>2, <2>5, <2>6
  <2>8. PICK n \in DOMAIN sorted : sorted[n] = t
    BY <2>7 DEF ToSet
  <2>9. n \in places
    BY <1>2, <2>1, <2>8
  <2>10. PICK j \in DOMAIN p : p[j] = t
    BY <1>6, <2>8, <2>9
  <2> QED BY <2>10 DEF ToSet
<1>9. p \in Seq(ToSet(Types(ts)))
  <2>1. \A j \in DOMAIN p : p[j] \in ToSet(Types(ts))
    BY <1>2, <1>6
  <2> QED BY <1>6, <2>1
<1> QED BY <1>4, <1>6, <1>7, <1>8, <1>9 DEF Ordered

-----------------------------------------------------------------------------
(* The gate, for any deployments, ids, stores, targets, captures and calls. *)

\* A flag that no other deployment has set has the value of the capture.
FlagHolds(d, f) == Shared(d, f.name) \/ flag[f.name] = f.value
FlagsHold(d) == \A f \in ToSet(Flags[d]) : FlagHolds(d, f)

\* A local target has the value it goes back to, unless another deployment goes back
\* to another value in the same store.
StoreHolds(d, t) == Contested(d, t) \/ store[Stores[d][t].name] = Stores[d][t].value
LocalHolds(d) == \A t \in Local : Ambiguous(d, t) \/ StoreHolds(d, t)

Fields == {"at", "dep", "own", "todo", "oks", "ok", "on", "left", "wait"}
Shaped(r) == Fields \subseteq DOMAIN r

\* The flags that are not still to be read hold.
ReadUpTo(d, left) ==
  /\ left \in Seq(ToSet(Flags[d]))
  /\ \A f \in ToSet(Flags[d]) : FlagHolds(d, f) \/ f \in ToSet(left)

\* A call has targets of its deployment before it.
Has(r) == r.dep \in Deployment /\ r.todo \in Seq(Recorded(r.dep))
AtTarget(r) == r.at \in {"step", "put", "get", "update", "check"}

\* Of a call: what its target at hand is, how far the gate has come, and that a call
\* the gate has let return has left nothing, then or later.
CallInv(r) ==
  /\ Shaped(r)
  /\ r.at # "idle" => Has(r)
  /\ AtTarget(r) => r.todo # <<>>
  /\ r.at = "step" /\ r.ok = TRUE /\ Head(r.todo) \in Local => StoreHolds(r.dep, Head(r.todo))
  /\ r.at \in {"put", "get", "update", "check"} => Head(r.todo) \notin Local
  /\ r.at = "update" =>
       r.on \in Deployment /\ r.left \in Seq(ToSet(Flags[r.on])) /\ r.left # <<>>
  /\ r.at = "gate" =>
       /\ LocalHolds(r.dep)
       /\ "config" \notin r.wait => r.dep \in reverted
       /\ "flags" \notin r.wait => FlagsHold(r.dep)
       /\ "flags" \in r.wait => r.left # <<>>
       /\ ReadUpTo(r.dep, r.left)
       /\ r.wait \subseteq {"config", "flags"}
  /\ r.at = "returned" /\ gated =>
       LocalHolds(r.dep) /\ r.dep \in reverted /\ FlagsHold(r.dep)

\* What the shared log says of a local target is so.
LogTrue(l) ==
  /\ \E S : l \in Seq(S)
  /\ \A i \in DOMAIN l : l[i].dep \in Deployment /\ l[i].type \in Recorded(l[i].dep)
  /\ \A i \in DOMAIN l : l[i].success = TRUE /\ l[i].type \in Local => StoreHolds(l[i].dep, l[i].type)

ReturnInv ==
  /\ captures \subseteq Deployment /\ plan \in [Deployment -> Seq(PlanTarget)]
  /\ LogTrue(log)
  /\ \E V : store \in [DOMAIN Stored -> V]
  /\ \E F : flag \in [DOMAIN Deployed -> F]
  /\ \E R : call \in [Call -> R]
  /\ \A c \in Call : \A r : r = call[c] => CallInv(r)

-----------------------------------------------------------------------------
(* The records of the calls.                                               *)

\* The places a call goes to when its next target is dispatched.
DispatchedTo(s, r, d) ==
  /\ Shaped(s) /\ s.dep = r.dep /\ s.todo = r.todo /\ s.oks = r.oks /\ s.at \in {"step", "put", "update"}
  /\ s.at = "step" /\ s.ok # FALSE => Head(r.todo) \in Local /\ Goal(r) \in versions
  /\ s.at # "step" => Head(r.todo) \notin Local /\ s.on = d /\ d \in Deployment
  /\ s.at = "put" => Head(r.todo) = "config"
  /\ s.at = "update" => Head(r.todo) # "config" /\ s.left = Flags[d]

\* They are these.
LEMMA DispatchedGives ==
  ASSUME NEW r, NEW d, NEW s, Shaped(r), captures \subseteq Deployment, s = Dispatched(r, d)
  PROVE  DispatchedTo(s, r, d)
<1> DEFINE t == Head(r.todo)
<1>1. CASE t \in Local
  <2>1. PICK b \in BOOLEAN : b <=> Goal(r) \in versions
    OBVIOUS
  <2>2. s = Answers(r, b)
    <3>0. s = PutBack(r)
      BY <1>1 DEF Dispatched
    <3>1. s = Answers(r, Goal(r) \in versions)
      BY <3>0, Zenon DEF PutBack
    <3>2. b = (Goal(r) \in versions)
      BY <2>1
    <3> QED BY <3>1, <3>2, Zenon
  <2>3. Shaped(s) /\ s.dep = r.dep /\ s.todo = r.todo /\ s.oks = r.oks /\ s.at = "step" /\ s.ok = b
    BY <2>2 DEF Answers, Shaped, Fields
  <2> QED BY <1>1, <2>1, <2>3 DEF DispatchedTo
<1>2. CASE t \notin Local /\ d \notin captures
  <2>1. s = Answers(r, FALSE)
    BY <1>2 DEF Dispatched
  <2>2. Shaped(s) /\ s.dep = r.dep /\ s.todo = r.todo /\ s.oks = r.oks /\ s.at = "step" /\ s.ok = FALSE
    BY <2>1 DEF Answers, Shaped, Fields
  <2> QED BY <1>2, <2>2 DEF DispatchedTo
<1>3. CASE t \notin Local /\ d \in captures /\ t = "config"
  <2>1. s = [Awaits(r, "put") EXCEPT !.on = d]
    BY <1>3 DEF Dispatched
  <2>2. Shaped(s) /\ s.dep = r.dep /\ s.todo = r.todo /\ s.oks = r.oks /\ s.at = "put" /\ s.on = d
    BY <2>1 DEF Awaits, Shaped, Fields
  <2> QED BY <1>3, <2>2 DEF DispatchedTo
<1>4. CASE t \notin Local /\ d \in captures /\ t # "config"
  <2>1. s = [Awaits(r, "update") EXCEPT !.on = d, !.left = Flags[d]]
    BY <1>4 DEF Dispatched
  <2>2. /\ Shaped(s) /\ s.dep = r.dep /\ s.todo = r.todo /\ s.oks = r.oks /\ s.at = "update"
        /\ s.on = d /\ s.left = Flags[d]
    BY <2>1 DEF Awaits, Shaped, Fields
  <2> QED BY <1>4, <2>2 DEF DispatchedTo
<1> QED BY <1>1, <1>2, <1>3, <1>4

\* How the loop over the targets ends.
LEMMA ConcludedGives ==
  ASSUME NEW r, Shaped(r), NEW l, NEW s, s = Concluded(r, l)
  PROVE  /\ Shaped(s) /\ s.dep = r.dep /\ s.todo = r.todo /\ s.oks = r.oks
         /\ s.at \in {"thrown", "returned", "gate"}
         /\ s.at = "returned" => ~ gated
         /\ s.at = "gate" => /\ Lineage(r, l)
                             /\ s.left = Flags[r.dep] /\ s.wait = {"config", "flags"}
<1>1. \/ s = Awaits(r, "thrown")
      \/ ~ gated /\ s = Awaits(r, "returned")
      \/ Lineage(r, l) /\ s = [Awaits(r, "gate") EXCEPT !.left = Flags[r.dep], !.wait = {"config", "flags"}]
  BY DEF Concluded
<1>2. CASE s = Awaits(r, "thrown")
  BY <1>2 DEF Awaits, Shaped, Fields
<1>3. CASE ~ gated /\ s = Awaits(r, "returned")
  BY <1>3 DEF Awaits, Shaped, Fields
<1>4. CASE Lineage(r, l) /\ s = [Awaits(r, "gate") EXCEPT !.left = Flags[r.dep], !.wait = {"config", "flags"}]
  BY <1>4 DEF Awaits, Shaped, Fields
<1> QED BY <1>1, <1>2, <1>3, <1>4

-----------------------------------------------------------------------------
(* What every step keeps.                                                  *)

\* Configurations are only put back; a store or a flag that deployments agree on only takes
\* the value they go back to, once it has it.
StoresKept == \A d \in Deployment : \A t \in Local : StoreHolds(d, t) => StoreHolds(d, t)'
RollbackKept ==
  /\ UNCHANGED given /\ reverted \subseteq reverted'
  /\ StoresKept
  /\ \A d \in Deployment : \A f \in ToSet(Flags[d]) : FlagHolds(d, f) => FlagHolds(d, f)'

\* What a deployment has recorded stays, and so does what is ambiguous or contested.
LEMMA PlansStay ==
  ASSUME UNCHANGED given
  PROVE  /\ \A d : Recorded(d)' = Recorded(d)
         /\ \A d, t : Contested(d, t)' <=> Contested(d, t)
         /\ \A d, t : Ambiguous(d, t)' <=> Ambiguous(d, t)
<1>1. plan' = plan
  BY DEF given
<1>2. \A d : Recorded(d)' = Recorded(d)
  BY <1>1 DEF Recorded
<1> QED BY <1>2, Zenon DEF Contested, Ambiguous

\* What is recorded are types.
LEMMA RecordedAre ==
  ASSUME plan \in [Deployment -> Seq(PlanTarget)], NEW d \in Deployment
  PROVE  Recorded(d) \subseteq Type
<1>1. plan[d] \in Seq(PlanTarget)
  OBVIOUS
<1>2. \A i \in DOMAIN plan[d] : plan[d][i].type \in Type
  BY <1>1, TargetsGive
<1>3. DOMAIN Types(plan[d]) = DOMAIN plan[d] /\ \A i \in DOMAIN plan[d] : Types(plan[d])[i] = plan[d][i].type
  BY <1>1, TargetsGive
<1> QED BY <1>2, <1>3 DEF Recorded, ToSet

\* A local store takes the value of the target of one deployment; what other deployments'
\* targets go back to it has, or is contested.
LEMMA StoreTaken ==
  ASSUME NEW V, store \in [DOMAIN Stored -> V], UNCHANGED given,
         NEW e \in Deployment, NEW u \in Local, u \in Recorded(e),
         store' = [store EXCEPT ![Stores[e][u].name] = Stores[e][u].value]
  PROVE  /\ StoresKept /\ StoreHolds(e, u)'
         /\ \A t \in Local : store[Stores[e][t].name] = Stores[e][t].value
                             => store'[Stores[e][t].name] = Stores[e][t].value
         /\ store'[Stores[e][u].name] = Stores[e][u].value
<1>1. \A d, x \in Deployment : \A t, y \in Local :
        Stores[d][t].name \in DOMAIN Stored /\ (Stores[d][t].name = Stores[x][y].name => t = y)
  <2> SUFFICES ASSUME NEW d \in Deployment, NEW x \in Deployment, NEW t \in Local, NEW y \in Local
               PROVE  Stores[d][t].name \in DOMAIN Stored /\ (Stores[d][t].name = Stores[x][y].name => t = y)
    OBVIOUS
  <2> QED BY RollbackConstants
<1>2. store'[Stores[e][u].name] = Stores[e][u].value
  BY <1>1
<1>3. ASSUME NEW d \in Deployment, NEW t \in Local, StoreHolds(d, t) PROVE StoreHolds(d, t)'
  <2>1. CASE Contested(d, t)
    BY <2>1, PlansStay DEF StoreHolds
  <2>2. CASE ~ Contested(d, t) /\ Stores[d][t].name = Stores[e][u].name
    <3>1. t = u
      BY <1>1, <2>2
    <3>2. Stores[e][u].value = Stores[d][t].value
      BY <2>2, <3>1 DEF Contested
    <3> QED BY <1>2, <2>2, <3>2 DEF StoreHolds
  <2>3. CASE ~ Contested(d, t) /\ Stores[d][t].name # Stores[e][u].name
    <3>1. store'[Stores[d][t].name] = store[Stores[d][t].name]
      BY <1>1, <2>3
    <3> QED BY <1>3, <2>3, <3>1 DEF StoreHolds
  <2> QED BY <2>1, <2>2, <2>3
<1>4. ASSUME NEW t \in Local, store[Stores[e][t].name] = Stores[e][t].value
      PROVE  store'[Stores[e][t].name] = Stores[e][t].value
  <2>1. CASE t = u
    BY <1>2, <2>1
  <2>2. CASE t # u
    <3>1. Stores[e][t].name # Stores[e][u].name /\ Stores[e][t].name \in DOMAIN Stored
      BY <1>1, <2>2
    <3> QED BY <1>4, <3>1
  <2> QED BY <2>1, <2>2
<1> QED BY <1>2, <1>3, <1>4 DEF StoresKept, StoreHolds

\* A capture is a sequence, in which a flag is once.
LEMMA FlagsAre ==
  ASSUME NEW d \in Deployment
  PROVE  /\ Flags[d] \in Seq(ToSet(Flags[d])) /\ Flags[d] # <<>>
         /\ \A f \in ToSet(Flags[d]) : \E i \in 1..Len(Flags[d]) : Flags[d][i] = f
         /\ \A i \in 1..Len(Flags[d]) : Flags[d][i] \in ToSet(Flags[d])
         /\ \A f \in ToSet(Flags[d]) : f.name \in DOMAIN Deployed
         /\ \A f, g \in ToSet(Flags[d]) : f.name = g.name => f = g
<1>1. /\ Flags[d] \in Seq(ToSet(Flags[d])) /\ Flags[d] # <<>>
      /\ \A i \in DOMAIN Flags[d] : Flags[d][i].name \in DOMAIN Deployed
      /\ \A i, j \in DOMAIN Flags[d] : Flags[d][i].name = Flags[d][j].name => i = j
  BY RollbackConstants
<1>2. DOMAIN Flags[d] = 1..Len(Flags[d])
  BY <1>1
<1>3. /\ \A f \in ToSet(Flags[d]) : \E i \in DOMAIN Flags[d] : Flags[d][i] = f
      /\ \A i \in DOMAIN Flags[d] : Flags[d][i] \in ToSet(Flags[d])
  BY Zenon DEF ToSet
<1>4. \A f \in ToSet(Flags[d]) : f.name \in DOMAIN Deployed
  BY ONLY <1>1, <1>3
<1>5. \A f, g \in ToSet(Flags[d]) : f.name = g.name => f = g
  BY ONLY <1>1, <1>3
<1> QED BY <1>1, <1>2, <1>3, <1>4, <1>5

\* What is so of a call stays so.
LEMMA CallStays ==
  ASSUME NEW r, CallInv(r), RollbackKept
  PROVE  CallInv(r)'
<1>1. \A d \in Deployment : FlagsHold(d) => FlagsHold(d)'
  BY DEF RollbackKept, FlagsHold
<1>2. \A d \in Deployment : LocalHolds(d) => LocalHolds(d)'
  BY PlansStay DEF RollbackKept, StoresKept, LocalHolds
<1>3. \A d \in Deployment : \A left : ReadUpTo(d, left) => ReadUpTo(d, left)'
  BY DEF RollbackKept, ReadUpTo
<1>4. \A p : p \in reverted => p \in reverted'
  BY DEF RollbackKept
<1>5. gated' = gated
  BY DEF RollbackKept, given
<1>6. \A d \in Deployment : \A t \in Local : StoreHolds(d, t) => StoreHolds(d, t)'
  BY DEF RollbackKept, StoresKept
<1>7. Has(r) => Has(r)'
  BY PlansStay DEF RollbackKept, Has
<1>8. Shaped(r) /\ (r.at # "idle" => Has(r)) /\ (AtTarget(r) => r.todo # <<>>)
  BY DEF CallInv
<1>9. r.at # "idle" => r.dep \in Deployment
  BY <1>8 DEF Has
<1>10. r.at = "step" /\ r.ok = TRUE /\ Head(r.todo) \in Local => StoreHolds(r.dep, Head(r.todo))'
  BY <1>6, <1>9 DEF CallInv
<1>11. r.at = "gate" => /\ LocalHolds(r.dep)'
                        /\ "flags" \notin r.wait => FlagsHold(r.dep)'
                        /\ ReadUpTo(r.dep, r.left)'
  BY <1>1, <1>2, <1>3, <1>9 DEF CallInv
<1>12. r.at = "returned" /\ gated => LocalHolds(r.dep)' /\ FlagsHold(r.dep)'
  BY <1>1, <1>2, <1>9 DEF CallInv
<1> QED BY <1>4, <1>5, <1>7, <1>8, <1>9, <1>10, <1>11, <1>12 DEF CallInv, AtTarget

\* A step in which one call goes on.
LEMMA CallGoes ==
  ASSUME ReturnInv, RollbackKept, NEW c \in Call, NEW s, call' = [call EXCEPT ![c] = s], CallInv(s)',
         LogTrue(log)', \E F : flag' \in [DOMAIN Deployed -> F],
         \E V : store' \in [DOMAIN Stored -> V]
  PROVE  ReturnInv'
<1>1. PICK R : call \in [Call -> R]
  BY DEF ReturnInv
<1>2. call' \in [Call -> R \cup {s}] /\ call'[c] = s /\ \A x \in Call : x # c => call'[x] = call[x]
  BY <1>1
<1>3. ASSUME NEW x \in Call, NEW r, r = call'[x] PROVE CallInv(r)'
  <2>1. CASE x = c
    BY <1>2, <1>3, <2>1
  <2>2. CASE x # c
    BY <1>2, <1>3, <2>2, CallStays DEF ReturnInv
  <2> QED BY <2>1, <2>2
<1>4. captures' \subseteq Deployment /\ plan' \in [Deployment -> Seq(PlanTarget)]
  BY DEF ReturnInv, RollbackKept, given
<1> QED BY <1>2, <1>3, <1>4 DEF ReturnInv

\* The log stays true.
LEMMA LogStays ==
  ASSUME NEW l, LogTrue(l), RollbackKept, log' = l
  PROVE  LogTrue(log)'
<1>1. \A i \in DOMAIN l : l[i].dep \in Deployment /\ l[i].type \in Recorded(l[i].dep)'
  BY PlansStay DEF LogTrue, RollbackKept
<1>2. \A i \in DOMAIN l : l[i].success = TRUE /\ l[i].type \in Local => StoreHolds(l[i].dep, l[i].type)'
  BY DEF LogTrue, RollbackKept, StoresKept
<1> QED BY <1>1, <1>2 DEF LogTrue

\* A local target at hand that can go back does.
LEMMA StorePut ==
  ASSUME ReturnInv, NEW c, NEW r, Has(r), NEW l, NEW d, Continue(c, r, l, d), UNCHANGED given
  PROVE  /\ StoresKept /\ \E V : store' \in [DOMAIN Stored -> V]
         /\ r.todo # <<>> => Head(r.todo) \in Recorded(r.dep)
         /\ r.todo # <<>> /\ Head(r.todo) \in Local /\ Goal(r) \in versions =>
              /\ StoreHolds(r.dep, Head(r.todo))'
              /\ store'[Stores[r.dep][Head(r.todo)].name] = Stores[r.dep][Head(r.todo)].value
         /\ \A t \in Local : store[Stores[r.dep][t].name] = Stores[r.dep][t].value
                             => store'[Stores[r.dep][t].name] = Stores[r.dep][t].value
<1>1. PICK V : store \in [DOMAIN Stored -> V]
  BY DEF ReturnInv
<1>2. r.dep \in Deployment /\ (r.todo # <<>> => Head(r.todo) \in Recorded(r.dep))
  BY DEF Has
<1>3. PICK t, g : t = Head(r.todo) /\ g = Stores[r.dep][t]
  OBVIOUS
<1>4. g = Goal(r)
  BY <1>3 DEF Goal
<1>5. CASE r.todo # <<>> /\ t \in Local /\ g \in versions
  <2>1. store' = [store EXCEPT ![g.name] = g.value]
    BY <1>3, <1>4, <1>5 DEF Continue
  <2>2. store' \in [DOMAIN Stored -> V \cup {g.value}]
    BY <1>1, <2>1
  <2>3. t \in Recorded(r.dep) /\ store' = [store EXCEPT ![Stores[r.dep][t].name] = Stores[r.dep][t].value]
    BY <1>2, <1>3, <1>5, <2>1
  <2>4. /\ StoresKept /\ StoreHolds(r.dep, t)'
        /\ \A u \in Local : store[Stores[r.dep][u].name] = Stores[r.dep][u].value
                            => store'[Stores[r.dep][u].name] = Stores[r.dep][u].value
        /\ store'[Stores[r.dep][t].name] = Stores[r.dep][t].value
    BY ONLY <1>1, <1>2, <1>5, <2>3, UNCHANGED given, StoreTaken
  <2> QED BY <1>2, <1>3, <2>2, <2>4
<1>6. CASE ~ (r.todo # <<>> /\ t \in Local /\ g \in versions)
  <2>1. store' = store
    BY <1>3, <1>4, <1>6 DEF Continue
  <2>2. StoresKept
    BY <2>1, PlansStay DEF StoresKept, StoreHolds
  <2> QED BY <1>1, <1>2, <1>3, <1>4, <1>6, <2>1, <2>2
<1> QED BY <1>5, <1>6

\* What passes for the steps of a deployment has put its local targets back.
LEMMA LineageHolds ==
  ASSUME ReturnInv, NEW r, Has(r), NEW l, LogTrue(l), Lineage(r, l)
  PROVE  LocalHolds(r.dep)
<1>1. PICK S : l \in Seq(S)
  BY DEF LogTrue
<1>2. \A t \in Local : \E i \in DOMAIN l : l[i].success = TRUE /\ Id[r.dep][t] = Id[l[i].dep][l[i].type]
  <2>1. /\ Len(l) >= 5 /\ DOMAIN Expected = 1..5
        /\ Expected[1] = "state_store" /\ Expected[2] = "database" /\ Expected[3] = "cache"
    BY DEF Lineage, Expected
  <2>2. 1 \in DOMAIN l /\ 2 \in DOMAIN l /\ 3 \in DOMAIN l
    BY <1>1, <2>1
  <2>3. \A i \in DOMAIN Expected : l[i].success = TRUE /\ Names(r, l[i], Expected[i])
    BY DEF Lineage
  <2>4. \A i \in {1, 2, 3} : l[i].success = TRUE /\ Id[r.dep][Expected[i]] = Id[l[i].dep][l[i].type]
    BY <2>1, <2>3 DEF Names
  <2> QED BY <2>1, <2>2, <2>4 DEF Local
<1>3. ASSUME NEW t \in Local, ~ Ambiguous(r.dep, t) PROVE StoreHolds(r.dep, t)
  <2>1. PICK i \in DOMAIN l : l[i].success = TRUE /\ Id[r.dep][t] = Id[l[i].dep][l[i].type]
    BY <1>2
  <2>2. PICK e, u : e = l[i].dep /\ u = l[i].type
    OBVIOUS
  <2>3. e \in Deployment /\ u \in Recorded(e) /\ Id[e][u] = Id[r.dep][t]
    BY <2>1, <2>2 DEF LogTrue
  <2>4. u \in Local /\ Stores[e][u] = Stores[r.dep][t]
    BY <1>3, <2>3 DEF Ambiguous
  <2>5. StoreHolds(e, u)
    BY <2>1, <2>2, <2>4 DEF LogTrue
  <2>6. u = t
    BY <2>3, <2>4, RollbackConstants DEF Has
  <2>7. Contested(e, t) => Contested(r.dep, t)
    BY <2>4, <2>6 DEF Contested
  <2> QED BY <2>4, <2>5, <2>6, <2>7 DEF StoreHolds
<1> QED BY <1>3 DEF LocalHolds

\* The loop over the targets goes on.
LEMMA LoopGoes ==
  ASSUME ReturnInv, NEW c \in Call, NEW r, Shaped(r), Has(r), NEW l, LogTrue(l),
         NEW d, Continue(c, r, l, d), UNCHANGED <<given, flag>>
  PROVE  ReturnInv'
<1>1. PICK s : /\ s = (IF r.todo = <<>> THEN Concluded(r, l) ELSE Dispatched(r, d))
               /\ call' = [call EXCEPT ![c] = s]
  BY DEF Continue
<1>0. UNCHANGED given
  OBVIOUS
<1>2. /\ reverted' = reverted /\ log' = l
      /\ StoresKept /\ \E V : store' \in [DOMAIN Stored -> V]
      /\ r.todo # <<>> => Head(r.todo) \in Recorded(r.dep)
      /\ r.todo # <<>> /\ Head(r.todo) \in Local /\ Goal(r) \in versions => StoreHolds(r.dep, Head(r.todo))'
  <2>1. reverted' = reverted /\ log' = l
    BY DEF Continue
  <2> QED BY ONLY ReturnInv, Has(r), Continue(c, r, l, d), <1>0, <2>1, StorePut
<1>3. RollbackKept
  BY <1>2 DEF RollbackKept, FlagHolds
<1>4. LogTrue(log)'
  BY <1>2, <1>3, LogStays
<1>h. ASSUME s.dep = r.dep, s.todo = r.todo PROVE Has(s)'
  BY <1>0, <1>h, PlansStay DEF Has
<1>5. CallInv(s)'
  <2>1. CASE r.todo = <<>>
    <3>1. s = Concluded(r, l)
      BY <1>1, <2>1
    <3>2. /\ Shaped(s) /\ s.dep = r.dep /\ s.todo = r.todo /\ s.at \in {"thrown", "returned", "gate"}
          /\ s.at = "returned" => ~ gated
          /\ s.at = "gate" => /\ Lineage(r, l)
                              /\ s.left = Flags[r.dep] /\ s.wait = {"config", "flags"}
      BY ONLY Shaped(r), <3>1, ConcludedGives
    <3>3. ASSUME Lineage(r, l) PROVE LocalHolds(r.dep)'
      <4>1. LocalHolds(r.dep)
        BY <3>3, LineageHolds
      <4> QED BY <1>0, <1>2, <4>1, PlansStay DEF StoresKept, LocalHolds, Has
    <3>4. ASSUME s.at = "gate" PROVE ReadUpTo(r.dep, s.left)' /\ s.left # <<>>
      <4>1. s.left = Flags[r.dep]
        BY <3>2, <3>4
      <4>2. s.left \in Seq(ToSet(Flags[r.dep])) /\ s.left # <<>>
        BY <4>1, FlagsAre DEF Has
      <4> QED BY <4>1, <4>2 DEF ReadUpTo
    <3>5. gated' = gated
      BY <1>3 DEF RollbackKept, given
    <3>6. CASE s.at = "gate"
      BY <1>h, <3>2, <3>3, <3>4, <3>6 DEF CallInv, AtTarget
    <3>7. CASE s.at # "gate"
      BY <1>h, <3>2, <3>5, <3>7 DEF CallInv, AtTarget
    <3> QED BY <3>6, <3>7
  <2>2. CASE r.todo # <<>>
    <3>1. s = Dispatched(r, d) /\ captures \subseteq Deployment
      BY <1>1, <2>2 DEF ReturnInv
    <3>2. /\ Shaped(s) /\ s.dep = r.dep /\ s.todo = r.todo /\ s.at \in {"step", "put", "update"}
          /\ s.at = "step" /\ s.ok = TRUE /\ Head(r.todo) \in Local => Goal(r) \in versions
          /\ s.at # "step" => Head(r.todo) \notin Local
          /\ s.at = "update" => s.on = d /\ d \in Deployment /\ s.left = Flags[d]
      <4>1. Shaped(r) /\ s = Dispatched(r, d) /\ captures \subseteq Deployment
        BY <3>1
      <4>2. DispatchedTo(s, r, d)
        BY ONLY <4>1, DispatchedGives
      <4> QED BY <4>2 DEF DispatchedTo
    <3>3. s.at = "update" => s.left \in Seq(ToSet(Flags[s.on])) /\ s.left # <<>>
      BY <3>2, FlagsAre
    <3>4. Has(s)' /\ s.todo # <<>>
      BY <1>h, <2>2, <3>2
    <3> QED BY <1>2, <2>2, <3>2, <3>3, <3>4 DEF CallInv
  <2> QED BY <2>1, <2>2
<1>6. \E F : flag' \in [DOMAIN Deployed -> F]
  BY DEF ReturnInv
<1> QED BY <1>1, <1>2, <1>3, <1>4, <1>5, <1>6, CallGoes

-----------------------------------------------------------------------------
(* The handlers and the gate.                                              *)

\* A step that changes no flag keeps what has to be kept.
LEMMA FlagsKept ==
  ASSUME UNCHANGED given, reverted \subseteq reverted', store' = store, flag' = flag
  PROVE  RollbackKept
<1>1. StoresKept
  BY PlansStay DEF StoresKept, StoreHolds
<1> QED BY <1>1 DEF RollbackKept, FlagHolds

\* A call becomes s.
LEMMA CallBecomes ==
  ASSUME ReturnInv, RollbackKept, NEW c \in Call, NEW s, Becomes(c, s), CallInv(s)',
         \E F : flag' \in [DOMAIN Deployed -> F]
  PROVE  ReturnInv'
<1>1. call' = [call EXCEPT ![c] = s] /\ log' = log /\ store' = store
  BY DEF Becomes
<1>2. LogTrue(log)'
  BY <1>1, LogStays DEF ReturnInv
<1>3. \E V : store' \in [DOMAIN Stored -> V]
  BY <1>1 DEF ReturnInv
<1> QED BY <1>1, <1>2, <1>3, CallGoes

\* A call with a handler that awaits is at a target other than the local ones, and stays
\* there when the handler goes on to another call or answers.
LEMMA HandlerGoes ==
  ASSUME NEW r, Shaped(r), Has(r), r.todo # <<>>, Head(r.todo) \notin Local
  PROVE  /\ \A at \in {"get", "check"} : CallInv(Awaits(r, at))
         /\ \A ok : CallInv(Answers(r, ok))
         /\ \A left : CallInv([Awaits(r, "check") EXCEPT !.left = left])
<1>1. ASSUME NEW at \in {"get", "check"} PROVE CallInv(Awaits(r, at))
  <2>1. PICK s : s = Awaits(r, at)
    OBVIOUS
  <2>2. Shaped(s) /\ s.dep = r.dep /\ s.todo = r.todo /\ s.at = at
    BY <2>1 DEF Awaits, Shaped, Fields
  <2>3. CallInv(s)
    BY <2>2, <1>1 DEF CallInv, Has, AtTarget
  <2> QED BY <2>1, <2>3
<1>2. ASSUME NEW ok PROVE CallInv(Answers(r, ok))
  <2>1. PICK s : s = Answers(r, ok)
    OBVIOUS
  <2>2. Shaped(s) /\ s.dep = r.dep /\ s.todo = r.todo /\ s.at = "step"
    BY <2>1 DEF Answers, Shaped, Fields
  <2>3. CallInv(s)
    BY <2>2 DEF CallInv, Has, AtTarget
  <2> QED BY <2>1, <2>3
<1>3. ASSUME NEW left PROVE CallInv([Awaits(r, "check") EXCEPT !.left = left])
  <2>1. PICK s : s = [Awaits(r, "check") EXCEPT !.left = left]
    OBVIOUS
  <2>2. Shaped(s) /\ s.dep = r.dep /\ s.todo = r.todo /\ s.at = "check"
    BY <2>1 DEF Awaits, Shaped, Fields
  <2>3. CallInv(s)
    BY <2>2 DEF CallInv, Has, AtTarget
  <2> QED BY <2>1, <2>3
<1> QED BY <1>1, <1>2, <1>3

\* What is known of a call whose handler awaits.
LEMMA HandlerAt ==
  ASSUME ReturnInv, NEW c \in Call, NEW r, r = call[c], r.at \in {"put", "get", "update", "check"}
  PROVE  Shaped(r) /\ Has(r) /\ r.todo # <<>> /\ Head(r.todo) \notin Local
  BY DEF ReturnInv, CallInv, AtTarget

\* The configuration is put and read back.
LEMMA ConfigGoes ==
  ASSUME ReturnInv, NEW c \in Call, PutConfig(c) \/ GetConfig(c)
  PROVE  ReturnInv' /\ UNCHANGED given
<1>1. PICK r : r = call[c]
  OBVIOUS
<1>2. /\ reverted \subseteq reverted' /\ flag' = flag
      /\ \E s : Becomes(c, s) /\ (s = Awaits(r, "get") \/ \E ok : s = Answers(r, ok))
      /\ r.at \in {"put", "get"}
  BY <1>1 DEF PutConfig, GetConfig
<1>3. UNCHANGED given /\ store' = store
  BY <1>2 DEF Becomes
<1>4. RollbackKept
  BY <1>2, <1>3, FlagsKept
<1>5. PICK s : Becomes(c, s) /\ (s = Awaits(r, "get") \/ \E ok : s = Answers(r, ok))
  BY <1>2
<1>6. Shaped(r) /\ Has(r) /\ r.todo # <<>> /\ Head(r.todo) \notin Local
  BY <1>1, <1>2, HandlerAt
<1>7. CallInv(s)
  BY <1>5, <1>6, HandlerGoes
<1>8. CallInv(s)'
  BY <1>4, <1>7, CallStays
<1>9. \E F : flag' \in [DOMAIN Deployed -> F]
  BY <1>2 DEF ReturnInv
<1> QED BY <1>3, <1>4, <1>5, <1>8, <1>9, CallBecomes

\* A flag takes the value of the capture of one deployment; what other deployments'
\* flags have, they keep, or share.
LEMMA FlagTaken ==
  ASSUME NEW F, flag \in [DOMAIN Deployed -> F], NEW e \in Deployment, NEW g \in ToSet(Flags[e]),
         flag' = [flag EXCEPT ![g.name] = g.value], UNCHANGED given, reverted' = reverted, store' = store
  PROVE  RollbackKept
<1>1. g.name \in DOMAIN Deployed
  BY FlagsAre
<1>2. flag'[g.name] = g.value /\ \A n \in DOMAIN Deployed : n # g.name => flag'[n] = flag[n]
  BY <1>1
<1>3. ASSUME NEW d \in Deployment, NEW f \in ToSet(Flags[d]), FlagHolds(d, f)
      PROVE  FlagHolds(d, f)'
  <2>1. f.name \in DOMAIN Deployed
    BY FlagsAre
  <2>2. CASE f.name # g.name
    BY <1>2, <1>3, <2>1, <2>2 DEF FlagHolds
  <2>3. CASE f.name = g.name /\ d = e
    <3>1. f = g
      BY <2>3, FlagsAre
    <3> QED BY <1>2, <3>1 DEF FlagHolds
  <2>4. CASE f.name = g.name /\ d # e
    <3>1. Shared(d, f.name)
      BY <2>4 DEF Shared
    <3> QED BY <3>1 DEF FlagHolds
  <2> QED BY <2>2, <2>3, <2>4
<1>4. StoresKept
  BY PlansStay DEF StoresKept, StoreHolds
<1> QED BY <1>3, <1>4 DEF RollbackKept

\* A flag is updated.
LEMMA UpdateGoes ==
  ASSUME ReturnInv, NEW c \in Call, UpdateFlag(c)
  PROVE  ReturnInv' /\ UNCHANGED given
<1>1. PICK r, g : r = call[c] /\ g = Head(r.left)
  BY SMTT(90)
<1>2. /\ reverted' = reverted /\ r.at = "update"
      /\ flag' = flag \/ flag' = [flag EXCEPT ![g.name] = g.value]
      /\ \E s : Becomes(c, s) /\ (s = FlagsUpdated(r) \/ s = Answers(r, FALSE))
  BY <1>1 DEF UpdateFlag
<1>3. UNCHANGED given /\ store' = store
  BY <1>2 DEF Becomes
<1>4. Shaped(r) /\ Has(r) /\ r.todo # <<>> /\ Head(r.todo) \notin Local /\ CallInv(r)
  BY <1>1, <1>2, HandlerAt DEF ReturnInv
<1>5. r.on \in Deployment /\ r.left \in Seq(ToSet(Flags[r.on])) /\ r.left # <<>>
  BY <1>2, <1>4 DEF CallInv
<1>6. g \in ToSet(Flags[r.on])
  BY <1>1, <1>5
<1>7. PICK F : flag \in [DOMAIN Deployed -> F]
  BY DEF ReturnInv
<1>8. RollbackKept
  <2>1. CASE flag' = flag
    BY <1>2, <1>3, <2>1, FlagsKept
  <2>2. CASE flag' = [flag EXCEPT ![g.name] = g.value]
    BY <1>2, <1>3, <1>5, <1>6, <1>7, <2>2, FlagTaken
  <2> QED BY <1>2, <2>1, <2>2
<1>9. \E G : flag' \in [DOMAIN Deployed -> G]
  <2>1. flag' \in [DOMAIN Deployed -> F \cup {g.value}]
    BY <1>2, <1>7
  <2> QED BY <2>1
<1>10. PICK s : Becomes(c, s) /\ (s = FlagsUpdated(r) \/ s = Answers(r, FALSE))
  BY <1>2
<1>11. CallInv(s)
  <2>1. CASE s = Answers(r, FALSE)
    BY <1>4, <2>1, HandlerGoes
  <2>2. CASE s = NextFlag(r) /\ Len(r.left) > 1
    <3>1. /\ Shaped(s) /\ s.dep = r.dep /\ s.todo = r.todo /\ s.at = "update" /\ s.on = r.on
          /\ s.left = Tail(r.left)
      BY <1>2, <1>4, <2>2 DEF NextFlag, Shaped, Fields
    <3>2. Tail(r.left) \in Seq(ToSet(Flags[r.on])) /\ Tail(r.left) # <<>>
      BY <1>5, <2>2, Shorter
    <3> QED BY <1>4, <1>5, <3>1, <3>2 DEF CallInv, Has, AtTarget
  <2>3. CASE s = [Awaits(r, "check") EXCEPT !.left = Flags[r.on]]
    BY <1>4, <2>3, HandlerGoes
  <2> QED BY <1>10, <2>1, <2>2, <2>3 DEF FlagsUpdated
<1>12. CallInv(s)'
  BY <1>8, <1>11, CallStays
<1> QED BY <1>3, <1>8, <1>9, <1>10, <1>12, CallBecomes

\* A flag is read back.
LEMMA CheckGoes ==
  ASSUME ReturnInv, NEW c \in Call, CheckFlag(c)
  PROVE  ReturnInv' /\ UNCHANGED given
<1>1. PICK r : r = call[c]
  OBVIOUS
<1>2. /\ reverted' = reverted /\ flag' = flag /\ r.at = "check"
      /\ \E s : Becomes(c, s) /\ (s = NextFlag(r) \/ \E ok : s = Answers(r, ok))
  BY <1>1 DEF CheckFlag
<1>3. UNCHANGED given /\ store' = store
  BY <1>2 DEF Becomes
<1>4. RollbackKept
  BY <1>2, <1>3, FlagsKept
<1>5. PICK s : Becomes(c, s) /\ (s = NextFlag(r) \/ \E ok : s = Answers(r, ok))
  BY <1>2
<1>6. Shaped(r) /\ Has(r) /\ r.todo # <<>> /\ Head(r.todo) \notin Local
  BY <1>1, <1>2, HandlerAt
<1>7. CallInv(s)
  <2>1. CASE s = NextFlag(r)
    <3>1. Shaped(s) /\ s.dep = r.dep /\ s.todo = r.todo /\ s.at = "check"
      BY <1>2, <1>6, <2>1 DEF NextFlag, Shaped, Fields
    <3> QED BY <1>6, <3>1 DEF CallInv, Has, AtTarget
  <2>2. CASE \E ok : s = Answers(r, ok)
    BY <1>6, <2>2, HandlerGoes
  <2> QED BY <1>5, <2>1, <2>2
<1>8. CallInv(s)'
  BY <1>4, <1>7, CallStays
<1>9. \E F : flag' \in [DOMAIN Deployed -> F]
  BY <1>2 DEF ReturnInv
<1> QED BY <1>3, <1>4, <1>5, <1>8, <1>9, CallBecomes

\* One check of the gate is over.
LEMMA GateGoes ==
  ASSUME ReturnInv, NEW c \in Call, NEW check \in {"config", "flags"}, Gating(c, check),
         NEW ok \in BOOLEAN, Gate(c, check, ok), UNCHANGED <<reverted, flag>>,
         ok /\ check = "config" => call[c].dep \in reverted,
         ok /\ check = "flags" => FlagsHold(call[c].dep)
  PROVE  ReturnInv' /\ UNCHANGED given
<1>1. PICK p : p = call[c]
  OBVIOUS
<1>2. PICK r : r = [p EXCEPT !.wait = p.wait \ {check}]
  OBVIOUS
<1>3. Becomes(c, IF ~ok THEN Ended(r, "thrown") ELSE IF r.wait = {} THEN Ended(r, "returned") ELSE r)
  BY <1>1, <1>2 DEF Gate
<1>4. PICK s : /\ Becomes(c, s)
               /\ \/ ~ok /\ s = Ended(r, "thrown")
                  \/ ok /\ r.wait = {} /\ s = Ended(r, "returned")
                  \/ ok /\ r.wait # {} /\ s = r
  BY <1>3
<1>5. UNCHANGED given /\ store' = store
  BY <1>4 DEF Becomes
<1>6. RollbackKept
  BY <1>5, FlagsKept
<1>7. CallInv(p) /\ p.at = "gate" /\ Shaped(p)
  BY <1>1 DEF ReturnInv, CallInv, Gating
<1>8. /\ Shaped(r) /\ r.at = "gate" /\ r.dep = p.dep /\ r.todo = p.todo /\ r.left = p.left /\ r.wait = p.wait \ {check}
      /\ p.wait \subseteq {"config", "flags"}
  BY <1>2, <1>7, SMTT(90) DEF Shaped, Fields, CallInv
<1>9. ASSUME ok = TRUE
      PROVE  /\ "config" \notin r.wait => r.dep \in reverted
             /\ "flags" \notin r.wait => FlagsHold(r.dep)
  BY <1>1, <1>7, <1>8, <1>9 DEF CallInv
<1>10. CallInv(s)
  <2>1. CASE ~ok /\ s = Ended(r, "thrown")
    <3>1. Shaped(s) /\ s.at = "thrown" /\ s.dep = r.dep /\ s.todo = r.todo
      BY <1>8, <2>1 DEF Ended, Shaped, Fields
    <3> QED BY <1>7, <1>8, <3>1 DEF CallInv, Has, AtTarget
  <2>2. CASE ok /\ r.wait = {} /\ s = Ended(r, "returned")
    <3>1. Shaped(s) /\ s.at = "returned" /\ s.dep = r.dep /\ s.todo = r.todo
      BY <1>8, <2>2 DEF Ended, Shaped, Fields
    <3>2. r.dep \in reverted /\ FlagsHold(r.dep)
      BY <1>9, <2>2
    <3> QED BY <1>7, <1>8, <3>1, <3>2 DEF CallInv, Has, AtTarget
  <2>3. CASE ok /\ r.wait # {} /\ s = r
    <3>1. /\ "config" \notin r.wait => r.dep \in reverted
          /\ "flags" \notin r.wait => FlagsHold(r.dep)
      BY <1>9, <2>3
    <3> QED BY <1>7, <1>8, <2>3, <3>1 DEF CallInv, Has, AtTarget
  <2> QED BY <1>4, <2>1, <2>2, <2>3
<1>11. CallInv(s)'
  BY <1>6, <1>10, CallStays
<1>12. \E F : flag' \in [DOMAIN Deployed -> F]
  BY DEF ReturnInv
<1> QED BY <1>4, <1>5, <1>6, <1>11, <1>12, CallBecomes

\* The gate reads the configuration.
LEMMA GateConfigGoes ==
  ASSUME ReturnInv, NEW c \in Call, GateConfig(c)
  PROVE  ReturnInv' /\ UNCHANGED given
<1>1. PICK b \in BOOLEAN : b <=> (call[c].dep \in captures /\ call[c].dep \in reverted)
  OBVIOUS
<1>2. /\ Gating(c, "config") /\ UNCHANGED <<reverted, flag>>
      /\ \E ok \in {FALSE, b} : Gate(c, "config", ok)
  <2>1. b = (call[c].dep \in captures /\ call[c].dep \in reverted)
    BY <1>1, Zenon
  <2> QED BY <2>1, Zenon DEF GateConfig
<1>3. PICK ok \in BOOLEAN : Gate(c, "config", ok) /\ (ok => b)
  BY <1>2
<1> QED BY <1>1, <1>2, <1>3, GateGoes

\* The flag read next is the one after those that hold.
LEMMA FlagRead ==
  ASSUME NEW d \in Deployment, NEW left, ReadUpTo(d, left), left # <<>>,
         flag[Head(left).name] = Head(left).value
  PROVE  /\ Len(left) > 1 => ReadUpTo(d, Tail(left)) /\ Tail(left) # <<>>
         /\ ~ (Len(left) > 1) => FlagsHold(d)
<1>1. left \in Seq(ToSet(Flags[d]))
  BY DEF ReadUpTo
<1>2. ToSet(left) = {Head(left)} \cup ToSet(Tail(left)) /\ (~ (Len(left) > 1) => ToSet(left) = {Head(left)})
  BY <1>1, HeadAndRest
<1>3. \A f \in ToSet(Flags[d]) : FlagHolds(d, f) \/ f \in ToSet(left)
  BY DEF ReadUpTo
<1>4. FlagHolds(d, Head(left))
  BY DEF FlagHolds
<1>5. Tail(left) \in Seq(ToSet(Flags[d])) /\ (Len(left) > 1 => Tail(left) # <<>>)
  BY <1>1, Shorter
<1>6. ReadUpTo(d, Tail(left))
  BY <1>2, <1>3, <1>4, <1>5 DEF ReadUpTo
<1>7. ASSUME ~ (Len(left) > 1) PROVE FlagsHold(d)
  BY <1>2, <1>3, <1>4, <1>7 DEF FlagsHold
<1> QED BY <1>5, <1>6, <1>7

\* The gate reads a flag.
LEMMA GateFlagGoes ==
  ASSUME ReturnInv, NEW c \in Call, GateFlag(c)
  PROVE  ReturnInv' /\ UNCHANGED given
<1>1. PICK r : r = call[c]
  OBVIOUS
<1>2. PICK b \in BOOLEAN : b <=> flag[Head(r.left).name] = Head(r.left).value
  OBVIOUS
<1>3. /\ Gating(c, "flags") /\ UNCHANGED <<reverted, flag>>
      /\ \/ Gate(c, "flags", FALSE)
         \/ \E ok \in {FALSE, b} : IF ok /\ Len(r.left) > 1 THEN Becomes(c, NextFlag(r))
                                   ELSE Gate(c, "flags", ok)
  <2>1. b = (flag[Head(r.left).name] = Head(r.left).value)
    BY <1>2, Zenon
  <2> QED BY <1>1, <2>1, Zenon DEF GateFlag, FlagMatches
<1>4. \/ Gate(c, "flags", FALSE)
      \/ b /\ Len(r.left) > 1 /\ Becomes(c, NextFlag(r))
      \/ b /\ ~ (Len(r.left) > 1) /\ Gate(c, "flags", b)
  <2>1. CASE \E ok \in {FALSE, b} : IF ok /\ Len(r.left) > 1 THEN Becomes(c, NextFlag(r))
                                   ELSE Gate(c, "flags", ok)
    <3>1. PICK ok \in {FALSE, b} : IF ok /\ Len(r.left) > 1 THEN Becomes(c, NextFlag(r))
                                   ELSE Gate(c, "flags", ok)
      BY <2>1
    <3>2. CASE ok = FALSE
      BY <3>1, <3>2
    <3>3. CASE ok = TRUE /\ b = TRUE
      BY <3>1, <3>3
    <3> QED BY <3>2, <3>3
  <2> QED BY <1>3, <2>1
<1>5. /\ CallInv(r) /\ r.at = "gate" /\ r.dep \in Deployment /\ Shaped(r) /\ r.left # <<>>
      /\ ReadUpTo(r.dep, r.left)
  BY <1>1, <1>3 DEF ReturnInv, CallInv, Gating, Has
<1>6. b => /\ Len(r.left) > 1 => ReadUpTo(r.dep, Tail(r.left)) /\ Tail(r.left) # <<>>
           /\ ~ (Len(r.left) > 1) => FlagsHold(r.dep)
  BY <1>2, <1>5, FlagRead
<1>7. CASE Gate(c, "flags", FALSE)
  BY <1>3, <1>7, GateGoes
<1>8. CASE b /\ Len(r.left) > 1 /\ Becomes(c, NextFlag(r))
  <2>1. PICK s : s = NextFlag(r)
    OBVIOUS
  <2>2. /\ Shaped(s) /\ s.at = "gate" /\ s.dep = r.dep /\ s.todo = r.todo /\ s.wait = r.wait /\ s.left = Tail(r.left)
    BY <1>5, <2>1 DEF NextFlag, Shaped, Fields
  <2>3. CallInv(s)
    BY <1>5, <1>6, <1>8, <2>2 DEF CallInv, Has, AtTarget
  <2>4. UNCHANGED given /\ store' = store
    BY <1>8 DEF Becomes
  <2>5. RollbackKept
    BY <1>3, <2>4, FlagsKept
  <2>6. CallInv(s)'
    BY <2>3, <2>5, CallStays
  <2>7. \E F : flag' \in [DOMAIN Deployed -> F]
    BY <1>3 DEF ReturnInv
  <2> QED BY <1>8, <2>1, <2>4, <2>5, <2>6, <2>7, CallBecomes
<1>9. CASE b /\ ~ (Len(r.left) > 1) /\ Gate(c, "flags", b)
  <2>1. FlagsHold(call[c].dep)
    BY <1>1, <1>6, <1>9
  <2>2. PICK ok \in BOOLEAN : ok = b
    OBVIOUS
  <2>3. /\ Gating(c, "flags") /\ Gate(c, "flags", ok) /\ UNCHANGED <<reverted, flag>>
        /\ "flags" \in {"config", "flags"} /\ "flags" # "config"
    BY <1>3, <1>9, <2>2
  <2> QED BY ONLY ReturnInv, c \in Call, ok \in BOOLEAN, <2>1, <2>3, GateGoes
<1> QED BY <1>7, <1>8, <1>9, <1>4

-----------------------------------------------------------------------------
(* The gate of RollbackSpec.                                               *)

\* At the start no call has returned.
LEMMA ReturnInvInit == RollbackInit => ReturnInv
<1> SUFFICES ASSUME RollbackInit PROVE ReturnInv
  OBVIOUS
<1>1. captures \subseteq Deployment
  <2>1. PICK h \in Held : captures = h[2]
    BY DEF RollbackInit
  <2> QED BY <2>1, RollbackConstants
<1>2. plan \in [Deployment -> Seq(PlanTarget)]
  <2>1. ASSUME NEW d \in Deployment PROVE plan[d] \in Seq(PlanTarget)
    <3>1. plan[d] \in Plans[d]
      BY DEF RollbackInit
    <3>2. plan[d] \in Seq([type : Type, deps : Seq(Type)])
      BY <3>1, RollbackConstants
    <3> QED BY <3>2 DEF PlanTarget
  <2>2. \E S : plan \in [Deployment -> S]
    BY DEF RollbackInit
  <2> QED BY <2>1, <2>2
<1>3. LogTrue(log)
  <2>1. PICK l : l = <<>>
    OBVIOUS
  <2>2. l \in Seq({}) /\ DOMAIN l = {}
    BY <2>1
  <2>3. LogTrue(l)
    BY <2>2 DEF LogTrue
  <2> QED BY <2>1, <2>3 DEF RollbackInit
<1>4. flag = Deployed /\ store = Stored /\ call = [c \in Call |-> Idle]
  BY DEF RollbackInit
<1>5. \E F : Deployed \in [DOMAIN Deployed -> F]
  <2>1. [n \in DOMAIN Deployed |-> Deployed[n]] \in
          [DOMAIN Deployed -> {Deployed[n] : n \in DOMAIN Deployed}]
    OBVIOUS
  <2>2. Deployed \in [DOMAIN Deployed -> {Deployed[n] : n \in DOMAIN Deployed}]
    BY <2>1, RollbackConstants
  <2> QED BY <2>2
<1>6. \E V : Stored \in [DOMAIN Stored -> V]
  <2>1. [n \in DOMAIN Stored |-> Stored[n]] \in
          [DOMAIN Stored -> {Stored[n] : n \in DOMAIN Stored}]
    OBVIOUS
  <2>2. Stored \in [DOMAIN Stored -> {Stored[n] : n \in DOMAIN Stored}]
    BY <2>1, RollbackConstants
  <2> QED BY <2>2
<1>7. call \in [Call -> {Idle}]
  BY <1>4
<1>8. CallInv(Idle)
  BY DEF CallInv, Idle, Shaped, Fields, AtTarget
<1>9. \A c \in Call : call[c] = Idle
  BY <1>4
<1> QED BY <1>1, <1>2, <1>3, <1>4, <1>5, <1>6, <1>7, <1>8, <1>9 DEF ReturnInv

\* What a call for d is given.
Given(d) == [Idle EXCEPT !.dep = d, !.own = ToSet(Resolve(plan[d])), !.todo = Resolve(plan[d])]

\* It has targets of d before it.
LEMMA StartHas ==
  ASSUME ReturnInv, NEW d \in Deployment, NEW r, r = Given(d)
  PROVE  Shaped(r) /\ r.dep = d /\ r.todo = Resolve(plan[d]) /\ r.oks = {} /\ Has(r)
<1>1. Shaped(r) /\ r.dep = d /\ r.todo = Resolve(plan[d]) /\ r.oks = {}
  BY DEF Given, Idle, Shaped, Fields
<1>2. plan[d] \in Seq(PlanTarget)
  BY DEF ReturnInv
<1>3. Resolve(plan[d]) \in Seq(Recorded(d))
  BY <1>2, ResolveGives DEF Recorded
<1> QED BY <1>1, <1>3 DEF Has

\* A rollback is started.
LEMMA StartGoes ==
  ASSUME ReturnInv, NEW c \in Call, NEW d \in Deployment, StartRollback(c, d)
  PROVE  ReturnInv' /\ UNCHANGED given
<1>1. PICK r, l : r = Given(d) /\ l = <<>>
  OBVIOUS
<1>2. Continue(c, r, l, d) /\ UNCHANGED <<given, flag>>
  BY <1>1 DEF StartRollback, Given
<1>3. Shaped(r) /\ Has(r)
  BY <1>1, StartHas
<1>4. LogTrue(l)
  <2>1. l \in Seq({}) /\ DOMAIN l = {}
    BY <1>1
  <2> QED BY <2>1 DEF LogTrue
<1>5. ReturnInv'
  BY ONLY ReturnInv, c \in Call, <1>2, <1>3, <1>4, LoopGoes
<1> QED BY <1>2, <1>5

\* What is left after the target at hand are targets of the deployment.
LEMMA AdvancedHas ==
  ASSUME NEW r, Shaped(r), Has(r), r.todo # <<>>, NEW s, s = Advanced(r)
  PROVE  Shaped(s) /\ s.dep = r.dep /\ s.todo = Tail(r.todo) /\ s.oks = r.oks \cup {r.ok} /\ Has(s)
<1>1. Shaped(s) /\ s.dep = r.dep /\ s.todo = Tail(r.todo) /\ s.oks = r.oks \cup {r.ok}
  BY DEF Advanced, Shaped, Fields
<1>2. Tail(r.todo) \in Seq(Recorded(r.dep))
  BY HeadTailProperties DEF Has
<1> QED BY <1>1, <1>2 DEF Has

\* A step is over.
LEMMA StepGoes ==
  ASSUME ReturnInv, NEW c \in Call, StepDone(c)
  PROVE  ReturnInv' /\ UNCHANGED given
<1>1. PICK r, e : r = call[c] /\ e = [dep |-> r.dep, type |-> Head(r.todo), success |-> r.ok]
  OBVIOUS
<1>2. PICK l, s : l = Append(log, e) /\ s = Advanced(r)
  OBVIOUS
<1>3. r.at = "step" /\ Continue(c, s, l, current) /\ UNCHANGED <<given, flag>>
  BY <1>1, <1>2 DEF StepDone
<1>4. CallInv(r) /\ Shaped(r) /\ Has(r) /\ r.todo # <<>>
  BY <1>1, <1>3 DEF ReturnInv, CallInv, AtTarget
<1>5. Shaped(s) /\ Has(s)
  BY <1>2, <1>4, AdvancedHas
<1>6. LogTrue(l)
  <2>1. PICK S : log \in Seq(S)
    BY DEF ReturnInv, LogTrue
  <2>2. log \in Seq(S \cup {e}) /\ e \in S \cup {e}
    BY <2>1
  <2>3. /\ l \in Seq(S \cup {e}) /\ DOMAIN l = DOMAIN log \cup {Len(log) + 1}
        /\ l[Len(log) + 1] = e /\ \A i \in DOMAIN log : l[i] = log[i]
    BY ONLY <1>2, <2>2, Longer
  <2>4. e.success = r.ok /\ e.type = Head(r.todo) /\ e.dep = r.dep
    BY <1>1
  <2>5. e.success = TRUE /\ e.type \in Local => StoreHolds(e.dep, e.type)
    BY <1>3, <1>4, <2>4 DEF CallInv
  <2>6. e.dep \in Deployment /\ e.type \in Recorded(e.dep)
    BY <1>4, <2>4 DEF Has
  <2>7. \A i \in DOMAIN log : /\ log[i].dep \in Deployment /\ log[i].type \in Recorded(log[i].dep)
                              /\ log[i].success = TRUE /\ log[i].type \in Local
                                   => StoreHolds(log[i].dep, log[i].type)
    BY DEF ReturnInv, LogTrue
  <2> QED BY <2>3, <2>5, <2>6, <2>7 DEF LogTrue
<1>7. ReturnInv'
  BY ONLY ReturnInv, c \in Call, <1>3, <1>5, <1>6, LoopGoes
<1> QED BY <1>3, <1>7

\* Every step keeps the invariant and what was recorded.
LEMMA ReturnInvNext == ReturnInv /\ [RollbackNext]_rollbackVars => ReturnInv' /\ UNCHANGED given
<1> SUFFICES ASSUME ReturnInv, [RollbackNext]_rollbackVars PROVE ReturnInv' /\ UNCHANGED given
  OBVIOUS
<1>1. ASSUME NEW c \in Call, NEW d \in Deployment, StartRollback(c, d) PROVE ReturnInv' /\ UNCHANGED given
  BY <1>1, StartGoes
<1>2. ASSUME NEW c \in Call, Step(c) PROVE ReturnInv' /\ UNCHANGED given
  BY <1>2, StepGoes, ConfigGoes, UpdateGoes, CheckGoes, GateConfigGoes, GateFlagGoes DEF Step
<1>3. CASE UNCHANGED rollbackVars
  <2>1. UNCHANGED <<given, reverted, store, flag, log, call>>
    BY <1>3 DEF rollbackVars
  <2>2. RollbackKept
    BY <2>1, FlagsKept
  <2>3. LogTrue(log)'
    BY <2>1, <2>2, LogStays DEF ReturnInv
  <2>4. \A c \in Call : \A r : r = call'[c] => CallInv(r)'
    BY <2>1, <2>2, CallStays DEF ReturnInv
  <2> QED BY <2>1, <2>3, <2>4 DEF ReturnInv, given
<1> QED BY <1>1, <1>2, <1>3 DEF RollbackNext

(* A call the health gate lets return has its deployment reverted, however     *)
(* calls overlap (health-check-gate.ts:4-6): its configuration; each flag no    *)
(* other deployment has set; each local store no other deployment takes to     *)
(* another version, unless the id of the target is also that of a target for   *)
(* which something else is put back (rollback-executor.ts:393-408).  For any   *)
(* deployments, ids, stores, targets, captures and calls.                       *)
THEOREM GateStops == RollbackSpec => GatedReturnReverts
<1> DEFINE GateDone == gated => \A c \in Call : Returns(c) =>
             LET d == call'[c].dep IN
             /\ d \in reverted'
             /\ \A t \in Local : Contested(d, t) \/ Ambiguous(d, t)
                                 \/ store'[Stores[d][t].name] = Stores[d][t].value
             /\ \A f \in ToSet(Flags[d]) : Shared(d, f.name) \/ flag'[f.name] = f.value
<1>1. ASSUME ReturnInv, [RollbackNext]_rollbackVars PROVE [GateDone]_rollbackVars
  <2>1. ReturnInv' /\ UNCHANGED given
    BY <1>1, ReturnInvNext
  <2>2. gated' = gated
    BY <2>1 DEF given
  <2>3. ASSUME gated, NEW c \in Call, Returns(c), NEW d, d = call'[c].dep
        PROVE  /\ d \in reverted'
               /\ \A t \in Local : Contested(d, t) \/ Ambiguous(d, t)
                                   \/ store'[Stores[d][t].name] = Stores[d][t].value
               /\ \A f \in ToSet(Flags[d]) : Shared(d, f.name) \/ flag'[f.name] = f.value
    <3>1. PICK r : r = call'[c]
      OBVIOUS
    <3>2. CallInv(r)' /\ r.at = "returned" /\ gated' /\ r.dep = d
      BY <2>1, <2>2, <2>3, <3>1 DEF ReturnInv, Returns
    <3>3. (LocalHolds(d) /\ d \in reverted /\ FlagsHold(d))'
      BY <3>2 DEF CallInv
    <3>4. \A t \in Local : Contested(d, t) \/ Ambiguous(d, t)
                           \/ store'[Stores[d][t].name] = Stores[d][t].value
      BY <2>1, <3>3, PlansStay DEF LocalHolds, StoreHolds
    <3> QED BY <3>3, <3>4 DEF FlagsHold, FlagHolds
  <2> QED BY <2>3
<1> QED BY <1>1, ReturnInvInit, ReturnInvNext, PTL DEF RollbackSpec, GatedReturnReverts

-----------------------------------------------------------------------------
(* A rollback alone, for any targets and dependencies.                     *)

-----------------------------------------------------------------------------
(* A call that no other has overlapped.                                    *)

CallOver == {"idle", "returned", "thrown"}

\* Call r has done the targets that log l has, and has those left that come after them.
OnPlan(r, l) ==
  /\ \E S : l \in Seq(S)
  /\ \A i \in DOMAIN l : l[i].dep = r.dep
  /\ \E p \in Seq(Type) :
       /\ p = Resolve(plan[r.dep])
       /\ r.todo \in Seq(Type) /\ Len(p) = Len(l) + Len(r.todo)
       /\ \A i \in 1..Len(l) : l[i].type = p[i]
       /\ \A i \in 1..Len(r.todo) : r.todo[i] = p[Len(l) + i]

\* A call alone is the only one that runs, and the log is its own.
AloneInv ==
  /\ plan \in [Deployment -> Seq(PlanTarget)]
  /\ alone \subseteq Call
  /\ \A c \in alone : \A r : r = call[c] /\ r.at \notin CallOver =>
       /\ \A o \in Call : o # c => call[o].at \in CallOver
       /\ OnPlan(r, log)
       /\ r.at # "gate" => r.todo # <<>>

\* A call goes on with the target it is at.
SameTarget(r, s) ==
  /\ s.dep = r.dep /\ s.todo = r.todo /\ s.oks = r.oks
  /\ s.at \notin CallOver => (s.at = "gate" <=> r.at = "gate")

\* Then the others do not run either.
LEMMA AloneGoes ==
  ASSUME ReturnInv, AloneInv, UNCHANGED given, log' = log, alone' = alone, NEW c \in Call, NEW r, r = call[c],
         r.at \notin CallOver, NEW s, call' = [call EXCEPT ![c] = s], SameTarget(r, s)
  PROVE  AloneInv'
<1>1. PICK R : call \in [Call -> R]
  BY DEF ReturnInv
<1>2. call'[c] = s /\ \A o \in Call : o # c => call'[o] = call[o]
  BY <1>1
<1>3. plan' = plan
  BY DEF given
<1>4. ASSUME NEW x \in alone, NEW q, q = call'[x], q.at \notin CallOver
      PROVE  /\ \A o \in Call : o # x => call'[o].at \in CallOver
             /\ OnPlan(q, log)
             /\ q.at # "gate" => q.todo # <<>>
  <2>1. x \in Call
    BY DEF AloneInv
  <2>2. CASE x = c
    <3>1. /\ \A o \in Call : o # c => call[o].at \in CallOver
          /\ OnPlan(r, log)
          /\ r.at # "gate" => r.todo # <<>>
      BY <1>4, <2>2 DEF AloneInv
    <3>2. q = s
      BY <1>2, <1>4, <2>2, SMTT(90)
    <3>3. OnPlan(s, log)
      BY <3>1 DEF OnPlan, SameTarget
    <3>4. s.at # "gate" => s.todo # <<>>
      BY <1>4, <3>1, <3>2 DEF SameTarget
    <3> QED BY <1>2, <2>2, <3>1, <3>2, <3>3, <3>4
  <2>3. CASE x # c
    <3>1. call[x] = q
      BY <1>2, <1>4, <2>1, <2>3
    <3>2. call[c].at \in CallOver
      BY <1>4, <2>3, <3>1 DEF AloneInv
    <3> QED BY <3>2
  <2> QED BY <2>2, <2>3
<1>5. \A q : OnPlan(q, log) => OnPlan(q, log)'
  BY <1>3 DEF OnPlan
<1>6. ASSUME NEW x \in alone', NEW q, q = call'[x], q.at \notin CallOver
      PROVE  /\ \A o \in Call : o # x => call'[o].at \in CallOver
             /\ OnPlan(q, log)'
             /\ q.at # "gate" => q.todo # <<>>
  BY <1>4, <1>5, <1>6
<1> QED BY <1>3, <1>6 DEF AloneInv

\* The loop over the targets goes on with a call that is alone, or with another.
LEMMA LoopAlone ==
  ASSUME ReturnInv, AloneInv, NEW c \in Call, NEW r, Shaped(r), NEW l, NEW d, Continue(c, r, l, d),
         UNCHANGED given, alone' \subseteq Call,
         \A x \in alone' : x # c => call[x].at \in CallOver,
         c \in alone' => OnPlan(r, l) /\ \A o \in Call : o # c => call[o].at \in CallOver
  PROVE  AloneInv'
<1>1. PICK s : /\ s = (IF r.todo = <<>> THEN Concluded(r, l) ELSE Dispatched(r, d))
               /\ call' = [call EXCEPT ![c] = s] /\ log' = l
  BY DEF Continue
<1>2. PICK R : call \in [Call -> R]
  BY DEF ReturnInv
<1>3. call'[c] = s /\ \A o \in Call : o # c => call'[o] = call[o]
  BY <1>1, <1>2
<1>4. plan' = plan /\ plan \in [Deployment -> Seq(PlanTarget)]
  BY DEF given, AloneInv
<1>5. s.dep = r.dep /\ s.todo = r.todo /\ (s.at \notin CallOver /\ s.at # "gate" => r.todo # <<>>)
  <2>1. CASE r.todo = <<>>
    <3>1. s = Concluded(r, l)
      BY <1>1, <2>1
    <3>2. /\ Shaped(s) /\ s.dep = r.dep /\ s.todo = r.todo /\ s.at \in {"thrown", "returned", "gate"}
      BY ONLY Shaped(r), <3>1, ConcludedGives
    <3> QED BY <3>2 DEF CallOver
  <2>2. CASE r.todo # <<>>
    <3>1. s = Dispatched(r, d) /\ captures \subseteq Deployment
      BY <1>1, <2>2 DEF ReturnInv
    <3>2. DispatchedTo(s, r, d)
      BY ONLY Shaped(r), <3>1, DispatchedGives
    <3> QED BY <2>2, <3>2 DEF DispatchedTo
  <2> QED BY <2>1, <2>2
<1>6. ASSUME NEW x \in alone', NEW q, q = call'[x], q.at \notin CallOver
      PROVE  /\ \A o \in Call : o # x => call'[o].at \in CallOver
             /\ OnPlan(q, log)'
             /\ q.at # "gate" => q.todo # <<>>
  <2>1. x \in Call
    BY <1>6
  <2>2. x = c
    BY <1>3, <1>6, <2>1
  <2>3. OnPlan(r, l) /\ \A o \in Call : o # c => call[o].at \in CallOver
    BY <1>6, <2>2
  <2>4. q = s /\ \A o \in Call : o # x => call'[o].at \in CallOver
    BY <1>3, <1>6, <2>2, <2>3
  <2>5. OnPlan(s, l)
    BY <1>5, <2>3, SMTT(90) DEF OnPlan
  <2>6. OnPlan(q, log)'
    BY <1>1, <1>4, <2>4, <2>5 DEF OnPlan
  <2> QED BY <1>5, <1>6, <2>4, <2>6
<1> QED BY <1>4, <1>6 DEF AloneInv

\* At the start the whole plan is left.
LEMMA StartOnPlan ==
  ASSUME AloneInv, NEW d \in Deployment, NEW r, r.dep = d, r.todo = Resolve(plan[d])
  PROVE  OnPlan(r, <<>>)
<1>1. PICK p : p = Resolve(plan[d])
  OBVIOUS
<1>2. plan[d] \in Seq(PlanTarget)
  BY DEF AloneInv
<1>3. p \in Seq(Type)
  BY <1>1, <1>2, ResolveGives
<1>4. PICK l : l = <<>>
  OBVIOUS
<1>5. l \in Seq({}) /\ Len(l) = 0 /\ DOMAIN l = {}
  BY <1>4
<1>6. Len(p) \in Nat /\ \A i \in 1..Len(p) : 0 + i = i
  BY <1>3
<1>7. OnPlan(r, l)
  BY <1>1, <1>3, <1>5, <1>6 DEF OnPlan
<1> QED BY <1>4, <1>7

\* A rollback is started.
LEMMA StartAlone ==
  ASSUME ReturnInv, AloneInv, NEW c \in Call, NEW d \in Deployment, StartRollback(c, d)
  PROVE  AloneInv'
<1>1. PICK r : r = Given(d)
  OBVIOUS
<1>2. Continue(c, r, <<>>, d) /\ UNCHANGED given
  BY <1>1 DEF StartRollback, Given
<1>3. Shaped(r) /\ r.dep = d /\ r.todo = Resolve(plan[d])
  BY <1>1, StartHas
<1>4. alone' = {} \/ (alone' = {c} /\ \A o \in Call : call[o].at \in CallOver)
  BY DEF StartRollback, Running, CallOver
<1>5. OnPlan(r, <<>>)
  BY <1>3, StartOnPlan
<1>6. PICK l : l = <<>>
  OBVIOUS
<1>7. Continue(c, r, l, d) /\ OnPlan(r, l)
  BY <1>2, <1>5, <1>6
<1>8. alone' \subseteq Call /\ \A x \in alone' : x = c /\ \A o \in Call : call[o].at \in CallOver
  BY <1>4
<1>9. /\ \A x \in alone' : x # c => call[x].at \in CallOver
      /\ c \in alone' => OnPlan(r, l) /\ \A o \in Call : o # c => call[o].at \in CallOver
  BY <1>7, <1>8
<1> QED BY ONLY ReturnInv, AloneInv, c \in Call, <1>2, <1>3, <1>7, <1>8, <1>9, LoopAlone

\* A step is done, and the target at hand is in the log instead.
LEMMA StepOnPlan ==
  ASSUME AloneInv, NEW c \in alone, NEW r, r = call[c], r.at \notin CallOver, r.at # "gate", NEW e,
         e.dep = r.dep, e.type = Head(r.todo), NEW l, l = Append(log, e), NEW s, s.dep = r.dep, s.todo = Tail(r.todo)
  PROVE  OnPlan(s, l) /\ \A o \in Call : o # c => call[o].at \in CallOver
<1>1. OnPlan(r, log) /\ r.todo # <<>> /\ \A o \in Call : o # c => call[o].at \in CallOver
  BY DEF AloneInv
<1>2. PICK S : log \in Seq(S)
  BY <1>1, SMTT(90) DEF OnPlan
<1>3. PICK p \in Seq(Type) :
        /\ p = Resolve(plan[r.dep])
        /\ r.todo \in Seq(Type) /\ Len(p) = Len(log) + Len(r.todo)
        /\ \A i \in 1..Len(log) : log[i].type = p[i]
        /\ \A i \in 1..Len(r.todo) : r.todo[i] = p[Len(log) + i]
  BY <1>1 DEF OnPlan
<1>4. log \in Seq(S \cup {e}) /\ e \in S \cup {e}
  BY <1>2
<1>5. /\ l \in Seq(S \cup {e}) /\ Len(l) = Len(log) + 1 /\ DOMAIN l = DOMAIN log \cup {Len(log) + 1}
      /\ l[Len(log) + 1] = e /\ \A i \in DOMAIN log : l[i] = log[i]
  BY ONLY l = Append(log, e), <1>4, Longer, SMTT(90)
<1>6. PICK m, n \in Nat : m = Len(log) /\ n = Len(r.todo) /\ DOMAIN log = 1..m
  BY <1>2, <1>3, SMTT(90)
<1>7. /\ n >= 1 /\ Head(r.todo) = r.todo[1]
      /\ Tail(r.todo) \in Seq(Type) /\ Len(Tail(r.todo)) = n - 1
      /\ \A i \in 1..(n - 1) : Tail(r.todo)[i] = r.todo[i + 1]
  BY <1>1, <1>3, <1>6, HeadTailProperties
<1>8. Len(l) = m + 1 /\ DOMAIN l = 1..(m + 1)
  BY <1>5, <1>6, SMTT(90)
<1>9. e.dep = r.dep /\ e.type = p[m + 1]
  BY <1>3, <1>6, <1>7
<1>10. \A i \in 1..Len(l) : l[i].dep = s.dep /\ l[i].type = p[i]
  <2> SUFFICES ASSUME NEW i \in 1..(m + 1) PROVE l[i].dep = s.dep /\ l[i].type = p[i]
    BY <1>8
  <2>1. CASE i \in 1..m
    <3>1. \A j \in DOMAIN log : log[j].dep = r.dep
      BY <1>1 DEF OnPlan
    <3> QED BY ONLY s.dep = r.dep, <1>3, <1>5, <1>6, <2>1, <3>1
  <2>2. CASE i = m + 1
    BY ONLY s.dep = r.dep, <1>5, <1>6, <1>9, <2>2
  <2>3. i \in 1..m \/ i = m + 1
    BY ONLY m \in Nat, i \in 1..(m + 1)
  <2> QED BY ONLY <2>1, <2>2, <2>3
<1>11. Len(p) = Len(l) + Len(s.todo) /\ s.todo \in Seq(Type)
  <2>1. Len(p) = m + n /\ Len(s.todo) = n - 1 /\ s.todo \in Seq(Type)
    BY <1>3, <1>6, <1>7
  <2>2. m \in Nat /\ n \in Nat /\ m + n = (m + 1) + (n - 1)
    OBVIOUS
  <2> QED BY ONLY <1>8, <2>1, <2>2, SMTT(90)
<1>12. \A i \in 1..Len(s.todo) : s.todo[i] = p[Len(l) + i]
  <2> SUFFICES ASSUME NEW i \in 1..(n - 1) PROVE s.todo[i] = p[(m + 1) + i]
    BY <1>7, <1>8
  <2>1. i + 1 \in 1..n /\ m + (i + 1) = (m + 1) + i
    BY SMTT(90)
  <2> QED BY <1>3, <1>6, <1>7, <2>1
<1>13. OnPlan(s, l)
  <2>1. p = Resolve(plan[s.dep])
    BY <1>3
  <2>2. \A i \in DOMAIN l : l[i].dep = s.dep
    BY <1>8, <1>10
  <2> QED BY <1>5, <1>10, <1>11, <1>12, <2>1, <2>2 DEF OnPlan
<1> QED BY <1>1, <1>13

\* A step is over.
LEMMA StepAlone ==
  ASSUME ReturnInv, AloneInv, NEW c \in Call, StepDone(c)
  PROVE  AloneInv'
<1>1. PICK r, e : r = call[c] /\ e = [dep |-> r.dep, type |-> Head(r.todo), success |-> r.ok]
  OBVIOUS
<1>2. PICK l, s : l = Append(log, e) /\ s = Advanced(r)
  OBVIOUS
<1>3. r.at = "step" /\ Continue(c, s, l, current) /\ UNCHANGED given /\ alone' = alone
  BY <1>1, <1>2 DEF StepDone
<1>4. Shaped(r) /\ Has(r) /\ r.todo # <<>> /\ r.at \notin CallOver
  BY <1>1, <1>3 DEF ReturnInv, CallInv, AtTarget, CallOver
<1>5. Shaped(s) /\ s.dep = r.dep /\ s.todo = Tail(r.todo)
  BY <1>2, <1>4, AdvancedHas
<1>6. ASSUME c \in alone PROVE OnPlan(s, l) /\ \A o \in Call : o # c => call[o].at \in CallOver
  <2>1. /\ c \in alone /\ r = call[c] /\ r.at \notin CallOver /\ r.at # "gate"
        /\ e.dep = r.dep /\ e.type = Head(r.todo) /\ l = Append(log, e)
        /\ s.dep = r.dep /\ s.todo = Tail(r.todo)
    BY <1>1, <1>2, <1>3, <1>4, <1>5, <1>6
  <2> QED BY ONLY AloneInv, <2>1, StepOnPlan, ZenonT(90)
<1>7. alone \subseteq Call /\ \A x \in alone : x # c => call[x].at \in CallOver
  BY <1>1, <1>4 DEF AloneInv
<1>8. /\ alone' \subseteq Call /\ \A x \in alone' : x # c => call[x].at \in CallOver
      /\ c \in alone' => OnPlan(s, l) /\ \A o \in Call : o # c => call[o].at \in CallOver
  BY <1>3, <1>6, <1>7
<1> QED BY ONLY ReturnInv, AloneInv, c \in Call, <1>3, <1>5, <1>8, LoopAlone

\* A call that stays at its target, or is over.
LEMMA StaysAt ==
  ASSUME NEW r, Shaped(r), NEW s
  PROVE  /\ \A at \in {"get", "check"} : s = Awaits(r, at) /\ r.at # "gate" => SameTarget(r, s)
         /\ \A ok : s = Answers(r, ok) /\ r.at # "gate" => SameTarget(r, s)
         /\ \A left : s = [Awaits(r, "check") EXCEPT !.left = left] /\ r.at # "gate" => SameTarget(r, s)
         /\ s = NextFlag(r) => SameTarget(r, s)
         /\ \A at \in {"thrown", "returned"} : \A wait : s = Ended([r EXCEPT !.wait = wait], at) => SameTarget(r, s)
         /\ \A wait : s = [r EXCEPT !.wait = wait] => SameTarget(r, s)
<1>1. ASSUME NEW at \in {"get", "check"}, s = Awaits(r, at), r.at # "gate" PROVE SameTarget(r, s)
  BY <1>1 DEF Awaits, Shaped, Fields, SameTarget
<1>2. ASSUME NEW ok, s = Answers(r, ok), r.at # "gate" PROVE SameTarget(r, s)
  BY <1>2 DEF Answers, Shaped, Fields, SameTarget
<1>3. ASSUME NEW left, s = [Awaits(r, "check") EXCEPT !.left = left], r.at # "gate" PROVE SameTarget(r, s)
  BY <1>3 DEF Awaits, Shaped, Fields, SameTarget
<1>4. ASSUME s = NextFlag(r) PROVE SameTarget(r, s)
  BY <1>4 DEF NextFlag, Shaped, Fields, SameTarget
<1>5. ASSUME NEW at \in {"thrown", "returned"}, NEW wait, s = Ended([r EXCEPT !.wait = wait], at)
      PROVE  SameTarget(r, s)
  BY <1>5 DEF Ended, Shaped, Fields, SameTarget, CallOver
<1>6. ASSUME NEW wait, s = [r EXCEPT !.wait = wait] PROVE SameTarget(r, s)
  BY <1>6 DEF Shaped, Fields, SameTarget
<1> QED BY <1>1, <1>2, <1>3, <1>4, <1>5, <1>6

\* The handlers and the gate go on with the target at hand.
LEMMA HandlerAlone ==
  ASSUME ReturnInv, AloneInv, NEW c \in Call,
         \/ PutConfig(c) \/ GetConfig(c) \/ UpdateFlag(c) \/ CheckFlag(c) \/ GateConfig(c) \/ GateFlag(c)
  PROVE  AloneInv'
<1>1. PICK r : r = call[c]
  OBVIOUS
<1>2. Shaped(r)
  BY <1>1 DEF ReturnInv, CallInv
<1>3. r.at \in {"put", "get", "update", "check", "gate"} /\ r.at \notin CallOver
  BY <1>1 DEF PutConfig, GetConfig, UpdateFlag, CheckFlag, GateConfig, GateFlag, Gating, CallOver
<1>4. \E s : Becomes(c, s) /\ SameTarget(r, s)
  <2>1. CASE PutConfig(c)
    <3>1. r.at # "gate" /\ \E s : Becomes(c, s) /\ (s = Awaits(r, "get") \/ s = Answers(r, FALSE))
      BY <1>1, <2>1 DEF PutConfig
    <3> QED BY <1>2, <3>1, StaysAt
  <2>2. CASE GetConfig(c)
    <3>1. r.at # "gate" /\ \E ok : Becomes(c, Answers(r, ok))
      BY <1>1, <2>2 DEF GetConfig
    <3> QED BY <1>2, <3>1, StaysAt
  <2>3. CASE UpdateFlag(c)
    <3>1. r.at # "gate" /\ \E s : Becomes(c, s) /\ (s = FlagsUpdated(r) \/ s = Answers(r, FALSE))
      BY <1>1, <2>3 DEF UpdateFlag
    <3>2. \E s : Becomes(c, s) /\ (s = NextFlag(r) \/ s = Answers(r, FALSE)
                                   \/ s = [Awaits(r, "check") EXCEPT !.left = Flags[r.on]])
      BY <3>1 DEF FlagsUpdated
    <3> QED BY <1>2, <3>1, <3>2, StaysAt
  <2>4. CASE CheckFlag(c)
    <3>1. r.at # "gate" /\ \E s : Becomes(c, s) /\ (s = NextFlag(r) \/ \E ok : s = Answers(r, ok))
      BY <1>1, <2>4 DEF CheckFlag
    <3> QED BY <1>2, <3>1, StaysAt
  <2>5. ASSUME NEW check, NEW ok, Gate(c, check, ok) PROVE \E s : Becomes(c, s) /\ SameTarget(r, s)
    <3>1. PICK wait : wait = r.wait \ {check}
      OBVIOUS
    <3>2. \E s : Becomes(c, s) /\ \/ \E at \in {"thrown", "returned"} : s = Ended([r EXCEPT !.wait = wait], at)
                                  \/ s = [r EXCEPT !.wait = wait]
      BY <1>1, <2>5, <3>1 DEF Gate
    <3> QED BY <1>2, <3>2, StaysAt
  <2>6. CASE GateConfig(c)
    <3>1. \E ok : Gate(c, "config", ok)
      BY <2>6 DEF GateConfig
    <3> QED BY <2>5, <3>1
  <2>7. CASE GateFlag(c)
    <3>1. Becomes(c, NextFlag(r)) \/ \E ok : Gate(c, "flags", ok)
      BY <1>1, <2>7 DEF GateFlag
    <3> QED BY <1>2, <2>5, <3>1, StaysAt
  <2> QED BY <2>1, <2>2, <2>3, <2>4, <2>6, <2>7
<1>5. PICK s : Becomes(c, s) /\ SameTarget(r, s)
  BY <1>4
<1>6. UNCHANGED given /\ log' = log /\ alone' = alone /\ call' = [call EXCEPT ![c] = s]
  BY <1>5 DEF Becomes
<1> QED BY <1>1, <1>3, <1>5, <1>6, AloneGoes

\* Nothing runs at first.
LEMMA AloneInvInit == RollbackInit => AloneInv
<1> SUFFICES ASSUME RollbackInit PROVE AloneInv
  OBVIOUS
<1>1. plan \in [Deployment -> Seq(PlanTarget)]
  BY ReturnInvInit DEF ReturnInv
<1>2. alone = {}
  BY DEF RollbackInit
<1> QED BY <1>1, <1>2 DEF AloneInv

\* Every step.
LEMMA AloneInvNext == ReturnInv /\ AloneInv /\ [RollbackNext]_rollbackVars => AloneInv'
<1> SUFFICES ASSUME ReturnInv, AloneInv, [RollbackNext]_rollbackVars PROVE AloneInv'
  OBVIOUS
<1>1. ASSUME NEW c \in Call, NEW d \in Deployment, StartRollback(c, d) PROVE AloneInv'
  BY <1>1, StartAlone
<1>2. ASSUME NEW c \in Call, Step(c) PROVE AloneInv'
  BY <1>2, StepAlone, HandlerAlone DEF Step
<1>3. CASE UNCHANGED rollbackVars
  <2>1. plan' = plan /\ log' = log /\ call' = call /\ alone' = alone
    BY <1>3 DEF rollbackVars, given
  <2> QED BY <2>1 DEF AloneInv, OnPlan
<1> QED BY <1>1, <1>2, <1>3 DEF RollbackNext

\* The order of the log is that of the plan.
LEMMA AloneOrdered == ReturnInv /\ AloneInv => DependenciesFirst
<1> SUFFICES ASSUME ReturnInv, AloneInv, NEW c \in alone, Running(c), NEW i \in DOMAIN log,
                    NEW ts, ts = plan[log[i].dep], NEW t \in Needs(ts, log[i].type) \cap {ts[k].type : k \in DOMAIN ts}
             PROVE  \E j \in 1..(i - 1) : log[j].type = t
  BY DEF DependenciesFirst
<1>1. PICK r : r = call[c]
  OBVIOUS
<1>2. r.at \notin CallOver
  BY <1>1 DEF Running, CallOver
<1>3. OnPlan(r, log) /\ c \in Call
  BY <1>1, <1>2, SMTT(90) DEF AloneInv
<1>4. PICK p \in Seq(Type) :
          /\ p = Resolve(plan[r.dep])
          /\ r.todo \in Seq(Type) /\ Len(p) = Len(log) + Len(r.todo)
          /\ \A k \in 1..Len(log) : log[k].type = p[k]
  BY <1>3 DEF OnPlan
<1>5. PICK S : log \in Seq(S)
  BY <1>3 DEF OnPlan
<1>6. Len(log) \in Nat /\ DOMAIN log = 1..Len(log) /\ Len(r.todo) \in Nat /\ DOMAIN p = 1..Len(p)
  BY <1>4, <1>5
<1>7. r.dep \in Deployment
  BY <1>1, <1>2, <1>3 DEF ReturnInv, CallInv, Has, CallOver
<1>8. log[i].dep = r.dep /\ log[i].type = p[i] /\ i \in DOMAIN p
  BY <1>3, <1>4, <1>6 DEF OnPlan
<1>9. ts \in Seq(PlanTarget) /\ p = Resolve(ts)
  BY <1>4, <1>7, <1>8 DEF AloneInv
<1>10. Ordered(ts, p)
  BY <1>9, ResolveGives
<1>11. PICK j \in 1..(i - 1) : p[j] = t
  BY <1>8, <1>10 DEF Ordered
<1>12. j \in 1..Len(log)
  BY <1>6
<1> QED BY <1>4, <1>11, <1>12

(* While a call runs alone, the targets a target depends on are put back before *)
(* it (rollback-executor.ts:81-121, 354-360), for any deployments, recorded      *)
(* targets, dependencies and calls.                                              *)
THEOREM NeedsFirst == RollbackSpec => []DependenciesFirst
<1>1. ReturnInv /\ AloneInv /\ [RollbackNext]_rollbackVars => ReturnInv' /\ AloneInv'
  BY ReturnInvNext, AloneInvNext
<1> QED BY <1>1, ReturnInvInit, AloneInvInit, AloneOrdered, PTL DEF RollbackSpec
-----------------------------------------------------------------------------
(* What a call that no other has overlapped has put back.                  *)

Back(d, t) == t \in Type /\ Restored(d, t, reverted, store, flag)

\* A step that is done and has not failed has put its target back; a handler is called for
\* the deployment of the call, and of its flags those not still to be read back hold.
AtHand(r) ==
  /\ r.at = "step" /\ r.ok # FALSE => Back(r.dep, Head(r.todo))
  /\ r.at \in {"put", "get"} => Head(r.todo) = "config" /\ r.on = r.dep
  /\ r.at \in {"update", "check"} => Head(r.todo) = "feature_flag" /\ r.on = r.dep
  /\ r.at = "check" => /\ r.left \in Seq(ToSet(Flags[r.dep])) /\ r.left # <<>>
                       /\ \A f \in ToSet(Flags[r.dep]) : flag[f.name] = f.value \/ f \in ToSet(r.left)

\* Without a failure, what is in the log is put back, and in the end what can be reached.
LogBack(r, l) == FALSE \notin r.oks => \A i \in DOMAIN l : Back(r.dep, l[i].type)
AllBack(r) == FALSE \notin r.oks => \A t \in Reachable(plan[r.dep]) : Back(r.dep, t)

AloneCallInv(r) ==
  /\ r.at \notin CallOver => current = r.dep /\ LogBack(r, log)
  /\ r.at = "gate" => r.todo = <<>>
  /\ r.at = "returned" => AllBack(r)
  /\ AtHand(r)

BackInv ==
  /\ \A d \in Deployment : TypesOnce(plan[d])
  /\ \A c \in alone : /\ \A o \in Call : o # c => call[o].at \in CallOver
                      /\ \A r : r = call[c] => AloneCallInv(r)

\* When no target is left, those that can be reached are in the log.
LEMMA AllReached ==
  ASSUME AloneInv, BackInv, NEW r, r.dep \in Deployment, r.todo = <<>>, NEW l, OnPlan(r, l), LogBack(r, l)
  PROVE  AllBack(r)
<1>1. PICK ts, p : ts = plan[r.dep] /\ p = Resolve(ts)
  OBVIOUS
<1>2. ts \in Seq(PlanTarget) /\ TypesOnce(ts)
  BY <1>1 DEF AloneInv, BackInv
<1>3. p \in Seq(Type) /\ Reachable(ts) \subseteq ToSet(p)
  BY <1>1, <1>2, ResolveGives
<1>4. PICK S : l \in Seq(S)
  BY DEF OnPlan
<1>5. Len(p) = Len(l) + Len(r.todo) /\ \A i \in 1..Len(l) : l[i].type = p[i]
  BY <1>1 DEF OnPlan
<1>6. Len(r.todo) = 0 /\ Len(l) \in Nat /\ DOMAIN l = 1..Len(l) /\ DOMAIN p = 1..Len(p)
  BY <1>3, <1>4
<1>7. ASSUME NEW t \in Reachable(ts) PROVE \E i \in DOMAIN l : l[i].type = t
  <2>1. PICK i \in DOMAIN p : p[i] = t
    BY <1>3 DEF ToSet
  <2>2. i \in 1..Len(l)
    BY ONLY <1>5, <1>6, <2>1
  <2> QED BY <1>5, <1>6, <2>1, <2>2
<1> QED BY <1>1, <1>7 DEF LogBack, AllBack

\* What is put back stays so when flags of the same deployment are updated.
LEMMA BackStays ==
  ASSUME ReturnInv, NEW d \in Deployment, NEW g \in ToSet(Flags[d]), reverted \subseteq reverted', store' = store,
         flag' = flag \/ flag' = [flag EXCEPT ![g.name] = g.value]
  PROVE  \A t : Back(d, t) => Back(d, t)'
<1>1. PICK F : flag \in [DOMAIN Deployed -> F]
  BY DEF ReturnInv
<1>2. ASSUME NEW f \in ToSet(Flags[d]), flag[f.name] = f.value PROVE flag'[f.name] = f.value
  <2>1. f.name \in DOMAIN Deployed /\ g.name \in DOMAIN Deployed /\ (f.name = g.name => f = g)
    BY FlagsAre
  <2>2. CASE flag' = flag
    BY <1>2, <2>2
  <2>3. CASE flag' = [flag EXCEPT ![g.name] = g.value]
    BY <1>1, <1>2, <2>1, <2>3
  <2> QED BY <2>2, <2>3
<1> QED BY <1>2 DEF Back, Restored

\* And when no flag is.
LEMMA BackKept ==
  ASSUME reverted \subseteq reverted', store' = store, flag' = flag
  PROVE  \A d, t : Back(d, t) => Back(d, t)'
  BY DEF Back, Restored

\* The loop over the targets goes on with a call that is alone.
LEMMA LoopBack ==
  ASSUME ReturnInv, AloneInv, BackInv, NEW c \in Call, NEW r, Shaped(r), Has(r), NEW l,
         Continue(c, r, l, r.dep), current' = r.dep, UNCHANGED <<given, flag>>, OnPlan(r, l), LogBack(r, l),
         NEW s, s = call'[c]
  PROVE  AloneCallInv(s)'
<1>1. /\ call' = [call EXCEPT ![c] = IF r.todo = <<>> THEN Concluded(r, l) ELSE Dispatched(r, r.dep)]
      /\ log' = l /\ reverted' = reverted
  BY DEF Continue
<1>0. /\ r.todo # <<>> /\ Head(r.todo) \in Local /\ Goal(r) \in versions =>
           store'[Stores[r.dep][Head(r.todo)].name] = Stores[r.dep][Head(r.todo)].value
      /\ \A t \in Local : store[Stores[r.dep][t].name] = Stores[r.dep][t].value
                          => store'[Stores[r.dep][t].name] = Stores[r.dep][t].value
      /\ r.dep \in Deployment
  <2>1. UNCHANGED given /\ r.dep \in Deployment
    BY DEF Has
  <2> QED BY ONLY ReturnInv, Has(r), Continue(c, r, l, r.dep), <2>1, StorePut
<1>2. PICK R : call \in [Call -> R]
  BY DEF ReturnInv
<1>3. s = IF r.todo = <<>> THEN Concluded(r, l) ELSE Dispatched(r, r.dep)
  BY <1>1, <1>2
<1>4. flag' = flag /\ plan' = plan
  BY DEF given
<1>5. \A t : Back(r.dep, t) => Back(r.dep, t)'
  <2> SUFFICES ASSUME NEW t, Back(r.dep, t) PROVE Back(r.dep, t)'
    OBVIOUS
  <2>1. t = "feature_flag" \/ t = "config" \/ t \in Local
    BY DEF Back, Type, Expected, Local, ToSet
  <2>2. CASE t = "feature_flag" \/ t = "config"
    BY <1>1, <1>4, <2>2 DEF Back, Restored
  <2>3. CASE t \in Local
    <3>1. t # "feature_flag" /\ t # "config"
      BY <2>3 DEF Local
    <3> QED BY <1>0, <2>3, <3>1 DEF Back, Restored
  <2> QED BY <2>1, <2>2, <2>3
<1>6. ASSUME s.dep = r.dep, s.oks = r.oks PROVE LogBack(s, log)'
  BY <1>1, <1>5, <1>6 DEF LogBack
<1>7. CASE r.todo = <<>>
  <2>1. s = Concluded(r, l)
    BY <1>3, <1>7
  <2>2. s.dep = r.dep /\ s.todo = r.todo /\ s.oks = r.oks /\ s.at \in {"thrown", "returned", "gate"}
    BY ONLY Shaped(r), <2>1, ConcludedGives
  <2>3. AllBack(r)
    BY <1>0, <1>7, AllReached
  <2>4. AllBack(s)'
    BY <1>4, <1>5, <2>2, <2>3 DEF AllBack
  <2>5. AtHand(s)'
    BY <2>2 DEF AtHand
  <2> QED BY <1>6, <1>7, <2>2, <2>4, <2>5 DEF AloneCallInv
<1>8. CASE r.todo # <<>>
  <2>1. s = Dispatched(r, r.dep) /\ captures \subseteq Deployment
    BY <1>3, <1>8 DEF ReturnInv
  <2>2. DispatchedTo(s, r, r.dep)
    BY ONLY Shaped(r), <2>1, DispatchedGives
  <2>3. Head(r.todo) \in Local \cup {"config", "feature_flag"}
    <3>1. Type \subseteq Local \cup {"config", "feature_flag"}
      BY DEF Type, Expected, Local, ToSet
    <3>2. r.todo \in Seq(Type)
      BY DEF OnPlan
    <3> QED BY <1>8, <3>1, <3>2
  <2>4. ASSUME s.at = "step", s.ok # FALSE PROVE Back(r.dep, Head(r.todo))'
    <3>1. /\ Head(r.todo) \in Local
          /\ store'[Stores[r.dep][Head(r.todo)].name] = Stores[r.dep][Head(r.todo)].value
      BY <1>0, <1>8, <2>2, <2>4 DEF DispatchedTo
    <3>2. Head(r.todo) # "feature_flag" /\ Head(r.todo) # "config" /\ Head(r.todo) \in Type
      BY <3>1 DEF Local, Type, Expected, ToSet
    <3> QED BY <3>1, <3>2 DEF Back, Restored
  <2>5. /\ s.dep = r.dep /\ s.todo = r.todo /\ s.oks = r.oks /\ s.at \in {"step", "put", "update"}
        /\ s.at = "put" => Head(r.todo) = "config" /\ s.on = r.dep
        /\ s.at = "update" => Head(r.todo) = "feature_flag" /\ s.on = r.dep
    BY <2>2, <2>3 DEF DispatchedTo
  <2>6. AtHand(s)'
    BY <2>4, <2>5 DEF AtHand
  <2> QED BY <1>6, <2>5, <2>6 DEF AloneCallInv, CallOver
<1> QED BY <1>7, <1>8

\* A call alone goes on, or another does, which is then the only one that runs.
LEMMA CallBack ==
  ASSUME ReturnInv, BackInv, UNCHANGED given, alone' = alone, NEW c \in Call, call[c].at \notin CallOver,
         \E s : call' = [call EXCEPT ![c] = s],
         c \in alone => \A s : s = call'[c] => AloneCallInv(s)'
  PROVE  BackInv'
<1>1. PICK R, s : call \in [Call -> R] /\ call' = [call EXCEPT ![c] = s]
  BY DEF ReturnInv
<1>2. \A o \in Call : o # c => call'[o] = call[o]
  BY <1>1
<1>3. plan' = plan
  BY DEF given
<1>4. \A x \in alone : x = c
  BY DEF BackInv
<1>5. ASSUME NEW x \in alone
      PROVE  /\ \A o \in Call : o # x => call'[o].at \in CallOver
             /\ \A r : r = call'[x] => AloneCallInv(r)'
  <2>1. x = c /\ c \in alone
    BY <1>4, <1>5
  <2>2. \A o \in Call : o # c => call'[o].at \in CallOver
    BY <1>2, <2>1 DEF BackInv
  <2> QED BY <2>1, <2>2
<1>6. \A d \in Deployment : TypesOnce(plan[d])
  BY DEF BackInv
<1> QED BY <1>3, <1>5, <1>6 DEF BackInv

\* A rollback is started.
LEMMA StartBack ==
  ASSUME ReturnInv, AloneInv, BackInv, NEW c \in Call, NEW d \in Deployment, StartRollback(c, d)
  PROVE  BackInv'
<1>1. PICK r : r = Given(d)
  OBVIOUS
<1>2. Continue(c, r, <<>>, d) /\ UNCHANGED <<given, flag>> /\ current' = d
  BY <1>1 DEF StartRollback, Given
<1>3. Shaped(r) /\ r.dep = d /\ r.todo = Resolve(plan[d]) /\ Has(r)
  BY <1>1, StartHas
<1>4. alone' = {} \/ (alone' = {c} /\ \A o \in Call : call[o].at \in CallOver)
  BY DEF StartRollback, Running, CallOver
<1>5. PICK l : l = <<>> /\ OnPlan(r, l)
  BY <1>3, StartOnPlan
<1>6. LogBack(r, l)
  BY <1>5 DEF LogBack
<1>7. ASSUME NEW s, s = call'[c] PROVE AloneCallInv(s)'
  <2>1. Continue(c, r, l, r.dep) /\ current' = r.dep /\ r.dep \in Deployment
    BY <1>2, <1>3, <1>5
  <2> QED BY ONLY ReturnInv, AloneInv, BackInv, c \in Call, <1>2, <1>3, <1>5, <1>6, <1>7, <2>1,
             LoopBack
<1>8. PICK R : call \in [Call -> R]
  BY DEF ReturnInv
<1>9. \A o \in Call : o # c => call'[o] = call[o]
  BY <1>2, <1>8 DEF Continue
<1>10. ASSUME NEW x \in alone'
       PROVE  /\ \A o \in Call : o # x => call'[o].at \in CallOver
              /\ \A s : s = call'[x] => AloneCallInv(s)'
  <2>1. x = c /\ \A o \in Call : call[o].at \in CallOver
    BY <1>4, <1>10
  <2>2. \A o \in Call : o # c => call'[o].at \in CallOver
    BY <1>9, <2>1
  <2> QED BY <1>7, <2>1, <2>2
<1>11. plan' = plan /\ \A x \in Deployment : TypesOnce(plan[x])
  BY <1>2 DEF given, BackInv
<1> QED BY <1>10, <1>11 DEF BackInv

\* A step is over.
LEMMA StepBack ==
  ASSUME ReturnInv, AloneInv, BackInv, NEW c \in Call, StepDone(c)
  PROVE  BackInv'
<1>1. PICK r, e : r = call[c] /\ e = [dep |-> r.dep, type |-> Head(r.todo), success |-> r.ok]
  OBVIOUS
<1>2. PICK l, s : l = Append(log, e) /\ s = Advanced(r)
  OBVIOUS
<1>3. /\ r.at = "step" /\ Continue(c, s, l, current) /\ UNCHANGED <<given, flag>> /\ alone' = alone
      /\ current' = current
  BY <1>1, <1>2 DEF StepDone
<1>4. Shaped(r) /\ Has(r) /\ r.todo # <<>> /\ r.at \notin CallOver
  BY <1>1, <1>3 DEF ReturnInv, CallInv, AtTarget, CallOver
<1>5. Shaped(s) /\ s.dep = r.dep /\ s.todo = Tail(r.todo) /\ s.oks = r.oks \cup {r.ok} /\ Has(s)
  BY <1>2, <1>4, AdvancedHas
<1>6. ASSUME c \in alone, NEW q, q = call'[c] PROVE AloneCallInv(q)'
  <2>1. AloneCallInv(r)
    BY <1>1, <1>6 DEF BackInv
  <2>2. current = r.dep /\ LogBack(r, log) /\ (r.ok # FALSE => Back(r.dep, Head(r.todo)))
    BY <1>3, <1>4, <2>1 DEF AloneCallInv, AtHand
  <2>3. /\ c \in alone /\ r = call[c] /\ r.at \notin CallOver /\ r.at # "gate"
        /\ e.dep = r.dep /\ e.type = Head(r.todo) /\ l = Append(log, e)
        /\ s.dep = r.dep /\ s.todo = Tail(r.todo)
    BY <1>1, <1>2, <1>3, <1>4, <1>5, <1>6
  <2>4. OnPlan(s, l)
    BY ONLY AloneInv, <2>3, StepOnPlan
  <2>5. LogBack(s, l)
    <3>1. PICK S : log \in Seq(S)
      BY DEF ReturnInv, LogTrue
    <3>2. log \in Seq(S \cup {e}) /\ e \in S \cup {e}
      BY <3>1
    <3>3. /\ DOMAIN l = DOMAIN log \cup {Len(log) + 1}
          /\ l[Len(log) + 1] = e /\ \A i \in DOMAIN log : l[i] = log[i]
      BY ONLY <1>2, <3>2, Longer
    <3>4. \A i \in DOMAIN log : FALSE \notin r.oks => Back(r.dep, log[i].type)
      BY <2>2 DEF LogBack
    <3>5. FALSE \notin s.oks => FALSE \notin r.oks /\ r.ok # FALSE
      BY <1>5
    <3>6. FALSE \notin s.oks => Back(s.dep, e.type)
      BY <2>2, <2>3, <3>5
    <3>7. FALSE \notin s.oks => \A i \in DOMAIN log : Back(s.dep, log[i].type)
      BY <2>3, <3>4, <3>5
    <3> QED BY ONLY <3>3, <3>6, <3>7 DEF LogBack
  <2>6. Continue(c, s, l, s.dep) /\ current' = s.dep
    BY <1>3, <1>4, <1>5, <2>2
  <2> QED BY ONLY ReturnInv, AloneInv, BackInv, c \in Call, <1>3, <1>5, <1>6, <2>4, <2>5, <2>6,
             LoopBack
<1>7. \E x : call' = [call EXCEPT ![c] = x]
  BY <1>3 DEF Continue
<1>8. UNCHANGED given /\ call[c].at \notin CallOver
  BY <1>1, <1>3, <1>4
<1> QED BY <1>3, <1>6, <1>7, <1>8, CallBack

\* A call alone that stays at its target, or is over.
LEMMA StaysBack ==
  ASSUME ReturnInv, AloneInv, BackInv, NEW c \in alone, NEW r, r = call[c], r.at \notin CallOver, NEW s, SameTarget(r, s),
         Becomes(c, s), reverted \subseteq reverted',
         \A t : Back(r.dep, t) => Back(r.dep, t)', AtHand(s)', s.at = "returned" => r.at = "gate"
  PROVE  \A q : q = call'[c] => AloneCallInv(q)'
<1>1. AloneCallInv(r) /\ c \in Call /\ OnPlan(r, log)
  BY DEF BackInv, AloneInv
<1>2. current' = current /\ log' = log /\ plan' = plan
  BY DEF Becomes, given
<1>3. s.dep = r.dep /\ s.todo = r.todo /\ s.oks = r.oks /\ (s.at = "gate" => r.at = "gate")
  BY DEF SameTarget, CallOver
<1>4. current = r.dep /\ LogBack(r, log) /\ (r.at = "gate" => r.todo = <<>>)
  BY <1>1 DEF AloneCallInv
<1>5. LogBack(s, log)'
  BY <1>2, <1>3, <1>4 DEF LogBack
<1>6. ASSUME s.at = "returned" PROVE AllBack(s)'
  <2>1. r.todo = <<>> /\ r.dep \in Deployment
    <3>1. r.at = "gate" /\ CallInv(r)
      BY <1>1, <1>6 DEF ReturnInv
    <3> QED BY <1>4, <3>1 DEF CallInv, Has
  <2>2. AllBack(r)
    BY <1>1, <1>4, <2>1, AllReached
  <2> QED BY <1>2, <1>3, <2>2 DEF AllBack
<1>7. AloneCallInv(s)'
  BY <1>2, <1>3, <1>4, <1>5, <1>6 DEF AloneCallInv
<1>8. PICK R : call \in [Call -> R]
  BY DEF ReturnInv
<1>9. call'[c] = s
  BY <1>1, <1>8 DEF Becomes
<1> QED BY <1>7, <1>9

\* The target at hand of a call that stays at it.
LEMMA HandGoes ==
  ASSUME NEW r, Shaped(r), NEW s
  PROVE  /\ \A at : s = Awaits(r, at) => s.at = at /\ s.dep = r.dep /\ s.todo = r.todo /\ s.on = r.on
         /\ \A ok : s = Answers(r, ok) => s.at = "step" /\ s.ok = ok /\ s.dep = r.dep /\ s.todo = r.todo
         /\ \A left : s = [Awaits(r, "check") EXCEPT !.left = left] =>
              s.at = "check" /\ s.left = left /\ s.dep = r.dep /\ s.todo = r.todo /\ s.on = r.on
         /\ s = NextFlag(r) => /\ s.at = r.at /\ s.left = Tail(r.left)
                               /\ s.dep = r.dep /\ s.todo = r.todo /\ s.on = r.on
<1>1. ASSUME NEW at, s = Awaits(r, at) PROVE s.at = at /\ s.dep = r.dep /\ s.todo = r.todo /\ s.on = r.on
  BY <1>1 DEF Awaits, Shaped, Fields
<1>2. ASSUME NEW ok, s = Answers(r, ok) PROVE s.at = "step" /\ s.ok = ok /\ s.dep = r.dep /\ s.todo = r.todo
  BY <1>2 DEF Answers, Shaped, Fields
<1>3. ASSUME NEW left, s = [Awaits(r, "check") EXCEPT !.left = left]
      PROVE  s.at = "check" /\ s.left = left /\ s.dep = r.dep /\ s.todo = r.todo /\ s.on = r.on
  BY <1>3 DEF Awaits, Shaped, Fields
<1>4. ASSUME s = NextFlag(r)
      PROVE  s.at = r.at /\ s.left = Tail(r.left) /\ s.dep = r.dep /\ s.todo = r.todo /\ s.on = r.on
  BY <1>4 DEF NextFlag, Shaped, Fields
<1> QED BY <1>1, <1>2, <1>3, <1>4

\* The configuration is put and read back.
LEMMA ConfigBack ==
  ASSUME ReturnInv, AloneInv, BackInv, NEW c \in alone, PutConfig(c) \/ GetConfig(c)
  PROVE  \A q : q = call'[c] => AloneCallInv(q)'
<1>1. PICK r : r = call[c]
  OBVIOUS
<1>2. PICK b \in BOOLEAN : b <=> r.on \in reverted
  OBVIOUS
<1>3. /\ reverted \subseteq reverted' /\ flag' = flag /\ r.at \in {"put", "get"}
      /\ \E s : Becomes(c, s) /\ \/ s = Awaits(r, "get")
                                 \/ \E ok \in {FALSE, b} : s = Answers(r, ok)
  <2>1. CASE PutConfig(c)
    BY <1>1, <2>1 DEF PutConfig
  <2>2. CASE GetConfig(c)
    <3>1. b = (r.on \in reverted)
      BY <1>2, Zenon
    <3>2. r.at = "get" /\ UNCHANGED <<reverted, flag>> /\ \E ok \in {FALSE, b} : Becomes(c, Answers(r, ok))
      BY <1>1, <2>2, <3>1, Zenon DEF GetConfig
    <3> QED BY <3>2
  <2> QED BY <2>1, <2>2
<1>4. Shaped(r) /\ c \in Call /\ AloneCallInv(r)
  BY <1>1 DEF ReturnInv, CallInv, AloneInv, BackInv
<1>5. PICK s : Becomes(c, s) /\ \/ s = Awaits(r, "get")
                                \/ \E ok \in {FALSE, b} : s = Answers(r, ok)
  BY <1>3
<1>6. Head(r.todo) = "config" /\ r.on = r.dep /\ r.at \notin CallOver /\ r.at # "gate"
  BY <1>3, <1>4 DEF AloneCallInv, AtHand, CallOver
<1>7. SameTarget(r, s) /\ s.at # "returned"
  <2>1. SameTarget(r, s)
    BY <1>4, <1>5, <1>6, StaysAt
  <2>2. s.at \in {"get", "step"}
    BY <1>4, <1>5 DEF Awaits, Answers, Shaped, Fields
  <2> QED BY <2>1, <2>2
<1>8. AtHand(s)'
  <2>1. CASE s = Awaits(r, "get")
    <3>1. s.at = "get" /\ s.dep = r.dep /\ s.todo = r.todo /\ s.on = r.on
      BY <1>4, <2>1, HandGoes
    <3> QED BY <1>6, <3>1 DEF AtHand
  <2>2. ASSUME NEW ok \in {FALSE, b}, s = Answers(r, ok) PROVE AtHand(s)'
    <3>1. s.at = "step" /\ s.ok = ok /\ s.dep = r.dep /\ s.todo = r.todo
      BY <1>4, <2>2, HandGoes
    <3>2. s.ok # FALSE => r.dep \in reverted'
      BY <1>2, <1>3, <1>6, <2>2, <3>1
    <3>3. "config" \in Type
      BY DEF Type, Expected, ToSet
    <3> QED BY <1>6, <3>1, <3>2, <3>3 DEF AtHand, Back, Restored
  <2> QED BY <1>5, <2>1, <2>2
<1>9. \A t : Back(r.dep, t) => Back(r.dep, t)'
  BY <1>3, <1>5, BackKept DEF Becomes
<1> QED BY ONLY ReturnInv, AloneInv, BackInv, c \in alone, <1>1, <1>3, <1>5, <1>6, <1>7, <1>8,
           <1>9, StaysBack, SMTT(90)

\* A flag is updated.
LEMMA UpdateBack ==
  ASSUME ReturnInv, AloneInv, BackInv, NEW c \in alone, UpdateFlag(c)
  PROVE  \A q : q = call'[c] => AloneCallInv(q)'
<1>1. PICK r, g : r = call[c] /\ g = Head(r.left)
  BY SMTT(90)
<1>2. /\ reverted' = reverted /\ r.at = "update"
      /\ flag' = flag \/ flag' = [flag EXCEPT ![g.name] = g.value]
      /\ \E s : Becomes(c, s) /\ (s = FlagsUpdated(r) \/ s = Answers(r, FALSE))
  BY <1>1 DEF UpdateFlag
<1>3. c \in Call /\ AloneCallInv(r) /\ CallInv(r)
  BY <1>1 DEF AloneInv, BackInv, ReturnInv
<1>4. Shaped(r) /\ r.on \in Deployment /\ r.left \in Seq(ToSet(Flags[r.on])) /\ r.left # <<>>
  BY <1>2, <1>3 DEF CallInv
<1>5. Head(r.todo) = "feature_flag" /\ r.on = r.dep /\ r.at \notin CallOver /\ r.at # "gate"
  BY <1>2, <1>3 DEF AloneCallInv, AtHand, CallOver
<1>6. PICK s : Becomes(c, s) /\ (s = FlagsUpdated(r) \/ s = Answers(r, FALSE))
  BY <1>2
<1>7. s = NextFlag(r) \/ s = [Awaits(r, "check") EXCEPT !.left = Flags[r.on]] \/ s = Answers(r, FALSE)
  BY <1>6 DEF FlagsUpdated
<1>8. SameTarget(r, s) /\ s.at # "returned"
  <2>1. SameTarget(r, s)
    BY <1>4, <1>5, <1>7, StaysAt
  <2>2. s.at \in {"update", "check", "step"}
    BY <1>2, <1>4, <1>7, ZenonT(90) DEF NextFlag, Awaits, Answers, Shaped, Fields
  <2> QED BY <2>1, <2>2
<1>9. AtHand(s)'
  <2>1. CASE s = NextFlag(r)
    <3>1. s.at = "update" /\ s.dep = r.dep /\ s.todo = r.todo /\ s.on = r.on
      BY <1>2, <1>4, <2>1, HandGoes
    <3> QED BY <1>5, <3>1 DEF AtHand
  <2>2. CASE s = [Awaits(r, "check") EXCEPT !.left = Flags[r.on]]
    <3>1. s.at = "check" /\ s.left = Flags[r.on] /\ s.dep = r.dep /\ s.todo = r.todo /\ s.on = r.on
      BY <1>4, <2>2, HandGoes
    <3>2. s.left = Flags[s.dep] /\ s.dep \in Deployment
      BY <1>4, <1>5, <3>1
    <3>3. s.left \in Seq(ToSet(Flags[s.dep])) /\ s.left # <<>>
      BY <3>2, FlagsAre
    <3> QED BY <1>5, <3>1, <3>2, <3>3 DEF AtHand
  <2>3. CASE s = Answers(r, FALSE)
    <3>1. s.at = "step" /\ s.ok = FALSE
      BY <1>4, <2>3 DEF Answers, Shaped, Fields
    <3> QED BY <3>1 DEF AtHand
  <2> QED BY <1>7, <2>1, <2>2, <2>3
<1>10. g \in ToSet(Flags[r.dep]) /\ r.dep \in Deployment /\ reverted \subseteq reverted'
  BY <1>1, <1>2, <1>4, <1>5
<1>11. \A t : Back(r.dep, t) => Back(r.dep, t)'
  BY <1>2, <1>6, <1>10, BackStays DEF Becomes
<1> QED BY ONLY ReturnInv, AloneInv, BackInv, c \in alone, <1>1, <1>5, <1>6, <1>8, <1>9, <1>10,
           <1>11, StaysBack

\* A flag is read back.
LEMMA CheckBack ==
  ASSUME ReturnInv, AloneInv, BackInv, NEW c \in alone, CheckFlag(c)
  PROVE  \A q : q = call'[c] => AloneCallInv(q)'
<1>0. PICK r : r = call[c]
  OBVIOUS
<1>1. PICK g : r = call[c] /\ g = Head(r.left)
  BY <1>0
<1>2. PICK b \in BOOLEAN : b <=> flag[g.name] = g.value
  OBVIOUS
<1>3. /\ reverted' = reverted /\ flag' = flag /\ r.at = "check"
      /\ \E ok \in {FALSE, b} : Becomes(c, IF ok /\ Len(r.left) > 1 THEN NextFlag(r) ELSE Answers(r, ok))
  <2>1. b = (flag[g.name] = g.value)
    BY <1>2, Zenon
  <2>2. FlagMatches(r) = {FALSE, b}
    BY <1>1, <2>1, Zenon DEF FlagMatches
  <2>3. r.at = "check" /\ \E ok \in FlagMatches(r) : Becomes(c, IF ok /\ Len(r.left) > 1 THEN NextFlag(r) ELSE Answers(r, ok))
    BY <1>1, Zenon DEF CheckFlag
  <2> QED BY <2>2, <2>3 DEF CheckFlag
<1>4. c \in Call /\ AloneCallInv(r) /\ CallInv(r) /\ Shaped(r)
  BY <1>1 DEF AloneInv, BackInv, ReturnInv, CallInv
<1>5. /\ Head(r.todo) = "feature_flag" /\ r.on = r.dep /\ r.at \notin CallOver /\ r.at # "gate"
      /\ r.left \in Seq(ToSet(Flags[r.dep])) /\ r.left # <<>>
      /\ \A f \in ToSet(Flags[r.dep]) : flag[f.name] = f.value \/ f \in ToSet(r.left)
  BY <1>3, <1>4 DEF AloneCallInv, AtHand, CallOver
<1>6. PICK s : /\ Becomes(c, s)
               /\ \/ b /\ Len(r.left) > 1 /\ s = NextFlag(r)
                  \/ s = Answers(r, FALSE)
                  \/ b /\ ~ (Len(r.left) > 1) /\ s = Answers(r, TRUE)
  <2>1. PICK ok \in {FALSE, b} : Becomes(c, IF ok /\ Len(r.left) > 1 THEN NextFlag(r) ELSE Answers(r, ok))
    BY <1>3
  <2>2. CASE ok = FALSE
    BY <2>1, <2>2
  <2>3. CASE ok = TRUE /\ b = TRUE
    BY <2>1, <2>3
  <2> QED BY <2>1, <2>2, <2>3
<1>7. /\ ToSet(r.left) = {g} \cup ToSet(Tail(r.left))
      /\ ~ (Len(r.left) > 1) => ToSet(r.left) = {g}
      /\ Tail(r.left) \in Seq(ToSet(Flags[r.dep])) /\ (Len(r.left) > 1 => Tail(r.left) # <<>>)
  BY <1>1, <1>5, HeadAndRest, Shorter
<1>8. SameTarget(r, s) /\ s.at # "returned"
  <2>1. SameTarget(r, s)
    BY <1>4, <1>5, <1>6, StaysAt
  <2>2. s.at \in {"check", "step"}
    BY <1>3, <1>4, <1>6 DEF NextFlag, Answers, Shaped, Fields
  <2> QED BY <2>1, <2>2
<1>9. AtHand(s)'
  <2>1. CASE b /\ Len(r.left) > 1 /\ s = NextFlag(r)
    <3>1. s.at = "check" /\ s.left = Tail(r.left) /\ s.dep = r.dep /\ s.todo = r.todo /\ s.on = r.on
      BY <1>3, <1>4, <2>1, HandGoes
    <3>2. \A f \in ToSet(Flags[r.dep]) : flag[f.name] = f.value \/ f \in ToSet(Tail(r.left))
      BY <1>2, <1>5, <1>7, <2>1
    <3> QED BY <1>3, <1>5, <1>7, <2>1, <3>1, <3>2 DEF AtHand
  <2>2. CASE s = Answers(r, FALSE)
    <3>1. s.at = "step" /\ s.ok = FALSE
      BY <1>4, <2>2 DEF Answers, Shaped, Fields
    <3> QED BY <3>1 DEF AtHand
  <2>3. CASE b /\ ~ (Len(r.left) > 1) /\ s = Answers(r, TRUE)
    <3>1. s.at = "step" /\ s.dep = r.dep /\ s.todo = r.todo
      BY <1>4, <2>3 DEF Answers, Shaped, Fields
    <3>2. \A f \in ToSet(Flags[r.dep]) : flag'[f.name] = f.value
      BY <1>2, <1>3, <1>5, <1>7, <2>3, SMTT(90)
    <3>3. "feature_flag" \in Type
      BY DEF Type, Expected, ToSet
    <3> QED BY <1>5, <3>1, <3>2, <3>3 DEF AtHand, Back, Restored
  <2> QED BY <1>6, <2>1, <2>2, <2>3
<1>10. reverted \subseteq reverted' /\ \A t : Back(r.dep, t) => Back(r.dep, t)'
  BY <1>3, <1>6, BackKept DEF Becomes
<1> QED BY ONLY ReturnInv, AloneInv, BackInv, c \in alone, <1>1, <1>5, <1>6, <1>8, <1>9, <1>10,
           StaysBack

\* The gate reads.
LEMMA GateBack ==
  ASSUME ReturnInv, AloneInv, BackInv, NEW c \in alone, GateConfig(c) \/ GateFlag(c)
  PROVE  \A q : q = call'[c] => AloneCallInv(q)'
<1>1. PICK r : r = call[c]
  OBVIOUS
<1>2. c \in Call /\ Shaped(r)
  BY <1>1 DEF AloneInv, ReturnInv, CallInv
<1>3. /\ reverted' = reverted /\ flag' = flag /\ r.at = "gate"
      /\ Becomes(c, NextFlag(r)) \/ \E check, ok : Gate(c, check, ok)
  <2>1. CASE GateConfig(c)
    BY <1>1, <2>1 DEF GateConfig, Gating
  <2>2. CASE GateFlag(c)
    BY <1>1, <2>2 DEF GateFlag, Gating
  <2> QED BY <2>1, <2>2
<1>4. PICK s : /\ Becomes(c, s)
               /\ \/ s = NextFlag(r)
                  \/ \E wait : \/ \E at \in {"thrown", "returned"} : s = Ended([r EXCEPT !.wait = wait], at)
                               \/ s = [r EXCEPT !.wait = wait]
  <2>1. CASE Becomes(c, NextFlag(r))
    BY <2>1
  <2>2. ASSUME NEW check, NEW ok, Gate(c, check, ok)
        PROVE  \E s : /\ Becomes(c, s)
                      /\ \E wait : \/ \E at \in {"thrown", "returned"} : s = Ended([r EXCEPT !.wait = wait], at)
                                   \/ s = [r EXCEPT !.wait = wait]
    <3>1. PICK wait : wait = r.wait \ {check}
      OBVIOUS
    <3> QED BY <1>1, <2>2, <3>1 DEF Gate
  <2> QED BY <1>3, <2>1, <2>2
<1>5. SameTarget(r, s)
  BY <1>2, <1>4, StaysAt
<1>6. s.at \in {"gate", "thrown", "returned"}
  <2>1. CASE s = NextFlag(r)
    BY <1>2, <1>3, <2>1, HandGoes
  <2>2. ASSUME NEW wait, NEW at \in {"thrown", "returned"}, s = Ended([r EXCEPT !.wait = wait], at)
        PROVE  s.at \in {"gate", "thrown", "returned"}
    BY <1>2, <2>2 DEF Ended, Shaped, Fields
  <2>3. ASSUME NEW wait, s = [r EXCEPT !.wait = wait] PROVE s.at \in {"gate", "thrown", "returned"}
    BY <1>2, <1>3, <2>3 DEF Shaped, Fields
  <2> QED BY <1>4, <2>1, <2>2, <2>3
<1>7. AtHand(s)' /\ r.at \notin CallOver
  BY <1>3, <1>6 DEF AtHand, CallOver
<1>8. reverted \subseteq reverted' /\ \A t : Back(r.dep, t) => Back(r.dep, t)'
  BY <1>3, <1>4, BackKept DEF Becomes
<1> QED BY ONLY ReturnInv, AloneInv, BackInv, c \in alone, <1>1, <1>3, <1>4, <1>5, <1>7, <1>8,
           StaysBack

\* The handlers and the gate go on.
LEMMA HandlerBack ==
  ASSUME ReturnInv, AloneInv, BackInv, NEW c \in Call,
         \/ PutConfig(c) \/ GetConfig(c) \/ UpdateFlag(c) \/ CheckFlag(c) \/ GateConfig(c) \/ GateFlag(c)
  PROVE  BackInv'
<1>1. call[c].at \notin CallOver
  BY DEF PutConfig, GetConfig, UpdateFlag, CheckFlag, GateConfig, GateFlag, Gating, CallOver
<1>2. \E s : Becomes(c, s)
  BY DEF PutConfig, GetConfig, UpdateFlag, CheckFlag, GateConfig, GateFlag, Gate
<1>3. UNCHANGED given /\ alone' = alone /\ \E s : call' = [call EXCEPT ![c] = s]
  BY <1>2 DEF Becomes
<1>4. ASSUME c \in alone PROVE \A q : q = call'[c] => AloneCallInv(q)'
  BY <1>4, ConfigBack, UpdateBack, CheckBack, GateBack
<1> QED BY <1>1, <1>3, <1>4, CallBack

\* Nothing runs at first.
LEMMA BackInvInit == RollbackInit => BackInv
<1> SUFFICES ASSUME RollbackInit PROVE BackInv
  OBVIOUS
<1>1. ASSUME NEW d \in Deployment PROVE TypesOnce(plan[d])
  <2>1. plan[d] \in Plans[d]
    BY DEF RollbackInit
  <2> QED BY <2>1, RollbackConstants DEF TypesOnce
<1>2. alone = {}
  BY DEF RollbackInit
<1> QED BY <1>1, <1>2 DEF BackInv

\* Every step.
LEMMA BackInvNext == ReturnInv /\ AloneInv /\ BackInv /\ [RollbackNext]_rollbackVars => BackInv'
<1> SUFFICES ASSUME ReturnInv, AloneInv, BackInv, [RollbackNext]_rollbackVars PROVE BackInv'
  OBVIOUS
<1>1. ASSUME NEW c \in Call, NEW d \in Deployment, StartRollback(c, d) PROVE BackInv'
  BY <1>1, StartBack
<1>2. ASSUME NEW c \in Call, Step(c) PROVE BackInv'
  BY <1>2, StepBack, HandlerBack DEF Step
<1>3. CASE UNCHANGED rollbackVars
  <2>1. UNCHANGED <<given, reverted, store, flag, log, current, call, alone>>
    BY <1>3 DEF rollbackVars
  <2>2. plan' = plan
    BY <2>1 DEF given
  <2>3. \A r : AloneCallInv(r) => AloneCallInv(r)'
    BY <2>1, <2>2, ZenonT(90) DEF AloneCallInv, LogBack, AllBack, AtHand, Back
  <2> QED BY <2>1, <2>2, <2>3 DEF BackInv
<1> QED BY <1>1, <1>2, <1>3 DEF RollbackNext

(* What a caller is told of a rollback is so: when no other call has overlapped  *)
(* it and it reports no failed step, each recorded target outside the dependency *)
(* cycles is at its earlier version (rollback-executor.ts:419); with the gate,   *)
(* however calls overlap (health-check-gate.ts:4-6), but for the flags, stores   *)
(* and target ids that deployments share, as GateStops says.  For any            *)
(* deployments, ids, stores, recorded targets, dependencies, captures and calls. *)
THEOREM ReturnsTrue == RollbackSpec => ReturnReverts
<1> DEFINE AloneDone == \A c \in alone' : Returns(c) /\ FALSE \notin call'[c].oks =>
       \A t \in Reachable(plan[call'[c].dep]) : Restored(call'[c].dep, t, reverted', store', flag')
<1>1. ReturnInv /\ AloneInv /\ BackInv /\ [RollbackNext]_rollbackVars => ReturnInv' /\ AloneInv' /\ BackInv'
  BY ReturnInvNext, AloneInvNext, BackInvNext
<1>2. ASSUME ReturnInv, AloneInv, BackInv, [RollbackNext]_rollbackVars PROVE [AloneDone]_rollbackVars
  <2>1. ReturnInv' /\ AloneInv' /\ BackInv' /\ plan' = plan
    BY <1>1, <1>2, ReturnInvNext DEF given
  <2> SUFFICES ASSUME NEW c \in alone', Returns(c), FALSE \notin call'[c].oks,
                      NEW t \in Reachable(plan[call'[c].dep])
               PROVE  Restored(call'[c].dep, t, reverted', store', flag')
    OBVIOUS
  <2>2. PICK r : r = call'[c]
    OBVIOUS
  <2>3. AloneCallInv(r)' /\ r.at = "returned"
    BY <2>1, <2>2 DEF BackInv, Returns
  <2>4. AllBack(r)'
    BY <2>3 DEF AloneCallInv
  <2> QED BY <2>1, <2>2, <2>4 DEF AllBack, Back
<1>3. RollbackSpec => AloneSuccessReverts
  BY <1>1, <1>2, ReturnInvInit, AloneInvInit, BackInvInit, PTL
     DEF RollbackSpec, AloneSuccessReverts
<1> QED BY <1>3, GateStops DEF ReturnReverts
=============================================================================
