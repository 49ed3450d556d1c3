----------------------- MODULE IngestionPipelineProofs -----------------------
(***************************************************************************)
(* Theorems about IngestionPipeline, for every set of ids and every finite *)
(* set of runs, whatever the limits.                                       *)
(***************************************************************************)
EXTENDS IngestionPipeline, FiniteSetTheorems, SequenceTheorems, WellFoundedInduction, TLAPS

Stage == {"idle", "validate", "redoValidate", "extract", "redoExtract", "store",
          "confirm", "refused", "error"}

\* What every variable can hold; a run works on an id exactly while it is not idle.
TypeOK ==
  /\ queue \in Seq(Id) /\ dlq \in Seq(Id)
  /\ history \in [Id -> {"none", "success", "dlq"}]
  /\ pc \in [Run -> Stage]
  /\ on \in [Run -> Id \cup {NoId}]
  /\ \A r \in Run : pc[r] = "idle" <=> on[r] = NoId
  /\ enqueued \in [Id -> Nat] /\ dead \in [Id -> Nat] /\ peak \in [Id -> Nat]
  /\ left \subseteq Id

\* The runs of i whose job is in the queue, and those that have no outcome yet.
Stored(i) == {r \in Under(i) : pc[r] = "confirm"}
Open(i)   == {r \in Under(i) : pc[r] \notin {"confirm", "refused"}}

\* Every run of i that still may have an outcome is counted with the outcomes there
\* are.  While the history does not know i, no run of it has ended.
CountInv ==
  \A i \in Id :
    /\ enqueued[i] + dead[i] + Cardinality(Open(i)) <= peak[i]
    /\ history[i] = "none" =>
         /\ dead[i] = 0
         /\ enqueued[i] = Cardinality(Stored(i))
         /\ Cardinality(Under(i)) <= peak[i]

\* A run that is past the store has handed its job to the queue, or the queue was full.
HandedOn ==
  \A r \in Run :
    /\ pc[r] = "confirm" => on[r] \in left \cup ToSet(queue)
    /\ pc[r] = "refused" => on[r] \in left

----------------------------------------------------------------------------
(* What the operations do to the elements of a sequence and to a set of    *)
(* runs.                                                                   *)

\* The larger of two numbers.
LEMMA LargerOf ==
  ASSUME NEW a \in Nat, NEW b \in Nat
  PROVE  Max({a, b}) \in Nat /\ a <= Max({a, b}) /\ b <= Max({a, b})
<1>1. \E x \in {a, b} : \A y \in {a, b} : x >= y
  <2>1. CASE a >= b
    BY <2>1
  <2>2. CASE b >= a
    BY <2>2
  <2> QED BY <2>1, <2>2
<1>2. Max({a, b}) \in {a, b} /\ \A y \in {a, b} : Max({a, b}) >= y
  BY <1>1 DEF Max
<1> QED BY <1>2

\* A set of numbers that is not empty has a least element.
LEMMA LeastIn ==
  ASSUME NEW S \in SUBSET Nat, S # {}
  PROVE  Min(S) \in S
<1>1. \E x \in S : \A y \in S : x <= y
  <2>1. PICK x \in S : \A y \in S : <<y, x>> \notin OpToRel(<, Nat)
    BY NatLessThanWellFounded, WFMin, Zenon
  <2>2. \A y \in S : y \in Nat /\ x \in Nat /\ ~ (y < x)
    BY <2>1, Zenon DEF OpToRel
  <2>3. \A y \in S : x <= y
    BY <2>2
  <2> QED BY <2>3
<1> QED BY <1>1 DEF Min

\* Append adds the element and nothing else.
LEMMA AppendToSet ==
  ASSUME NEW s \in Seq(Id), NEW i \in Id
  PROVE  Append(s, i) \in Seq(Id) /\ ToSet(Append(s, i)) = ToSet(s) \cup {i}
<1>1. Append(s, i) \in Seq(Id) /\ DOMAIN s = 1 .. Len(s) /\ Len(s) \in Nat
      /\ DOMAIN Append(s, i) = 1 .. Len(s) + 1
  OBVIOUS
<1>2. \A x \in 1 .. Len(s) : Append(s, i)[x] = s[x]
  OBVIOUS
<1>3. Append(s, i)[Len(s) + 1] = i
  OBVIOUS
<1>4. \A x \in 1 .. Len(s) + 1 : x \in 1 .. Len(s) \/ x = Len(s) + 1
  BY <1>1
<1>5. ASSUME NEW v PROVE v \in ToSet(Append(s, i)) <=> v \in ToSet(s) \cup {i}
  BY <1>1, <1>2, <1>3, <1>4 DEF ToSet
<1> QED BY <1>1, <1>5

\* A sequence is its head and its tail.
LEMMA TailToSet ==
  ASSUME NEW s \in Seq(Id), s # <<>>
  PROVE  /\ Tail(s) \in Seq(Id) /\ Head(s) \in Id
         /\ ToSet(s) = ToSet(Tail(s)) \cup {Head(s)}
<1>1. Tail(s) \in Seq(Id) /\ Head(s) \in Id
  OBVIOUS
<1>2. \A x \in DOMAIN s : s[x] = Head(s) \/ (x - 1 \in DOMAIN Tail(s) /\ s[x] = Tail(s)[x - 1])
  OBVIOUS
<1>3. \A x \in DOMAIN Tail(s) : x + 1 \in DOMAIN s /\ s[x + 1] = Tail(s)[x]
  OBVIOUS
<1>4. 1 \in DOMAIN s /\ s[1] = Head(s)
  OBVIOUS
<1>5. ASSUME NEW v PROVE v \in ToSet(s) <=> v \in ToSet(Tail(s)) \cup {Head(s)}
  <2>1. v \in ToSet(s) => v \in ToSet(Tail(s)) \cup {Head(s)}
    BY <1>2 DEF ToSet
  <2>2. v \in ToSet(Tail(s)) \cup {Head(s)} => v \in ToSet(s)
    BY <1>3, <1>4 DEF ToSet
  <2> QED BY <2>1, <2>2
<1> QED BY <1>1, <1>5

\* RemoveFirst takes nothing out but one copy of the element.
LEMMA RemoveFirstToSet ==
  ASSUME NEW s \in Seq(Id), NEW i \in Id, i \in ToSet(s)
  PROVE  RemoveFirst(s, i) \in Seq(Id) /\ ToSet(s) \ {i} \subseteq ToSet(RemoveFirst(s, i))
<1> DEFINE I == {x \in 1 .. Len(s) : s[x] = i}
           k == SelectInSeq(s, LAMBDA v : v = i)
           t == RemoveAt(s, k)
<1>1. I # {} /\ I \subseteq Nat
  BY DEF ToSet
<1>2. k = Min(I)
  BY <1>1 DEF SelectInSeq
<1>3. k \in 1 .. Len(s) /\ s[k] = i
  BY <1>1, <1>2, LeastIn
<1>4. RemoveFirst(s, i) = t
  BY <1>3 DEF RemoveFirst
<1> HIDE DEF k
<1>5. t \in Seq(Id) /\ Len(t) = Len(s) - 1
      /\ \A x \in 1 .. Len(s) - 1 : t[x] = IF x < k THEN s[x] ELSE s[x + 1]
  <2> DEFINE u == SubSeq(s, 1, k - 1)
             w == SubSeq(s, k + 1, Len(s))
  <2>1. u \in Seq(Id) /\ Len(u) = k - 1 /\ \A x \in 1 .. k - 1 : u[x] = s[x]
    BY <1>3
  <2>2. w \in Seq(Id) /\ Len(w) = Len(s) - k /\ \A x \in 1 .. Len(s) - k : w[x] = s[k + x]
    BY <1>3
  <2>3. t = u \o w
    BY DEF RemoveAt
  <2> HIDE DEF u, w, t
  <2>4. t \in Seq(Id) /\ Len(t) = Len(s) - 1
    <3>1. t \in Seq(Id) /\ Len(t) = Len(u) + Len(w)
      BY <2>1, <2>2, <2>3, ConcatProperties
    <3> QED BY <1>3, <2>1, <2>2, <3>1
  <2>5. ASSUME NEW x \in 1 .. Len(s) - 1 PROVE t[x] = IF x < k THEN s[x] ELSE s[x + 1]
    <3>1. CASE x < k
      BY <1>3, <2>1, <2>2, <2>3, <3>1, SMTT(90)
    <3>2. CASE ~ (x < k)
      <4>1. t[x] = w[x - (k - 1)]
        BY <1>3, <2>1, <2>2, <2>3, <3>2, ConcatProperties, SMTT(90)
      <4>2. x - (k - 1) \in 1 .. Len(s) - k /\ k + (x - (k - 1)) = x + 1
        BY <1>3, <3>2
      <4> QED BY <2>2, <3>2, <4>1, <4>2
    <3> QED BY <3>1, <3>2
  <2> QED BY <2>4, <2>5
<1>6. ASSUME NEW x \in 1 .. Len(s), s[x] # i PROVE \E y \in 1 .. Len(t) : t[y] = s[x]
  <2>1. CASE x < k
    BY <1>3, <1>5, <2>1
  <2>2. CASE x > k
    <3>1. x - 1 \in 1 .. Len(s) - 1 /\ ~ (x - 1 < k) /\ (x - 1) + 1 = x
      BY <1>3, <2>2
    <3>2. t[x - 1] = s[x]
      BY <1>5, <3>1
    <3> QED BY <1>5, <3>1, <3>2
  <2> QED BY <1>3, <1>6, <2>1, <2>2
<1> QED BY <1>4, <1>5, <1>6, SMTT(90) DEF ToSet

\* A run that joins, leaves or moves within a set of runs changes its size by one.
LEMMA RunSets ==
  ASSUME NEW S \in SUBSET Run, NEW r \in Run
  PROVE  /\ Cardinality(S) \in Nat /\ IsFiniteSet(S)
         /\ Cardinality(S \ {r}) \in Nat /\ Cardinality(S \cup {r}) \in Nat
         /\ r \notin S => Cardinality(S \cup {r}) = Cardinality(S) + 1
         /\ r \in S => Cardinality(S \ {r}) = Cardinality(S) - 1
<1>1. IsFiniteSet(S)
  BY PipelineConstants, FS_Subset
<1> QED BY <1>1, FS_AddElement, FS_RemoveElement, FS_CardinalityType

\* Every run of i is in at most one of the two sets.
LEMMA SetsApart ==
  ASSUME NEW i \in Id
  PROVE  /\ Cardinality(Open(i)) \in Nat /\ Cardinality(Stored(i)) \in Nat
         /\ Cardinality(Under(i)) \in Nat
         /\ Cardinality(Open(i)) + Cardinality(Stored(i)) <= Cardinality(Under(i))
<1>1. /\ Open(i) \subseteq Run /\ Stored(i) \subseteq Run /\ Under(i) \subseteq Run
      /\ Open(i) \cup Stored(i) \subseteq Under(i) /\ Open(i) \cap Stored(i) = {}
  BY DEF Open, Stored, Under
<1>2. IsFiniteSet(Open(i)) /\ IsFiniteSet(Stored(i)) /\ IsFiniteSet(Under(i))
  BY <1>1, PipelineConstants, FS_Subset
<1>3. Cardinality(Open(i) \cap Stored(i)) = 0
  BY <1>1, FS_EmptySet
<1>4. Cardinality(Open(i) \cup Stored(i)) = Cardinality(Open(i)) + Cardinality(Stored(i))
  <2>1. Cardinality(Open(i)) \in Nat /\ Cardinality(Stored(i)) \in Nat
    BY <1>2, FS_CardinalityType
  <2>2. Cardinality(Open(i) \cup Stored(i))
          = Cardinality(Open(i)) + Cardinality(Stored(i)) - Cardinality(Open(i) \cap Stored(i))
    BY <1>2, FS_Union
  <2> QED BY <1>3, <2>1, <2>2
<1>5. Cardinality(Open(i) \cup Stored(i)) <= Cardinality(Under(i))
  BY <1>1, <1>2, FS_Subset
<1> QED BY <1>2, <1>4, <1>5, FS_CardinalityType

----------------------------------------------------------------------------
(* The types.                                                              *)

\* Enqueue leaves a queue of ids with the job in it, or counts the job as refused.
LEMMA EnqueueTypes ==
  ASSUME queue \in Seq(Id), left \subseteq Id, NEW i \in Id, Enqueue(i)
  PROVE  /\ queue' \in Seq(Id) /\ left \subseteq left' /\ left' \subseteq Id
         /\ ToSet(queue) \subseteq ToSet(queue')
         /\ Full => i \in left'
         /\ ~ Full => i \in ToSet(queue')
<1>1. CASE Full
  BY <1>1 DEF Enqueue
<1>2. CASE ~ Full
  <2>1. queue' = Append(queue, i) /\ left' = left
    BY <1>2 DEF Enqueue
  <2>2. Append(queue, i) \in Seq(Id) /\ ToSet(Append(queue, i)) = ToSet(queue) \cup {i}
    BY AppendToSet
  <2> QED BY <1>2, <2>1, <2>2
<1> QED BY <1>1, <1>2

\* Push leaves a queue of ids, and takes out an id.
LEMMA PushTypes ==
  ASSUME dlq \in Seq(Id), left \subseteq Id, NEW i \in Id, Push(i)
  PROVE  /\ dlq' \in Seq(Id) /\ left \subseteq left' /\ left' \subseteq Id
         /\ i \in ToSet(dlq') /\ ToSet(dlq) \subseteq ToSet(dlq') \cup left'
<1>1. CASE Len(dlq) < MaxDLQSize
  BY <1>1, AppendToSet, ZenonT(90) DEF Push
<1>2. CASE ~ (Len(dlq) < MaxDLQSize)
  <2>1. dlq # <<>>
    BY <1>2, PipelineConstants
  <2>2. /\ Tail(dlq) \in Seq(Id) /\ Head(dlq) \in Id
        /\ ToSet(dlq) = ToSet(Tail(dlq)) \cup {Head(dlq)}
    BY <2>1, TailToSet
  <2>3. dlq' = Append(Tail(dlq), i) /\ left' = left \cup {Head(dlq)}
    BY <1>2 DEF Push
  <2>4. dlq' \in Seq(Id) /\ ToSet(dlq') = ToSet(Tail(dlq)) \cup {i}
    BY <2>2, <2>3, AppendToSet
  <2> QED BY <2>2, <2>3, <2>4
<1> QED BY <1>1, <1>2

\* No step of a run breaks the types.
LEMMA RunTypes ==
  ASSUME TypeOK, NEW r \in Run, Step(r) \/ \E i \in Id : RunStart(r, i)
  PROVE  TypeOK'
<1> USE PipelineConstants DEF TypeOK, Stage, Goto, Enter, End, queues, records
<1>1. CASE \E i \in Id : RunStart(r, i)
  <2>1. PICK i \in Id : RunStart(r, i)
    BY <1>1
  <2>2. Cardinality(Under(i)) + 1 \in Nat
    BY SetsApart, SMTT(90)
  <2>3. peak' \in [Id -> Nat]
    BY <2>1, <2>2, LargerOf DEF RunStart, Begin
  <2> QED BY <2>1, <2>3 DEF RunStart, Begin
<1>2. CASE Validate(r) \/ ExtractSucceeds(r) \/ ExtractFails(r) \/ DelayOver(r)
  BY <1>2, ZenonT(90) DEF Validate, ExtractSucceeds, ExtractFails, StageFails, DelayOver
<1>3. CASE Store(r)
  <2>1. on[r] \in Id
    BY <1>3 DEF Store
  <2>2. queue' \in Seq(Id) /\ left' \subseteq Id
    BY <1>3, <2>1, EnqueueTypes DEF Store
  <2>3. enqueued' \in [Id -> Nat]
    <3>1. CASE Full
      BY <1>3, <2>1, <3>1 DEF Store
    <3>2. CASE ~ Full
      BY <1>3, <2>1, <3>2 DEF Store
    <3> QED BY <3>1, <3>2
  <2> QED BY <1>3, <2>2, <2>3 DEF Store
<1>4. CASE Confirm(r)
  BY <1>4, ZenonT(90) DEF Confirm
<1>5. CASE HandleError(r)
  <2>1. on[r] \in Id
    BY <1>5 DEF HandleError
  <2>2. dlq' \in Seq(Id) /\ left' \subseteq Id
    BY <1>5, <2>1, PushTypes DEF HandleError
  <2> QED BY <1>5, <2>1, <2>2, SMTT(90) DEF HandleError
<1> QED BY <1>1, <1>2, <1>3, <1>4, <1>5 DEF Step

\* No step breaks the types.
LEMMA TypesStep == ASSUME TypeOK, [Next]_vars PROVE TypeOK'
<1> USE DEF TypeOK, queues, records
<1>1. CASE UNCHANGED vars
  BY <1>1 DEF vars
<1>2. CASE \E r \in Run : Step(r) \/ \E i \in Id : RunStart(r, i)
  BY <1>2, RunTypes
<1>3. CASE \E i \in Id : Redrive(i)
  BY <1>3, AppendToSet, RemoveFirstToSet DEF Redrive
<1>4. CASE Dequeue
  BY <1>4, TailToSet DEF Dequeue
<1>5. CASE ClearQueues
  BY <1>5 DEF ClearQueues, ToSet
<1>6. CASE ClearHistory
  <2>1. \A i \in Id : Cardinality(Stored(i)) \in Nat /\ Cardinality(Under(i)) \in Nat
    BY SetsApart
  <2> QED BY <1>6, <2>1 DEF ClearHistory, Stored
<1> QED BY <1>1, <1>2, <1>3, <1>4, <1>5, <1>6 DEF Next

\* Every variable holds what the code can put there (IngestionOrchestrator.ts, producer.ts, dlq.ts).
THEOREM PipelineTyping == Spec => []TypeOK
<1>1. Init => TypeOK
  BY PipelineConstants DEF Init, TypeOK, Stage
<1>2. TypeOK /\ [Next]_vars => TypeOK'
  BY TypesStep
<1> QED BY <1>1, <1>2, PTL DEF Spec

----------------------------------------------------------------------------
(* Nothing vanishes between the stages.                                    *)

\* Both together.
TraceInv == Traceable /\ HandedOn

\* Whoever takes an id out of a queue puts it into left.
LEMMA TraceStep == ASSUME TypeOK, TraceInv, [Next]_vars PROVE TraceInv'
<1> USE DEF Traceable, HandedOn, TraceInv
<1>1. CASE UNCHANGED vars
  BY <1>1 DEF vars, queues, records
<1>2. ASSUME NEW r \in Run, Step(r) \/ \E i \in Id : RunStart(r, i) PROVE TraceInv'
  <2> USE DEF TypeOK, Goto, Enter, End, queues, records
  <2>1. CASE \E i \in Id : RunStart(r, i)
    BY <2>1, PipelineConstants DEF RunStart, Begin
  <2>2. CASE Validate(r) \/ ExtractSucceeds(r) \/ ExtractFails(r) \/ DelayOver(r)
    BY <2>2 DEF Validate, ExtractSucceeds, ExtractFails, StageFails, DelayOver
  <2>3. CASE Store(r)
    <3>1. on[r] \in Id
      BY <2>3 DEF Store
    <3>2. /\ left \subseteq left' /\ ToSet(queue) \subseteq ToSet(queue')
          /\ Full => on[r] \in left'
          /\ ~ Full => on[r] \in ToSet(queue')
      BY <2>3, <3>1, EnqueueTypes DEF Store
    <3>3. on' = on /\ history' = history /\ dlq' = dlq
      BY <2>3 DEF Store
    <3>4. \/ Full /\ pc' = [pc EXCEPT ![r] = "refused"]
          \/ ~ Full /\ pc' = [pc EXCEPT ![r] = "confirm"]
      <4>1. CASE Full
        BY <2>3, <4>1 DEF Store
      <4>2. CASE ~ Full
        BY <2>3, <4>2 DEF Store
      <4> QED BY <4>1, <4>2
    <3>5. HandedOn'
      BY <3>2, <3>3, <3>4
    <3> QED BY <3>2, <3>3, <3>5
  <2>4. CASE Confirm(r)
    <3>1. on[r] \in Id /\ on[r] \in left \cup ToSet(queue)
      BY <2>4 DEF Confirm
    <3>2. HandedOn'
      BY <2>4, ZenonT(90) DEF Confirm
    <3>3. Traceable'
      BY <2>4, <3>1, SMTT(90) DEF Confirm
    <3> QED BY <3>2, <3>3
  <2>5. CASE HandleError(r)
    <3>1. on[r] \in Id
      BY <2>5 DEF HandleError
    <3>2. /\ left \subseteq left'
          /\ on[r] \in ToSet(dlq') /\ ToSet(dlq) \subseteq ToSet(dlq') \cup left'
      BY <2>5, <3>1, PushTypes, SMTT(90) DEF HandleError
    <3>3. queue' = queue /\ history' = [history EXCEPT ![on[r]] = "dlq"]
      BY <2>5 DEF HandleError
    <3>4. HandedOn'
      BY <2>5, <3>2, <3>3 DEF HandleError
    <3>5. Traceable'
      BY <3>1, <3>2, <3>3
    <3> QED BY <3>4, <3>5
  <2> QED BY <1>2, <2>1, <2>2, <2>3, <2>4, <2>5 DEF Step
<1>3. ASSUME NEW i \in Id, Redrive(i) PROVE TraceInv'
  <2>1. ToSet(dlq) \ {i} \subseteq ToSet(dlq') /\ left' = left \cup {i}
    BY <1>3, RemoveFirstToSet DEF Redrive, TypeOK
  <2>2. ToSet(queue) \subseteq ToSet(queue')
    BY <1>3, AppendToSet DEF Redrive, TypeOK
  <2>3. UNCHANGED <<pc, on, history>>
    BY <1>3 DEF Redrive
  <2> QED BY <2>1, <2>2, <2>3
<1>4. CASE Dequeue
  <2>1. ToSet(queue) \subseteq ToSet(queue') \cup left' /\ left \subseteq left'
    BY <1>4, TailToSet DEF Dequeue, TypeOK
  <2>2. UNCHANGED <<pc, on, history, dlq>>
    BY <1>4 DEF Dequeue
  <2> QED BY <2>1, <2>2
<1>5. CASE ClearQueues
  BY <1>5 DEF ClearQueues
<1>6. CASE ClearHistory
  BY <1>6 DEF ClearHistory, queues
<1> QED BY <1>1, <1>2, <1>3, <1>4, <1>5, <1>6 DEF Next

\* A record reported as a success is in the queue and one reported as failed is in the
\* DLQ, unless a limit, a consumer or an operator took it out
\* (IngestionOrchestrator.ts:131-170, 219-238).
THEOREM NothingVanishes == Spec => []Traceable
<1>1. Init => TraceInv
  BY DEF Init, TraceInv, Traceable, HandedOn
<1>2. TypeOK /\ TraceInv /\ [Next]_vars => TraceInv'
  BY TraceStep
<1> QED BY <1>1, <1>2, PipelineTyping, PTL DEF Spec, TraceInv

----------------------------------------------------------------------------
(* No more outcomes than runs that overlapped.                             *)

\* The sets of runs of i after a step in which only run r moves, and nobody starts.
LEMMA RunMoves ==
  ASSUME TypeOK, NEW r \in Run, on[r] \in Id, NEW to \in Stage \ {"idle"},
         pc' = [pc EXCEPT ![r] = to], on' = on, NEW i \in Id
  PROVE  /\ Under(i)' = Under(i)
         /\ Open(i)' = IF i # on[r] THEN Open(i)
                       ELSE IF to \in {"confirm", "refused"} THEN Open(i) \ {r}
                       ELSE Open(i) \cup {r}
         /\ Stored(i)' = IF i # on[r] THEN Stored(i)
                         ELSE IF to = "confirm" THEN Stored(i) \cup {r}
                         ELSE Stored(i) \ {r}
  BY DEF TypeOK, Under, Open, Stored

\* The sets of runs of i after run r has ended.
LEMMA RunEnds ==
  ASSUME TypeOK, NEW r \in Run, on[r] \in Id,
         pc' = [pc EXCEPT ![r] = "idle"], on' = [on EXCEPT ![r] = NoId], NEW i \in Id
  PROVE  /\ Under(i)' = Under(i) \ {r}
         /\ Open(i)' = Open(i) \ {r}
         /\ Stored(i)' = Stored(i) \ {r}
  BY PipelineConstants DEF TypeOK, Under, Open, Stored

\* The bound for one id, and what it rests on.
Bounded(i) ==
  /\ enqueued[i] + dead[i] + Cardinality(Open(i)) <= peak[i]
  /\ history[i] = "none" =>
       /\ dead[i] = 0
       /\ enqueued[i] = Cardinality(Stored(i))
       /\ Cardinality(Under(i)) <= peak[i]

\* A run that starts while the history does not know its record keeps the bound.
LEMMA BoundedStart ==
  ASSUME TypeOK, CountInv, NEW r \in Run, NEW j \in Id, RunStart(r, j), NEW i \in Id
  PROVE  Bounded(i)'
<1> USE PipelineConstants DEF TypeOK
<1>1. /\ pc[r] = "idle" /\ on[r] = NoId /\ history[j] = "none"
      /\ pc' = [pc EXCEPT ![r] = "validate"] /\ on' = [on EXCEPT ![r] = j]
      /\ peak' = [peak EXCEPT ![j] = Max({@, Cardinality(Under(j)) + 1})]
      /\ UNCHANGED <<history, enqueued, dead>>
  BY DEF RunStart, Begin, Enter, Goto
<1>2. Cardinality(Open(i)) \in Nat /\ Cardinality(Stored(i)) \in Nat /\ Cardinality(Under(i)) \in Nat
      /\ Cardinality(Open(i)) + Cardinality(Stored(i)) <= Cardinality(Under(i))
  BY SetsApart
<1>3. Bounded(i)
  BY DEF CountInv, Bounded
<1>4. CASE i # j
  <2>1. Under(i)' = Under(i) /\ Open(i)' = Open(i) /\ Stored(i)' = Stored(i)
    BY <1>1, <1>4 DEF Under, Open, Stored
  <2>2. peak'[i] = peak[i]
    BY <1>1, <1>4
  <2> QED BY <1>1, <1>3, <2>1, <2>2 DEF Bounded
<1>5. CASE i = j
  <2>1. Under(i)' = Under(i) \cup {r} /\ Open(i)' = Open(i) \cup {r} /\ Stored(i)' = Stored(i)
        /\ Under(i) \subseteq Run /\ Open(i) \subseteq Run /\ r \notin Under(i) /\ r \notin Open(i)
    BY <1>1, <1>5 DEF Under, Open, Stored
  <2>2. Cardinality(Under(i)') = Cardinality(Under(i)) + 1
        /\ Cardinality(Open(i)') = Cardinality(Open(i)) + 1
    BY <2>1, RunSets
  <2>3. peak'[i] \in Nat /\ Cardinality(Under(i)) + 1 <= peak'[i]
    <3> DEFINE m == Max({peak[j], Cardinality(Under(j)) + 1})
    <3>1. m \in Nat /\ Cardinality(Under(j)) + 1 <= m
      <4>1. peak[j] \in Nat /\ Cardinality(Under(j)) + 1 \in Nat
        BY SetsApart, SMTT(90)
      <4> QED BY <4>1, LargerOf
    <3>2. peak' = [peak EXCEPT ![j] = m]
      BY <1>1
    <3> HIDE DEF m
    <3> QED BY <1>5, <3>1, <3>2
  <2>4. enqueued[i] = Cardinality(Stored(i)) /\ dead[i] = 0
    BY <1>1, <1>3, <1>5 DEF Bounded
  <2> QED BY <1>1, <1>2, <2>1, <2>2, <2>3, <2>4, SMTT(90) DEF Bounded
<1> QED BY <1>4, <1>5

\* So does every step of a run: an outcome is paid for by the run that gives it.
LEMMA BoundedRun ==
  ASSUME TypeOK, CountInv, NEW r \in Run, Step(r), NEW i \in Id
  PROVE  Bounded(i)'
<1> USE PipelineConstants DEF TypeOK
<1>1. Bounded(i)
  BY DEF CountInv, Bounded
<1>2. on[r] \in Id /\ r \in Under(on[r]) /\ pc[r] # "idle"
  BY DEF Step, Validate, ExtractSucceeds, ExtractFails, StageFails, DelayOver, Store, Confirm,
     HandleError, Enter, End, Goto, Under
<1>3. Open(i) \subseteq Run /\ Stored(i) \subseteq Run /\ Under(i) \subseteq Run
  BY DEF Open, Stored, Under
<1>4. Cardinality(Open(i)) \in Nat /\ Cardinality(Stored(i)) \in Nat /\ Cardinality(Under(i)) \in Nat
  BY SetsApart
<1>5. CASE Validate(r) \/ ExtractSucceeds(r) \/ ExtractFails(r) \/ DelayOver(r)
  <2>1. /\ UNCHANGED <<history, on, enqueued, dead, peak>>
        /\ pc[r] \notin {"idle", "confirm", "refused"}
        /\ \E to \in Stage \ {"idle", "confirm", "refused"} : pc' = [pc EXCEPT ![r] = to]
    BY <1>5
       DEF Validate, ExtractSucceeds, ExtractFails, StageFails, DelayOver, Goto, Enter, Stage,
       queues, records
  <2>2. UNCHANGED <<Under(i), Open(i), Stored(i)>>
    BY <1>2, <2>1, SMTT(90) DEF Under, Open, Stored
  <2> QED BY <1>1, <2>1, <2>2 DEF Bounded
<1>6. CASE Store(r)
  <2>1. pc[r] = "store" /\ UNCHANGED <<history, on, dead, peak>>
    BY <1>6 DEF Store, Enter, Goto
  <2>2. CASE i # on[r]
    <3>1. enqueued'[i] = enqueued[i] /\ \E to \in Stage : pc' = [pc EXCEPT ![r] = to]
      BY <1>2, <1>6, <2>2 DEF Store, Enter, Goto, Stage
    <3>2. UNCHANGED <<Under(i), Open(i), Stored(i)>>
      BY <2>1, <2>2, <3>1 DEF Under, Open, Stored
    <3> QED BY <1>1, <2>1, <3>1, <3>2 DEF Bounded
  <2>3. CASE i = on[r] /\ Full
    <3>1. enqueued'[i] = enqueued[i] /\ pc' = [pc EXCEPT ![r] = "refused"]
      BY <1>2, <1>6, <2>3 DEF Store, Enter, Goto
    <3>2. Under(i)' = Under(i) /\ Open(i)' = Open(i) \ {r} /\ Stored(i)' = Stored(i) /\ r \in Open(i)
      BY <1>2, <2>1, <2>3, <3>1 DEF Under, Open, Stored
    <3>3. Cardinality(Open(i)') = Cardinality(Open(i)) - 1
      BY <1>3, <3>2, RunSets
    <3> QED BY <1>1, <1>4, <2>1, <3>1, <3>2, <3>3, SMTT(90) DEF Bounded
  <2>4. CASE i = on[r] /\ ~ Full
    <3>1. enqueued'[i] = enqueued[i] + 1 /\ pc' = [pc EXCEPT ![r] = "confirm"]
      BY <1>2, <1>6, <2>4 DEF Store, Enter, Goto
    <3>2. Under(i)' = Under(i) /\ Open(i)' = Open(i) \ {r} /\ Stored(i)' = Stored(i) \cup {r}
          /\ r \in Open(i) /\ r \notin Stored(i)
      BY <1>2, <2>1, <2>4, <3>1, SMTT(90) DEF Under, Open, Stored
    <3>3. Cardinality(Open(i)') = Cardinality(Open(i)) - 1
          /\ Cardinality(Stored(i)') = Cardinality(Stored(i)) + 1
      BY <1>3, <3>2, RunSets
    <3> QED BY <1>1, <1>4, <2>1, <3>1, <3>2, <3>3, SMTT(90) DEF Bounded
  <2> QED BY <2>2, <2>3, <2>4
<1>7. CASE Confirm(r) \/ HandleError(r)
  <2>1. /\ pc' = [pc EXCEPT ![r] = "idle"] /\ on' = [on EXCEPT ![r] = NoId]
        /\ UNCHANGED <<enqueued, peak>>
        /\ \E status \in {"success", "dlq"} : history' = [history EXCEPT ![on[r]] = status]
        /\ Confirm(r) => dead' = dead /\ pc[r] \in {"confirm", "refused"}
        /\ HandleError(r) => dead' = [dead EXCEPT ![on[r]] = @ + 1] /\ pc[r] = "error"
    BY <1>7 DEF Confirm, HandleError, End, Enter, Goto, records
  <2>2. Under(i)' = Under(i) \ {r} /\ Open(i)' = Open(i) \ {r} /\ Stored(i)' = Stored(i) \ {r}
    BY <1>2, <2>1, RunEnds
  <2>3. CASE i # on[r]
    <3>1. r \notin Under(i) /\ r \notin Open(i) /\ r \notin Stored(i)
      BY <2>3 DEF Under, Open, Stored
    <3>2. UNCHANGED <<Under(i), Open(i), Stored(i)>>
      BY <2>2, <3>1
    <3>3. history'[i] = history[i] /\ dead'[i] = dead[i]
      BY <1>2, <1>7, <2>1, <2>3
    <3> QED BY <1>1, <2>1, <3>2, <3>3 DEF Bounded
  <2>4. CASE i = on[r] /\ Confirm(r)
    <3>1. r \notin Open(i)
      BY <2>1, <2>4 DEF Open
    <3>2. Open(i)' = Open(i) /\ history'[i] # "none" /\ dead'[i] = dead[i]
      BY <1>2, <2>1, <2>2, <2>4, <3>1
    <3> QED BY <1>1, <2>1, <3>2 DEF Bounded
  <2>5. CASE i = on[r] /\ HandleError(r)
    <3>1. r \in Open(i)
      BY <1>2, <2>1, <2>5 DEF Open
    <3>2. Cardinality(Open(i)') = Cardinality(Open(i)) - 1
      BY <1>3, <2>2, <3>1, RunSets
    <3>3. history'[i] # "none" /\ dead'[i] = dead[i] + 1
      BY <1>2, <2>1, <2>5, SMTT(90)
    <3> QED BY <1>1, <1>4, <2>1, <3>2, <3>3, SMTT(90) DEF Bounded
  <2> QED BY <1>7, <2>3, <2>4, <2>5
<1> QED BY <1>5, <1>6, <1>7 DEF Step

\* However often a record is submitted, it has at most as many outcomes, in the queue or
\* in the DLQ, as runs of it overlapped (IngestionOrchestrator.ts:87-91).
THEOREM OutcomesCounted == Spec => []OutcomesBounded
<1>1. Init => CountInv
  <2> SUFFICES ASSUME Init, NEW i \in Id PROVE Bounded(i)
    BY DEF CountInv, Bounded
  <2>1. Under(i) = {} /\ Open(i) = {} /\ Stored(i) = {}
    BY PipelineConstants DEF Init, Under, Open, Stored
  <2> QED BY <2>1, FS_EmptySet DEF Init, Bounded
<1>2. TypeOK /\ CountInv /\ [Next]_vars => CountInv'
  <2> SUFFICES ASSUME TypeOK, CountInv, [Next]_vars, NEW i \in Id PROVE Bounded(i)'
    BY DEF CountInv, Bounded
  <2>1. Bounded(i)
    BY DEF CountInv, Bounded
  <2>2. CASE UNCHANGED <<history, pc, on, enqueued, dead, peak>>
    <3>1. UNCHANGED <<Under(i), Open(i), Stored(i)>>
      BY <2>2 DEF Under, Open, Stored
    <3> QED BY <2>1, <2>2, <3>1 DEF Bounded
  <2>3. ASSUME NEW r \in Run, Step(r) \/ \E j \in Id : RunStart(r, j) PROVE Bounded(i)'
    BY <2>3, BoundedRun, BoundedStart
  <2>4. CASE ClearHistory
    <3>1. UNCHANGED <<Under(i), Open(i), Stored(i)>>
      BY <2>4 DEF ClearHistory, Under, Open, Stored
    <3>2. enqueued'[i] = Cardinality(Stored(i)) /\ dead'[i] = 0 /\ peak'[i] = Cardinality(Under(i))
      BY <2>4 DEF ClearHistory, Stored
    <3> QED BY <3>1, <3>2, SetsApart DEF Bounded
  <2>5. (\E j \in Id : Redrive(j)) \/ Dequeue \/ ClearQueues \/ UNCHANGED vars
          => UNCHANGED <<history, pc, on, enqueued, dead, peak>>
    BY DEF Redrive, Dequeue, ClearQueues, vars, records
  <2> QED BY <2>2, <2>3, <2>4, <2>5 DEF Next
<1>3. TypeOK /\ CountInv => OutcomesBounded
  BY SetsApart, SMTT(90) DEF CountInv, OutcomesBounded, TypeOK
<1> QED BY <1>1, <1>2, <1>3, PipelineTyping, PTL DEF Spec
=============================================================================
