--------------------------- MODULE AutonomyProofs ---------------------------
(***************************************************************************)
(* Theorems about what runs for agents: Aperture and its sandboxes, the    *)
(* policies of tasks, the fire drills, and the drift that stops a run.     *)
(***************************************************************************)
EXTENDS Aperture, SandboxEnv, TaskPolicy, FireDrills, TelemetryStitcher, SequenceProofs

-----------------------------------------------------------------------------
(* The call limit of Aperture, for any calls, policies and retries.        *)

Active == {"gate", "create", "inject", "attempt", "racing"}

ApertureTypeOK ==
  /\ policies \in Seq(Definition)
  /\ counted \in Nat
  /\ stage \in [Call -> Active \cup {"idle", "remove", "deregister"}]

\* The calls that have been let through and are not counted yet.
Admissions == {c \in Call : stage[c] \in Active}

\* Every call let through may still be counted: the bound leaves room for all.
RoomForAll == counted + Cardinality(Admissions) =< HighestLimit + Cardinality(Call) - 1

LimitInv == ApertureTypeOK /\ RoomForAll

\* The calls let through are some of the finitely many calls.
LEMMA CallNumbers ==
  /\ Cardinality(Call) \in Nat /\ Cardinality(Admissions) \in Nat
  /\ IsFiniteSet(Admissions) /\ Cardinality(Admissions) =< Cardinality(Call)
<1>1. IsFiniteSet(Call) /\ Admissions \subseteq Call
  BY ApertureAssumption DEF Admissions
<1> QED BY <1>1, FS_Subset, FS_CardinalityType

\* The same calls after a step, which are Call's too.
LEMMA CallNumbersNext ==
  /\ Cardinality(Admissions') \in Nat /\ Cardinality(Admissions') =< Cardinality(Call)
<1>1. IsFiniteSet(Call) /\ Admissions' \subseteq Call
  BY ApertureAssumption DEF Admissions
<1> QED BY <1>1, FS_Subset, FS_CardinalityType

\* Whoever neither enters nor counts leaves the room there is.
LEMMA RoomStays ==
  ASSUME LimitInv, ApertureTypeOK', counted' = counted, Admissions' \subseteq Admissions
  PROVE  LimitInv'
<1>1. Cardinality(Admissions') =< Cardinality(Admissions)
  BY CallNumbers, FS_Subset
<1> QED BY <1>1, CallNumbers, CallNumbersNext, ApertureAssumption, SMTT(90)
        DEF LimitInv, RoomForAll, ApertureTypeOK

\* A call whose adapter answered takes the room that was left for it.
LEMMA RoomTaken ==
  ASSUME LimitInv, ApertureTypeOK', NEW c \in Admissions, counted' \in {counted, counted + 1},
         Admissions' = Admissions \ {c}
  PROVE  LimitInv'
<1>1. Cardinality(Admissions') = Cardinality(Admissions) - 1
  BY CallNumbers, FS_RemoveElement
<1> QED BY <1>1, CallNumbers, CallNumbersNext, ApertureAssumption, SMTT(90)
        DEF LimitInv, RoomForAll, ApertureTypeOK

\* The policy that governs is one of the definitions that were loaded.
LEMMA ElementOfPolicies ==
  ASSUME ApertureTypeOK, policies # <<>>
  PROVE  Governing \in Definition
  BY DEF ApertureTypeOK, Governing, Last

\* The call limit is overrun by fewer calls than there may be in progress,
\* whatever policies are loaded and limits reset between the check and the
\* count (ExecutionOrchestrator.ts:108, 262): a call passes the check only
\* while one more fits, and each of the others can be counted once.
THEOREM Overrun == ApertureSpec => []LimitOverrunBounded
<1>1. ApertureInit => LimitInv
  <2> SUFFICES ASSUME ApertureInit PROVE LimitInv
    OBVIOUS
  <2>1. ApertureTypeOK
    BY DEF ApertureInit, ApertureTypeOK
  <2>2. Admissions = {} /\ counted = 0
    BY DEF ApertureInit, Admissions, Active
  <2> QED BY <2>1, <2>2, CallNumbers, FS_EmptySet, ApertureAssumption DEF LimitInv, RoomForAll
<1>2. LimitInv /\ [ApertureNext]_apertureVars => LimitInv'
  <2> SUFFICES ASSUME LimitInv, [ApertureNext]_apertureVars PROVE LimitInv'
    OBVIOUS
  <2> USE DEF perCall
  <2>1. CASE UNCHANGED <<policies, counted, stage>>
    BY <2>1 DEF LimitInv, ApertureTypeOK, RoomForAll, Admissions
  <2>2. ASSUME NEW d \in Definition, Load(d) PROVE LimitInv'
    <3>1. policies' \in Seq(Definition)
      BY <2>2 DEF Load, LimitInv, ApertureTypeOK
    <3> QED BY <2>2, <3>1 DEF Load, LimitInv, ApertureTypeOK, RoomForAll, Admissions
  <2>3. CASE ResetLimits
    <3>1. ApertureTypeOK' /\ Admissions' = Admissions
      BY <2>3 DEF ResetLimits, LimitInv, ApertureTypeOK, Admissions
    <3> QED BY <2>3, <3>1, CallNumbers, ApertureAssumption
            DEF ResetLimits, LimitInv, ApertureTypeOK, RoomForAll
  <2>4. ASSUME NEW c \in Call, NEW b \in BOOLEAN, Start(c, b) PROVE LimitInv'
    <3>1. ApertureTypeOK'
      BY <2>4 DEF Start, LimitInv, ApertureTypeOK, Active
    <3>2. counted < Governing.calls /\ Governing \in Definition
      BY <2>4, ElementOfPolicies DEF Start, Admitted, LimitInv
    <3>3. counted' = counted
      BY <2>4 DEF Start
    <3> QED BY <3>1, <3>2, <3>3, CallNumbers, CallNumbersNext, ApertureAssumption, SMTT(90)
            DEF LimitInv, ApertureTypeOK, RoomForAll
  <2>5. ASSUME NEW c \in Call, NEW b \in BOOLEAN,
               GateAnswers(c, b) \/ MakeDirectory(c, b) \/ InjectCredentials(c, b) \/ StartAdapter(c)
        PROVE  LimitInv'
    <3>1. stage[c] \in Active /\ counted' = counted
      BY <2>5 DEF GateAnswers, MakeDirectory, InjectCredentials, StartAdapter, Active
    <3>2. ApertureTypeOK' /\ \A d \in Call : d # c => stage'[d] = stage[d]
      BY <2>5
         DEF GateAnswers, MakeDirectory, InjectCredentials, StartAdapter, Active, LimitInv,
         ApertureTypeOK
    <3> QED BY <3>1, <3>2, RoomStays DEF Admissions
  <2>6. ASSUME NEW c \in Call, NEW b \in BOOLEAN, AdapterThrows(c, b) \/ TimerFires(c) PROVE LimitInv'
    <3>1. stage[c] \in Active /\ counted' = counted
      BY <2>6 DEF AdapterThrows, TimerFires, Fail, Active
    <3>2. ApertureTypeOK' /\ \A d \in Call : d # c => stage'[d] = stage[d]
      BY <2>6
         DEF AdapterThrows, TimerFires, Fail, AfterFailure, OwnCleanup, Active, LimitInv,
         ApertureTypeOK
    <3> QED BY <3>1, <3>2, RoomStays DEF Admissions
  <2>7. ASSUME NEW c \in Call, NEW b \in BOOLEAN, NEW u \in BOOLEAN, AdapterAnswers(c, u, b) PROVE LimitInv'
    <3>1. c \in Admissions /\ counted' \in {counted, counted + 1}
      BY <2>7 DEF AdapterAnswers, Active, Admissions
    <3>2. PICK s \in {"idle", "remove"} : stage' = [stage EXCEPT ![c] = s]
      BY <2>7 DEF AdapterAnswers, AfterFailure, OwnCleanup
    <3>3. ApertureTypeOK' /\ Admissions' = Admissions \ {c}
      BY <2>7, <3>1, <3>2 DEF AdapterAnswers, LimitInv, ApertureTypeOK, Admissions, Active
    <3> QED BY <3>1, <3>3, RoomTaken
  <2>8. ASSUME NEW c \in Call, NEW b \in BOOLEAN, RemoveDirectory(c, b) \/ Deregister(c)
        PROVE  LimitInv'
    <3>1. PICK s \in {"idle", "deregister"} : stage' = [stage EXCEPT ![c] = s]
      BY <2>8 DEF RemoveDirectory, Deregister
    <3>2. ApertureTypeOK' /\ Admissions' \subseteq Admissions /\ counted' = counted
      BY <2>8, <3>1 DEF RemoveDirectory, Deregister, LimitInv, ApertureTypeOK, Admissions, Active
    <3> QED BY <3>2, RoomStays
  <2>9. CASE Lend \/ TakeBack \/ CleanupAll
    BY <2>1, <2>9 DEF Lend, TakeBack, CleanupAll
  <2>10. ASSUME NEW c \in Call, NEW b \in BOOLEAN, StragglerEnds(c, b) PROVE LimitInv'
    BY <2>1, <2>10 DEF StragglerEnds
  <2>11. ASSUME NEW c \in Call, NEW b \in BOOLEAN, SweepRemoves(c, b) \/ SweepDeregisters(c) PROVE LimitInv'
    BY <2>1, <2>11 DEF SweepRemoves, SweepDeregisters
  <2>12. CASE UNCHANGED apertureVars
    BY <2>1, <2>12 DEF apertureVars
  <2> QED
    BY <2>2, <2>3, <2>4, <2>5, <2>6, <2>7, <2>8, <2>9, <2>10, <2>11, <2>12 DEF ApertureNext
<1>3. LimitInv => LimitOverrunBounded
  BY CallNumbers, ApertureAssumption DEF LimitInv, ApertureTypeOK, RoomForAll, LimitOverrunBounded
<1> QED
  BY <1>1, <1>2, <1>3, PTL DEF ApertureSpec

-----------------------------------------------------------------------------
(* The sandboxes its calls make.                                           *)

CallStage == {"idle", "gate", "create", "inject", "attempt", "racing", "remove", "deregister"}

CallsTyping ==
  /\ stage \in [Call -> CallStage]
  /\ box \in [Call -> Call \cup {Lent}]
  /\ running \in [Call -> Int]
  /\ sweep \in [Call -> {"none", "remove", "deregister"}]

AtWork(c) == stage[c] \in {"attempt", "racing"}

\* What is registered or on the disk for a call is still to be cleaned up by it, or excused;
\* at its attempts its sandbox is registered and nothing sweeps it, or it is excused.
CallKept(c) ==
  /\ box[c] \in {c, Lent}
  /\ stage[c] \in {"create", "inject"} => box[c] = c
  /\ stage[c] \in {"gate", "create", "inject"} => sweep[c] = "none"
  /\ c \in registered => box[c] = c /\ stage[c] \in {"attempt", "racing", "remove", "deregister"}
  /\ AtWork(c) /\ box[c] = c => c \in excused \/ (c \in registered /\ sweep[c] = "none")
  /\ c \in directory => \/ c \in excused
                        \/ stage[c] = "inject"
                        \/ (AtWork(c) \/ stage[c] = "remove") /\ box[c] = c
  /\ Straggler(c) => c \in excused

CleanInv == CallsTyping /\ \A c \in Call : CallKept(c)

\* A call none of whose state a step touches stays kept.
LEMMA KeptOfOthers ==
  ASSUME NEW d \in Call, CallKept(d),
         stage'[d] = stage[d], box'[d] = box[d], running'[d] = running[d], sweep'[d] = sweep[d],
         d \in registered' <=> d \in registered, d \in directory' <=> d \in directory,
         d \in excused => d \in excused'
  PROVE  CallKept(d)'
BY DEF CallKept, Straggler, AtWork

\* The sandbox a call made is gone when the call is over (ExecutionOrchestrator.ts:240, 269, 337).
THEOREM SandboxesGone == ApertureSpec => []SandboxesCleaned
<1> USE ApertureAssumption DEF perCall
<1>1. ApertureInit => CleanInv
  BY DEF ApertureInit, CleanInv, CallsTyping, CallKept, Straggler, CallStage, AtWork
<1>2. CleanInv /\ [ApertureNext]_apertureVars => CleanInv'
  <2> SUFFICES ASSUME CleanInv, [ApertureNext]_apertureVars PROVE CleanInv'
    OBVIOUS
  <2>1. ASSUME UNCHANGED <<perCall, registered, sweep, directory, excused>> PROVE CleanInv'
    BY <2>1 DEF CleanInv, CallsTyping, CallKept, Straggler, AtWork
  <2>2. ASSUME NEW c \in Call, NEW b \in BOOLEAN, Start(c, b) PROVE CleanInv'
    <3>1. CallsTyping'
      BY <2>2 DEF Start, CleanInv, CallsTyping, CallStage
    <3>2. CallKept(c)'
      BY <2>2 DEF Start, CleanInv, CallsTyping, CallKept, Straggler, AtWork
    <3>3. ASSUME NEW d \in Call, d # c PROVE CallKept(d)'
      BY <2>2, <3>3, KeptOfOthers DEF Start, CleanInv, CallsTyping
    <3> QED BY <3>1, <3>2, <3>3 DEF CleanInv
  <2>3. ASSUME NEW c \in Call, NEW b \in BOOLEAN,
               GateAnswers(c, b) \/ MakeDirectory(c, b) \/ InjectCredentials(c, b)
        PROVE  CleanInv'
    <3>1. CallsTyping'
      BY <2>3 DEF GateAnswers, MakeDirectory, InjectCredentials, CleanInv, CallsTyping, CallStage
    <3>2. CallKept(c)'
      <4>1. CASE GateAnswers(c, b)
        BY <4>1 DEF GateAnswers, CleanInv, CallsTyping, CallKept, Straggler, AtWork
      <4>2. CASE MakeDirectory(c, b)
        BY <4>2 DEF MakeDirectory, CleanInv, CallsTyping, CallKept, Straggler, AtWork
      <4>3. CASE InjectCredentials(c, b)
        BY <4>3 DEF InjectCredentials, CleanInv, CallsTyping, CallKept, Straggler, AtWork
      <4> QED BY <2>3, <4>1, <4>2, <4>3
    <3>3. ASSUME NEW d \in Call, d # c PROVE CallKept(d)'
      BY <2>3, <3>3, KeptOfOthers
         DEF GateAnswers, MakeDirectory, InjectCredentials, CleanInv, CallsTyping
    <3> QED BY <3>1, <3>2, <3>3 DEF CleanInv
  <2>4. ASSUME NEW c \in Call, StartAdapter(c) \/ TimerFires(c) PROVE CleanInv'
    <3>1. CallsTyping'
      BY <2>4
         DEF StartAdapter, TimerFires, Fail, AfterFailure, OwnCleanup, CleanInv, CallsTyping,
         CallStage
    <3>2. CallKept(c)'
      <4>1. CASE StartAdapter(c)
        BY <4>1 DEF StartAdapter, CleanInv, CallsTyping, CallKept, Straggler, AtWork
      <4>2. CASE TimerFires(c)
        BY <4>2
           DEF TimerFires, Fail, AfterFailure, OwnCleanup, CleanInv, CallsTyping, CallKept,
           Straggler, AtWork
      <4> QED BY <2>4, <4>1, <4>2
    <3>3. ASSUME NEW d \in Call, d # c PROVE CallKept(d)'
      BY <2>4, <3>3, KeptOfOthers DEF StartAdapter, TimerFires, Fail, CleanInv, CallsTyping
    <3> QED BY <3>1, <3>2, <3>3 DEF CleanInv
  <2>5. ASSUME NEW c \in Call, NEW undefined \in BOOLEAN, NEW writes \in BOOLEAN,
               AdapterThrows(c, writes) \/ AdapterAnswers(c, undefined, writes)
        PROVE  CleanInv'
    <3>1. CallsTyping'
      BY <2>5 DEF AdapterThrows, AdapterAnswers, Fail, ExecutionEnds, AfterFailure, OwnCleanup,
                  CleanInv, CallsTyping, CallStage
    <3>2. /\ stage[c] = "racing" /\ box' = box /\ registered' = registered /\ sweep' = sweep
          /\ excused' = excused /\ running' = [running EXCEPT ![c] = @ - 1]
          /\ directory' \in {directory, directory \cup ({box[c]} \cap Call)}
      BY <2>5 DEF AdapterThrows, AdapterAnswers, ExecutionEnds
    <3>3. /\ stage'[c] \in {"attempt", "idle", "remove"}
          /\ box[c] = c => (stage'[c] = "idle" => c \notin registered) /\ (stage'[c] = "remove" => c \in registered)
          /\ \A d \in Call : d # c => stage'[d] = stage[d]
      <4>1. CASE AdapterThrows(c, writes)
        BY <4>1 DEF AdapterThrows, Fail, AfterFailure, OwnCleanup, CleanInv, CallsTyping
      <4>2. CASE AdapterAnswers(c, undefined, writes)
        BY <4>2 DEF AdapterAnswers, AfterFailure, OwnCleanup, CleanInv, CallsTyping
      <4> QED BY <2>5, <4>1, <4>2
    <3>4. CallKept(c)
      BY DEF CleanInv
    <3>5. Straggler(c)' => Straggler(c)
      <4>1. running[c] \in Int /\ running'[c] = running[c] - 1 /\ stage'[c] # "racing"
        BY <3>2, <3>3 DEF CleanInv, CallsTyping
      <4> QED BY <3>2, <4>1 DEF Straggler
    <3>6. CallKept(c)'
      <4>1. CASE box[c] = c
        BY <3>2, <3>3, <3>4, <3>5, <4>1 DEF CallKept, AtWork
      <4>2. CASE box[c] = Lent
        <5>1. Lent # c /\ c \notin registered /\ directory' = directory
          BY <3>2, <3>4, <4>2 DEF CallKept
        <5> QED BY <3>2, <3>3, <3>4, <3>5, <4>2, <5>1 DEF CallKept, AtWork
      <4> QED BY <3>4, <4>1, <4>2 DEF CallKept
    <3>7. ASSUME NEW d \in Call, d # c PROVE CallKept(d)'
      <4>1. CallKept(d) /\ box[c] \in {c, Lent} /\ Lent # d
        BY <3>4 DEF CleanInv, CallKept
      <4>2. (d \in directory' <=> d \in directory) /\ running'[d] = running[d]
        BY <3>2, <3>7, <4>1 DEF CleanInv, CallsTyping
      <4> QED BY <3>2, <3>3, <3>7, <4>1, <4>2, KeptOfOthers
    <3> QED BY <3>1, <3>6, <3>7 DEF CleanInv
  <2>6. ASSUME NEW c \in Call, NEW b \in BOOLEAN, StragglerEnds(c, b) PROVE CleanInv'
    <3>1. CallsTyping'
      BY <2>6 DEF StragglerEnds, ExecutionEnds, CleanInv, CallsTyping
    <3>2. CallKept(c)'
      BY <2>6 DEF StragglerEnds, ExecutionEnds, CleanInv, CallsTyping, CallKept, Straggler, AtWork
    <3>3. ASSUME NEW d \in Call, d # c PROVE CallKept(d)'
      BY <2>6, <3>3, KeptOfOthers
         DEF StragglerEnds, ExecutionEnds, CleanInv, CallsTyping, CallKept
    <3> QED BY <3>1, <3>2, <3>3 DEF CleanInv
  <2>7. ASSUME NEW c \in Call, NEW b \in BOOLEAN, RemoveDirectory(c, b) PROVE CleanInv'
    <3>1. CallsTyping'
      BY <2>7 DEF RemoveDirectory, CleanInv, CallsTyping, CallStage
    <3>2. CallKept(c)'
      BY <2>7 DEF RemoveDirectory, CleanInv, CallsTyping, CallKept, Straggler, AtWork
    <3>3. ASSUME NEW d \in Call, d # c PROVE CallKept(d)'
      BY <2>7, <3>3, KeptOfOthers DEF RemoveDirectory, CleanInv, CallsTyping, CallKept
    <3> QED BY <3>1, <3>2, <3>3 DEF CleanInv
  <2>8. ASSUME NEW c \in Call, Deregister(c) PROVE CleanInv'
    <3>1. CallsTyping'
      BY <2>8 DEF Deregister, CleanInv, CallsTyping, CallStage
    <3>2. CallKept(c)'
      BY <2>8 DEF Deregister, CleanInv, CallsTyping, CallKept, Straggler, AtWork
    <3>3. ASSUME NEW d \in Call, d # c PROVE CallKept(d)'
      BY <2>8, <3>3, KeptOfOthers DEF Deregister, CleanInv, CallsTyping, CallKept
    <3> QED BY <3>1, <3>2, <3>3 DEF CleanInv
  <2>9. CASE Lend \/ TakeBack
    BY <2>9 DEF Lend, TakeBack, CleanInv, CallsTyping, CallKept, Straggler, AtWork
  <2>10. CASE CleanupAll
    <3>1. CallsTyping'
      BY <2>10 DEF CleanupAll, CleanInv, CallsTyping
    <3>2. ASSUME NEW c \in Call PROVE CallKept(c)'
      <4>1. CallKept(c)
        BY DEF CleanInv
      <4> QED BY <2>10, <4>1 DEF CleanupAll, CallKept, Straggler, AtWork
    <3> QED BY <3>1, <3>2 DEF CleanInv
  <2>11. ASSUME NEW c \in Call, NEW b \in BOOLEAN, SweepRemoves(c, b) PROVE CleanInv'
    <3>1. CallsTyping'
      BY <2>11 DEF SweepRemoves, CleanInv, CallsTyping
    <3>2. CallKept(c)'
      BY <2>11 DEF SweepRemoves, CleanInv, CallsTyping, CallKept, Straggler, AtWork
    <3>3. ASSUME NEW d \in Call, d # c PROVE CallKept(d)'
      BY <2>11, <3>3, KeptOfOthers DEF SweepRemoves, CleanInv, CallsTyping
    <3> QED BY <3>1, <3>2, <3>3 DEF CleanInv
  <2>12. ASSUME NEW c \in Call, SweepDeregisters(c) PROVE CleanInv'
    <3>1. CallsTyping'
      BY <2>12 DEF SweepDeregisters, CleanInv, CallsTyping
    <3>2. CallKept(c)'
      BY <2>12 DEF SweepDeregisters, CleanInv, CallsTyping, CallKept, Straggler, AtWork
    <3>3. ASSUME NEW d \in Call, d # c PROVE CallKept(d)'
      BY <2>12, <3>3, KeptOfOthers DEF SweepDeregisters, CleanInv, CallsTyping
    <3> QED BY <3>1, <3>2, <3>3 DEF CleanInv
  <2>13. ASSUME NEW d \in Definition, Load(d) PROVE CleanInv'
    BY <2>1, <2>13 DEF Load
  <2> QED
    BY <2>1, <2>2, <2>3, <2>4, <2>5, <2>6, <2>7, <2>8, <2>9, <2>10, <2>11, <2>12, <2>13
       DEF ApertureNext, ResetLimits, apertureVars
<1>3. CleanInv => SandboxesCleaned
  BY DEF CleanInv, CallKept, SandboxesCleaned, AtWork
<1> QED BY <1>1, <1>2, <1>3, PTL DEF ApertureSpec

-----------------------------------------------------------------------------
(* TMPDIR, for any sandboxes.                                              *)

Execution == [sandbox : Sandbox, saved : Sandbox \cup {Home}]

EnvTypeOK ==
  /\ tmpdir \in Sandbox \cup {Home}
  /\ entered \in Seq(Execution)
  /\ unnested \in BOOLEAN

\* What each execution will put back is the directory of the one that entered
\* before it.
SavedChain ==
  \A i \in 1 .. Len(entered) :
    entered[i].saved = IF i = 1 THEN Home ELSE entered[i - 1].sandbox

EnvInv == EnvTypeOK /\ (~ unnested => SavedChain /\ TmpdirNests)

\* A sequence without its last element.
LEMMA RemoveLast ==
  ASSUME NEW S, NEW s \in Seq(S), s # <<>>
  PROVE  /\ RemoveAt(s, Len(s)) \in Seq(S)
         /\ Len(RemoveAt(s, Len(s))) = Len(s) - 1
         /\ \A k \in 1 .. Len(s) - 1 : RemoveAt(s, Len(s))[k] = s[k]
<1>1. PICK n \in Nat : Len(s) = n + 1
  <2>1. Len(s) \in Nat \ {0}
    BY EmptySeq
  <2> QED BY <2>1
<1> DEFINE t == SubSeq(s, 1, n)
           u == SubSeq(s, n + 2, n + 1)
<1>2. t \in Seq(S) /\ Len(t) = n /\ \A k \in 1 .. n : t[k] = s[k]
  <2>1. \A i \in 1 .. n : s[i] \in S
    BY <1>1
  <2>2. /\ t \in Seq(S)
        /\ Len(t) = IF 1 <= n THEN n - 1 + 1 ELSE 0
        /\ \A k \in 1 .. n - 1 + 1 : t[k] = s[1 + k - 1]
    BY <2>1, SubSeqProperties
  <2> QED BY <2>2
<1>3. u = <<>>
  BY SubSeqEmpty
<1>4. RemoveAt(s, Len(s)) = t \o u
  BY <1>1 DEF RemoveAt
<1>5. RemoveAt(s, Len(s)) = t
  BY <1>2, <1>3, <1>4, ConcatEmptySeq
<1> QED BY <1>1, <1>2, <1>5

\* A sequence without one of its elements is one of the same set.
LEMMA RemoveAtType ==
  ASSUME NEW S, NEW s \in Seq(S), NEW i \in 1 .. Len(s)
  PROVE  RemoveAt(s, i) \in Seq(S)
<1>1. SubSeq(s, 1, i - 1) \in Seq(S)
  BY Z3
<1>2. SubSeq(s, i + 1, Len(s)) \in Seq(S)
  BY Z3
<1> QED BY <1>1, <1>2 DEF RemoveAt

\* Executions that nest leave every sandbox with its own TMPDIR, however many
\* sandboxes overlap (SandboxRuntime.ts:146-158): the directory one execution
\* puts back is that of the execution below it.
THEOREM Nesting == EnvSpec => []TmpdirNests
<1>1. EnvInit => EnvInv
  <2> SUFFICES ASSUME EnvInit PROVE EnvInv
    OBVIOUS
  <2>1. EnvTypeOK
    <3>1. <<>> \in Seq(Execution)
      OBVIOUS
    <3>2. FALSE \in BOOLEAN
      OBVIOUS
    <3> QED BY <3>1, <3>2, Zenon DEF EnvInit, EnvTypeOK
  <2>2. SavedChain
    BY DEF EnvInit, SavedChain
  <2>3. TmpdirNests
    BY Zenon DEF EnvInit, TmpdirNests
  <2> QED BY <2>1, <2>2, <2>3 DEF EnvInv
<1>2. EnvInv /\ [EnvNext]_envVars => EnvInv'
  <2> SUFFICES ASSUME EnvInv, [EnvNext]_envVars PROVE EnvInv'
    OBVIOUS
  <2>1. CASE UNCHANGED envVars
    BY <2>1 DEF envVars, EnvInv, EnvTypeOK, SavedChain, TmpdirNests
  <2>2. ASSUME NEW s \in Sandbox, Enter(s) PROVE EnvInv'
    <3> DEFINE e == [sandbox |-> s, saved |-> tmpdir]
    <3>1. e \in Execution /\ entered' = Append(entered, e)
      BY <2>2 DEF EnvInv, EnvTypeOK, Execution, Enter
    <3>2. EnvTypeOK'
      BY <2>2, <3>1 DEF EnvInv, EnvTypeOK, Enter
    <3>3. ASSUME ~ unnested PROVE SavedChain' /\ TmpdirNests'
      <4>1. Len(entered') = Len(entered) + 1 /\ entered'[Len(entered')] = e
        BY <3>1 DEF EnvInv, EnvTypeOK
      <4>2. \A i \in 1 .. Len(entered) : entered'[i] = entered[i]
        BY <3>1 DEF EnvInv, EnvTypeOK
      <4>3. e.saved = IF entered = <<>> THEN Home ELSE entered[Len(entered)].sandbox
        BY <3>3 DEF EnvInv, TmpdirNests, Last
      <4>4. SavedChain'
        <5>1. Len(entered) \in Nat /\ (entered = <<>> <=> Len(entered) = 0)
          BY EmptySeq DEF EnvInv, EnvTypeOK
        <5>2. \A j \in 1 .. Len(entered) :
                entered[j].saved = IF j = 1 THEN Home ELSE entered[j - 1].sandbox
          BY <3>3, Zenon DEF EnvInv, SavedChain
        <5>3. ASSUME NEW j \in 1 .. Len(entered')
              PROVE  entered'[j].saved = IF j = 1 THEN Home ELSE entered'[j - 1].sandbox
          <6>1. CASE j = Len(entered')
            <7>1. j = 1 <=> entered = <<>>
              BY ONLY <4>1, <5>1, <6>1
            <7>2. j # 1 => entered'[j - 1] = entered[Len(entered)]
              BY ONLY <4>1, <4>2, <5>1, <5>3, <6>1
            <7>3. entered'[j].saved = e.saved
              BY ONLY <4>1, <6>1
            <7> QED BY ONLY <4>3, <7>1, <7>2, <7>3
          <6>2. CASE j # Len(entered')
            <7>1. j \in 1 .. Len(entered) /\ (j # 1 => j - 1 \in 1 .. Len(entered))
              BY ONLY <4>1, <5>1, <5>3, <6>2
            <7>2. entered'[j] = entered[j] /\ (j # 1 => entered'[j - 1] = entered[j - 1])
              BY ONLY <4>2, <7>1
            <7> QED BY ONLY <5>2, <7>1, <7>2
          <6> QED BY ONLY <6>1, <6>2
        <5> QED BY <5>3, Zenon DEF SavedChain
      <4>5. TmpdirNests'
        BY <2>2, <4>1 DEF Enter, TmpdirNests, Last
      <4> QED BY <4>4, <4>5
    <3> QED BY <2>2, <3>2, <3>3 DEF EnvInv, Enter
  <2>3. ASSUME NEW i \in DOMAIN entered, Leave(i) PROVE EnvInv'
    <3>1. i \in 1 .. Len(entered) /\ entered[i] \in Execution
      BY DEF EnvInv, EnvTypeOK
    <3>2. EnvTypeOK'
      BY <2>3, <3>1, RemoveAtType DEF EnvInv, EnvTypeOK, Leave, Execution
    <3>3. ASSUME ~ unnested' PROVE SavedChain' /\ TmpdirNests'
      <4>1. ~ unnested /\ i = Len(entered) /\ entered # <<>>
        <5>1. ~ unnested /\ ~ (i # Len(entered))
          BY <2>3, <3>3, Zenon DEF Leave
        <5> QED BY <3>1, <5>1
      <4>2. /\ entered' = RemoveAt(entered, Len(entered))
            /\ tmpdir' = entered[Len(entered)].saved
        BY <2>3, <4>1 DEF Leave
      <4>3. /\ Len(entered') = Len(entered) - 1
            /\ \A k \in 1 .. Len(entered) - 1 : entered'[k] = entered[k]
        BY <4>1, <4>2, RemoveLast DEF EnvInv, EnvTypeOK
      <4>4. SavedChain'
        <5>1. Len(entered) \in Nat
          BY DEF EnvInv, EnvTypeOK
        <5>2. \A j \in 1 .. Len(entered) :
                entered[j].saved = IF j = 1 THEN Home ELSE entered[j - 1].sandbox
          BY <4>1, Zenon DEF EnvInv, SavedChain
        <5>3. ASSUME NEW j \in 1 .. Len(entered')
              PROVE  entered'[j].saved = IF j = 1 THEN Home ELSE entered'[j - 1].sandbox
          <6>1. /\ j \in 1 .. Len(entered)
                /\ j \in 1 .. Len(entered) - 1
                /\ j # 1 => j - 1 \in 1 .. Len(entered) - 1
            BY ONLY <4>3, <5>1, <5>3
          <6>2. entered'[j] = entered[j] /\ (j # 1 => entered'[j - 1] = entered[j - 1])
            BY ONLY <4>3, <6>1
          <6> QED BY ONLY <5>2, <6>1, <6>2
        <5> QED BY <5>3, Zenon DEF SavedChain
      <4>5. tmpdir' = IF Len(entered) = 1 THEN Home ELSE entered[Len(entered) - 1].sandbox
        BY <3>1, <4>1, <4>2 DEF EnvInv, SavedChain
      <4>6. entered' = <<>> <=> Len(entered) = 1
        BY <3>1, <3>2, <4>3, SMTT(90) DEF EnvTypeOK
      <4>7. Len(entered) # 1 => Last(entered') = entered[Len(entered) - 1]
        BY <3>1, <4>1, <4>3 DEF EnvInv, EnvTypeOK, Last
      <4> QED BY <4>4, <4>5, <4>6, <4>7 DEF TmpdirNests
    <3> QED BY <3>2, <3>3 DEF EnvInv
  <2> QED BY <2>1, <2>2, <2>3 DEF EnvNext
<1>3. EnvInv => TmpdirNests
  BY DEF EnvInv, TmpdirNests
<1> QED
  BY <1>1, <1>2, <1>3, PTL DEF EnvSpec

-----------------------------------------------------------------------------
(* The policies, for any tasks and contexts.                               *)

ToolAnswer == [tool : Tool, allowed : BOOLEAN]
ExecutionStatus == {"none", "RUNNING", "SUCCESS", "FAILURE", "PARTIAL_FAILURE"}
Governor  == [context : Context \cup {NoContext}, calls : SUBSET ToolAnswer,
           shared : BOOLEAN, renewed : BOOLEAN]

PolicyTypeOK ==
  /\ contexts \in [Task -> TaskContext \cup {NoContext}]
  /\ current \in Context \cup {NoContext}
  /\ executions \in [Task -> [status : ExecutionStatus, calls : SUBSET ToolAnswer]]
  /\ agents \in [Task -> Governor]

\* The agent of task t is governed by the context it was started with.
GovernedAs(agent, t, held, records, now) ==
  /\ agent.context.task = t /\ ValidateContext(agent.context)
  /\ ~ agent.renewed => /\ held[t] = MergeContextWithSettings(agent.context)
                        /\ records[t].status # "none"
  /\ ~ agent.shared => now = agent.context

\* While the context of a task that runs stands, it is the one the task was started with,
\* and there is a record; while no other task has started or ended, it is the current one.
Governed ==
  \A t \in Task : Running(t) => GovernedAs(agents[t], t, contexts, executions, current)

PolicyInv == PolicyTypeOK /\ Governed /\ OwnPolicyDecides

\* The defaults of the settings change no answer about a context that is valid
\* (ExecutionPolicy.ts:210-251).
LEMMA DefaultsChangeNothing ==
  ASSUME NEW x \in Context
  PROVE  /\ MergeContextWithSettings(x) \in TaskContext
         /\ MergeContextWithSettings(x).task = x.task
         /\ ValidateContext(x) => \A tool \in Tool :
              IsToolAllowed(tool, MergeContextWithSettings(x)) <=> IsToolAllowed(tool, x)
<1>1. x \in TaskContext
  BY PolicyConstants, SMTT(90)
<1> DEFINE y == MergeContextWithSettings(x)
<1>2. /\ y \in TaskContext
      /\ y.task = x.task /\ y.mode = x.mode /\ (x.preapproved # {} => y.preapproved = x.preapproved)
  BY <1>1, PolicyConstants, ZenonT(90) DEF MergeContextWithSettings, TaskContext, GetModeSettings
<1> HIDE DEF y
<1>3. ValidateContext(x) => \A tool \in Tool : IsToolAllowed(tool, y) <=> IsToolAllowed(tool, x)
  BY <1>2 DEF IsToolAllowed, ValidateContext
<1> QED BY <1>2, <1>3 DEF y

\* What an agent is after one of its marks is set.
LEMMA SharedMark ==
  ASSUME NEW a \in Governor, NEW b \in BOOLEAN, NEW e, e = [a EXCEPT !.shared = b]
  PROVE  /\ e \in Governor /\ e.context = a.context /\ e.calls = a.calls
         /\ e.shared = b /\ e.renewed = a.renewed
  BY DEF Governor

\* The same of the second mark.
LEMMA RenewedMark ==
  ASSUME NEW a \in Governor, NEW b \in BOOLEAN, NEW e, e = [a EXCEPT !.renewed = b]
  PROVE  /\ e \in Governor /\ e.context = a.context /\ e.calls = a.calls
         /\ e.renewed = b /\ e.shared = a.shared
  BY DEF Governor

\* The same of a call that is recorded.
LEMMA CallMark ==
  ASSUME NEW a \in Governor, NEW answer \in ToolAnswer, NEW e, e = [a EXCEPT !.calls = @ \cup {answer}]
  PROVE  /\ e \in Governor /\ e.context = a.context /\ e.calls = a.calls \cup {answer}
         /\ e.renewed = a.renewed /\ e.shared = a.shared
  BY DEF Governor

\* Whether each task runs, as a function.
LEMMA RunningMarks ==
  \E f \in [Task -> BOOLEAN] : \A t \in Task : f[t] = Running(t)
<1>1. [t \in Task |-> Running(t)] \in [Task -> BOOLEAN]
  BY DEF Running
<1> QED BY <1>1

\* A registration replaces the context of its task, and marks the agent of it.
LEMMA RegisterKeeps ==
  ASSUME PolicyInv, NEW x \in Context, RegisterTask(x) PROVE PolicyInv'
<1> USE DEF PolicyInv, PolicyTypeOK, ExecutionStatus
<1>1. x.task \in Task /\ MergeContextWithSettings(x) \in TaskContext
  BY DefaultsChangeNothing, PolicyConstants DEF TaskContext
<1>2. PICK f \in [Task -> BOOLEAN] : \A t \in Task : f[t] = Running(t)
  BY RunningMarks
<1>3. /\ agents' = [agents EXCEPT ![x.task] = [agents[x.task] EXCEPT !.renewed = f[x.task]]]
      /\ contexts' = [contexts EXCEPT ![x.task] = MergeContextWithSettings(x)]
      /\ UNCHANGED <<current, executions>>
  BY <1>1, <1>2 DEF RegisterTask
<1>4. \A t \in Task : agents[t] \in Governor /\ f[t] \in BOOLEAN
  OBVIOUS
<1>5. /\ agents'[x.task] \in Governor
      /\ agents'[x.task].context = agents[x.task].context
      /\ agents'[x.task].calls = agents[x.task].calls
      /\ agents'[x.task].renewed = f[x.task] /\ agents'[x.task].shared = agents[x.task].shared
  <2>1. agents'[x.task] = [agents[x.task] EXCEPT !.renewed = f[x.task]]
    BY <1>1, <1>3
  <2> QED BY <1>1, <1>4, <2>1, RenewedMark
<1>6. ASSUME NEW t \in Task
      PROVE  /\ agents'[t] \in Governor
             /\ agents'[t].context = agents[t].context /\ agents'[t].calls = agents[t].calls
             /\ agents'[t].shared = agents[t].shared
             /\ agents'[t].renewed = IF t = x.task THEN f[t] ELSE agents[t].renewed
             /\ t # x.task => contexts'[t] = contexts[t]
  <2>1. CASE t = x.task
    BY <1>5, <2>1
  <2>2. CASE t # x.task
    <3>1. agents'[t] = agents[t] /\ contexts'[t] = contexts[t]
      BY <1>1, <1>3, <2>2
    <3> QED BY <1>4, <2>2, <3>1
  <2> QED BY <2>1, <2>2
<1>7. \A t \in Task : Running(t)' <=> Running(t)
  BY <1>6 DEF Running
<1>8. \A t \in Task : Running(t) /\ ~ agents'[t].renewed => contexts'[t] = contexts[t] /\ ~ agents[t].renewed
  BY <1>2, <1>6
<1>9. PolicyTypeOK'
  <2>1. agents' \in [Task -> Governor]
    BY <1>3, <1>6
  <2> QED BY <1>1, <1>3, <2>1
<1>10. Governed'
  <2> SUFFICES ASSUME NEW t \in Task, Running(t)' PROVE GovernedAs(agents'[t], t, contexts', executions', current')
    BY DEF Governed
  <2>1. GovernedAs(agents[t], t, contexts, executions, current)
    BY <1>7, SMTT(90) DEF Governed
  <2> QED BY <1>3, <1>6, <1>7, <1>8, <2>1 DEF GovernedAs
<1>11. OwnPolicyDecides'
  BY <1>3, <1>6, <1>7, <1>8 DEF OwnPolicyDecides, IsToolAllowed
<1> QED BY <1>10, <1>9, <1>11

\* A start gives one agent its context, and tells the others that they share.
LEMMA StartKeeps ==
  ASSUME PolicyInv, NEW x \in Context, StartTask(x) PROVE PolicyInv'
<1> USE DEF PolicyInv, PolicyTypeOK, ExecutionStatus
<1>1. x.task \in Task /\ x \in TaskContext /\ MergeContextWithSettings(x) \in TaskContext
  BY DefaultsChangeNothing, PolicyConstants DEF TaskContext
<1>2. PICK f \in [Task -> BOOLEAN] : \A t \in Task : f[t] = Running(t)
  BY RunningMarks
<1> DEFINE started == [NoAgent EXCEPT !.context = x]
<1>3. /\ agents' = [t \in Task |-> IF t = x.task THEN started ELSE [agents[t] EXCEPT !.shared = f[t]]]
      /\ contexts' = [contexts EXCEPT ![x.task] = MergeContextWithSettings(x)]
      /\ executions' = [executions EXCEPT ![x.task] = [status |-> "RUNNING", calls |-> {}]]
      /\ current' = x /\ ValidateContext(x)
  BY <1>2 DEF StartTask
<1>4. \A t \in Task : agents[t] \in Governor /\ f[t] \in BOOLEAN
  OBVIOUS
<1>5. /\ started \in Governor /\ started.context = x /\ started.calls = {}
      /\ ~ started.shared /\ ~ started.renewed
  BY DEF NoAgent, Governor
<1> HIDE DEF started
<1>6. agents' \in [Task -> Governor]
  <2>1. ASSUME NEW t \in Task PROVE agents'[t] \in Governor
    <3>1. CASE t = x.task
      BY <1>3, <1>5, <3>1
    <3>2. CASE t # x.task
      <4>1. agents'[t] = [agents[t] EXCEPT !.shared = f[t]]
        BY <1>3, <3>2
      <4> QED BY <1>4, <4>1, SharedMark
    <3> QED BY <3>1, <3>2
  <2> QED BY <1>3, <2>1, SMTT(90)
<1>7. PolicyTypeOK'
  <2>1. executions' \in [Task -> [status : ExecutionStatus, calls : SUBSET ToolAnswer]]
    BY <1>1, <1>3
  <2>2. contexts' \in [Task -> TaskContext \cup {NoContext}] /\ current' \in Context \cup {NoContext}
    BY <1>1, <1>3
  <2> QED BY <1>6, <2>1, <2>2
<1>8. ASSUME NEW t \in Task, t # x.task
      PROVE  /\ agents'[t].context = agents[t].context /\ agents'[t].calls = agents[t].calls
             /\ agents'[t].shared = f[t] /\ agents'[t].renewed = agents[t].renewed
             /\ contexts'[t] = contexts[t] /\ executions'[t] = executions[t]
  <2>1. agents'[t] = [agents[t] EXCEPT !.shared = f[t]]
    BY <1>3, <1>8
  <2>2. contexts'[t] = contexts[t] /\ executions'[t] = executions[t]
    BY <1>1, <1>3, <1>8, SMTT(90)
  <2> QED BY <1>4, <2>1, <2>2, SharedMark
<1>9. \A t \in Task : t # x.task => (Running(t)' <=> Running(t))
  BY <1>8 DEF Running
<1>10. /\ agents'[x.task] = started /\ contexts'[x.task] = MergeContextWithSettings(x)
       /\ executions'[x.task].status = "RUNNING"
  BY <1>1, <1>3
<1>11. Governed'
  <2> SUFFICES ASSUME NEW t \in Task, Running(t)' PROVE GovernedAs(agents'[t], t, contexts', executions', current')
    BY DEF Governed
  <2>1. CASE t = x.task
    BY <1>3, <1>5, <1>10, <2>1, SMTT(90) DEF GovernedAs
  <2>2. CASE t # x.task
    <3>1. GovernedAs(agents[t], t, contexts, executions, current) /\ f[t] = TRUE
      BY <1>2, <1>9, <2>2, SMTT(90) DEF Governed
    <3> QED BY <1>8, <2>2, <3>1 DEF GovernedAs
  <2> QED BY <2>1, <2>2, SMTT(90)
<1>12. OwnPolicyDecides'
  BY <1>3, <1>5, <1>8, <1>9, <1>10, SMTT(90) DEF OwnPolicyDecides, IsToolAllowed
<1> QED BY <1>7, <1>11, <1>12

\* An end takes the current context away, from whomever it is.
LEMMA EndKeeps ==
  ASSUME PolicyInv, NEW u \in Task, NEW status \in {"SUCCESS", "FAILURE", "PARTIAL_FAILURE"},
         EndTask(u, status)
  PROVE  PolicyInv'
<1> USE DEF PolicyInv, PolicyTypeOK, ExecutionStatus
<1>1. PICK f \in [Task -> BOOLEAN] : \A t \in Task : f[t] = Running(t)
  BY RunningMarks
<1>2. /\ agents' = [t \in Task |-> IF t = u THEN NoAgent ELSE [agents[t] EXCEPT !.shared = f[t]]]
      /\ contexts' = contexts /\ current' = NoContext
  BY <1>1 DEF EndTask
<1>3. /\ NoAgent \in Governor /\ NoAgent.context = NoContext
      /\ \A t \in Task : agents[t] \in Governor /\ f[t] \in BOOLEAN
  BY DEF NoAgent, Governor
<1>4. agents' \in [Task -> Governor]
  <2>1. ASSUME NEW t \in Task PROVE agents'[t] \in Governor
    <3>1. CASE t = u
      BY <1>2, <1>3, <3>1
    <3>2. CASE t # u
      <4>1. agents'[t] = [agents[t] EXCEPT !.shared = f[t]]
        BY <1>2, <3>2
      <4> QED BY <1>3, <4>1, SharedMark
    <3> QED BY <3>1, <3>2
  <2> QED BY <1>2, <2>1
<1>5. /\ executions' \in [Task -> [status : ExecutionStatus, calls : SUBSET ToolAnswer]]
      /\ \A t \in Task : /\ executions'[t].calls = executions[t].calls
                         /\ executions[t].status # "none" => executions'[t].status # "none"
  <2>1. CASE executions[u] = NoRecord
    BY <2>1 DEF EndTask
  <2>2. CASE executions[u] # NoRecord
    <3>1. executions' = [executions EXCEPT ![u].status = status]
      BY <2>2 DEF EndTask
    <3> QED BY <3>1
  <2> QED BY <2>1, <2>2
<1>6. PolicyTypeOK'
  BY <1>2, <1>4, <1>5
<1>7. ~ Running(u)'
  BY <1>2, <1>3 DEF Running
<1>8. ASSUME NEW t \in Task, t # u
      PROVE  /\ agents'[t].context = agents[t].context /\ agents'[t].calls = agents[t].calls
             /\ agents'[t].shared = f[t] /\ agents'[t].renewed = agents[t].renewed
  <2>1. agents'[t] = [agents[t] EXCEPT !.shared = f[t]]
    BY <1>2, <1>8
  <2> QED BY <1>3, <2>1, SharedMark
<1>9. \A t \in Task : Running(t)' => t # u /\ Running(t)
  BY <1>7, <1>8 DEF Running
<1>10. Governed'
  <2> SUFFICES ASSUME NEW t \in Task, Running(t)' PROVE GovernedAs(agents'[t], t, contexts', executions', current')
    BY DEF Governed
  <2>1. GovernedAs(agents[t], t, contexts, executions, current) /\ f[t] = TRUE /\ t # u
    BY <1>1, <1>9 DEF Governed
  <2> QED BY <1>2, <1>5, <1>8, <2>1, ZenonT(90) DEF GovernedAs
<1>11. OwnPolicyDecides'
  BY <1>5, <1>8, <1>9, ZenonT(90) DEF OwnPolicyDecides, IsToolAllowed
<1> QED BY <1>6, <1>10, <1>11

\* The policy says yes or no.
LEMMA Verdict ==
  ASSUME NEW tool \in Tool, NEW x
  PROVE  \E b \in BOOLEAN : /\ b = IsToolAllowed(tool, x)
                           /\ [tool |-> tool, allowed |-> b] \in ToolAnswer
<1>1. \A b \in BOOLEAN : [tool |-> tool, allowed |-> b] \in ToolAnswer
  BY DEF ToolAnswer
<1>2. IsToolAllowed(tool, x) \in BOOLEAN
  BY DEF IsToolAllowed
<1> QED BY <1>1, <1>2, Zenon

\* Judging a call adds to one record at most, and gives no record up.
LEMMA RecordGrows ==
  ASSUME PolicyTypeOK, NEW x \in TaskContext, NEW tool \in Tool
  PROVE  /\ Record(x, tool) \in [Task -> [status : ExecutionStatus, calls : SUBSET ToolAnswer]]
         /\ \A t \in Task : /\ executions[t].calls \subseteq Record(x, tool)[t].calls
                            /\ executions[t].status # "none" => Record(x, tool)[t].status # "none"
         /\ executions[x.task].status # "none" =>
              [tool |-> tool, allowed |-> IsToolAllowed(tool, x)] \in Record(x, tool)[x.task].calls
<1> USE DEF PolicyTypeOK, ExecutionStatus
<1>1. x.task \in Task
  BY DEF TaskContext
<1>2. CASE executions[x.task] = NoRecord
  BY <1>1, <1>2 DEF Record, NoRecord
<1>3. CASE executions[x.task] # NoRecord
  <2>1. PICK b \in BOOLEAN : b = IsToolAllowed(tool, x) /\ [tool |-> tool, allowed |-> b] \in ToolAnswer
    BY Verdict
  <2> DEFINE answer == [tool |-> tool, allowed |-> b]
  <2>2. PICK status \in {"FAILURE", executions[x.task].status} :
          Record(x, tool) = [executions EXCEPT ![x.task] =
            [status |-> status, calls |-> executions[x.task].calls \cup {answer}]]
    BY <1>3, <2>1 DEF Record
  <2> QED BY <1>1, <2>1, <2>2
<1> QED BY <1>2, <1>3

\* A call is answered by the context that stands, and recorded with its answer.
LEMMA CheckKeeps ==
  ASSUME PolicyInv, NEW u \in Task, NEW tool \in Tool, NEW named \in BOOLEAN,
         CheckToolCall(u, tool, named)
  PROVE  PolicyInv'
<1> USE DEF PolicyInv, PolicyTypeOK, ExecutionStatus
<1> DEFINE x == Judge(u, named)
           own == ~ agents[u].renewed /\ (named \/ ~ agents[u].shared)
<1>1. x \in TaskContext \cup {NoContext} /\ Running(u)
  BY PolicyConstants DEF Judge, CheckToolCall
<1>2. /\ executions' \in [Task -> [status : ExecutionStatus, calls : SUBSET ToolAnswer]]
      /\ \A t \in Task : /\ executions[t].calls \subseteq executions'[t].calls
                         /\ executions[t].status # "none" => executions'[t].status # "none"
  <2>1. CASE x = NoContext
    BY <2>1 DEF CheckToolCall
  <2>2. CASE x # NoContext
    BY <1>1, <2>2, RecordGrows, ZenonT(90) DEF CheckToolCall
  <2> QED BY <2>1, <2>2
<1>3. contexts' = contexts /\ current' = current
  BY DEF CheckToolCall
<1>4. CASE own
  <2> DEFINE own_context == agents[u].context
  <2>1. /\ GovernedAs(agents[u], u, contexts, executions, current)
        /\ own_context \in Context /\ own_context.task = u
    BY <1>1 DEF Governed, GovernedAs, Running, Governor
  <2>2. /\ x \in {own_context, MergeContextWithSettings(own_context)}
        /\ executions[u].status # "none" /\ ValidateContext(own_context)
    BY <1>4, <2>1 DEF GovernedAs, Judge
  <2>3. x \in TaskContext /\ x # NoContext /\ x.task = u
    BY <2>1, <2>2, DefaultsChangeNothing, PolicyConstants
  <2>4. IsToolAllowed(tool, x) <=> IsToolAllowed(tool, own_context)
    BY <2>1, <2>2, DefaultsChangeNothing
  <2>5. PICK b \in BOOLEAN : b = IsToolAllowed(tool, x) /\ [tool |-> tool, allowed |-> b] \in ToolAnswer
    BY Verdict
  <2> DEFINE answer == [tool |-> tool, allowed |-> b]
  <2>6. agents' = [agents EXCEPT ![u].calls = @ \cup {answer}]
    <3>1. b = (x = NoContext \/ IsToolAllowed(tool, x))
      BY <2>3, <2>5
    <3> QED BY <1>4, <3>1 DEF CheckToolCall
  <2>7. answer \in executions'[u].calls
    BY <2>2, <2>3, <2>5, RecordGrows DEF CheckToolCall
  <2>8. answer.tool = tool /\ (answer.allowed <=> IsToolAllowed(tool, own_context))
    BY <2>4, <2>5
  <2>9. answer \in ToolAnswer
    BY <2>5
  <2> HIDE DEF answer
  <2>10. agents[u] \in Governor /\ agents'[u] = [agents[u] EXCEPT !.calls = @ \cup {answer}]
    BY <2>6
  <2>11. /\ agents'[u] \in Governor /\ agents'[u].calls = agents[u].calls \cup {answer}
         /\ agents'[u].context = agents[u].context
         /\ agents'[u].shared = agents[u].shared /\ agents'[u].renewed = agents[u].renewed
    BY ONLY <2>10, <2>9, CallMark
  <2>12. \A t \in Task \ {u} : agents'[t] = agents[t]
    BY <2>6
  <2>13. agents' \in [Task -> Governor] /\ \A t \in Task :
          /\ agents'[t].context = agents[t].context
          /\ agents'[t].shared = agents[t].shared /\ agents'[t].renewed = agents[t].renewed
          /\ agents'[t].calls = IF t = u THEN agents[t].calls \cup {answer} ELSE agents[t].calls
    BY <2>6, <2>11, <2>12
  <2>14. \A t \in Task : Running(t)' <=> Running(t)
    BY <2>13 DEF Running
  <2>15. Governed'
    <3> SUFFICES ASSUME NEW t \in Task, Running(t)' PROVE GovernedAs(agents'[t], t, contexts', executions', current')
      BY DEF Governed
    <3> QED BY <1>2, <1>3, <2>13, <2>14, ZenonT(90) DEF Governed, GovernedAs
  <2>16. OwnPolicyDecides'
    <3> SUFFICES ASSUME NEW t \in Task, Running(t)'
                 PROVE  /\ \A call \in agents'[t].calls :
                             call.allowed <=> IsToolAllowed(call.tool, agents'[t].context)
                        /\ agents'[t].renewed \/ agents'[t].calls \subseteq executions'[t].calls
      BY DEF OwnPolicyDecides, IsToolAllowed
    <3>1. /\ \A call \in agents[t].calls : call.allowed <=> IsToolAllowed(call.tool, agents[t].context)
          /\ agents[t].renewed \/ agents[t].calls \subseteq executions[t].calls
      BY <2>14 DEF OwnPolicyDecides
    <3>2. ASSUME NEW call \in agents'[t].calls
          PROVE  call.allowed <=> IsToolAllowed(call.tool, agents'[t].context)
      <4>1. agents'[t].context = agents[t].context
        BY <2>13
      <4>2. CASE call \in agents[t].calls
        BY <3>1, <4>1, <4>2
      <4>3. CASE call \notin agents[t].calls
        <5>1. t = u /\ call = answer
          BY <2>13, <3>2, <4>3, ZenonT(90)
        <5> HIDE DEF own_context
        <5>2. own_context = agents[u].context
          BY DEF own_context
        <5> QED BY <2>8, <4>1, <5>1, <5>2
      <4> QED BY <4>2, <4>3
    <3>3. agents'[t].renewed \/ agents'[t].calls \subseteq executions'[t].calls
      <4>1. agents[t].calls \subseteq executions[t].calls => agents'[t].calls \subseteq executions'[t].calls
        BY <1>2, <2>7, <2>13, ZenonT(90)
      <4>2. agents'[t].renewed = agents[t].renewed
        BY <2>13
      <4> QED BY <3>1, <4>1, <4>2, Zenon
    <3> QED BY <3>2, <3>3
  <2> QED BY <1>2, <1>3, <2>13, <2>15, <2>16
<1>5. CASE ~ own
  <2>1. agents' = agents
    BY <1>5 DEF CheckToolCall
  <2>2. Governed'
    BY <1>2, <1>3, <2>1 DEF Governed, GovernedAs, Running
  <2>3. OwnPolicyDecides'
    BY <1>2, <2>1 DEF OwnPolicyDecides, Running
  <2> QED BY <1>2, <1>3, <2>1, <2>2, <2>3
<1> QED BY <1>4, <1>5

\* Old records go with the contexts, and the agents that run know it.
LEMMA ClearKeeps ==
  ASSUME PolicyInv, ClearOldExecutions PROVE PolicyInv'
<1> USE DEF PolicyInv, PolicyTypeOK, ExecutionStatus
<1>1. PICK f \in [Task -> BOOLEAN] : \A t \in Task : f[t] = Running(t)
  BY RunningMarks
<1> DEFINE old == {t \in Task : executions[t].status \notin {"none", "RUNNING"}}
<1>2. /\ executions' = [t \in Task |-> IF t \in old THEN NoRecord ELSE executions[t]]
      /\ contexts' = [t \in Task |-> IF t \in old THEN NoContext ELSE contexts[t]]
      /\ agents' = [t \in Task |-> IF t \in old THEN [agents[t] EXCEPT !.renewed = f[t]] ELSE agents[t]]
      /\ current' = current
  BY <1>1 DEF ClearOldExecutions
<1>3. \A t \in Task : agents[t] \in Governor /\ f[t] \in BOOLEAN
  OBVIOUS
<1>4. NoRecord \in [status : ExecutionStatus, calls : SUBSET ToolAnswer]
  BY DEF NoRecord
<1> HIDE DEF old
<1>5. ASSUME NEW t \in Task
      PROVE  /\ agents'[t] \in Governor
             /\ agents'[t].context = agents[t].context /\ agents'[t].calls = agents[t].calls
             /\ agents'[t].shared = agents[t].shared
             /\ agents'[t].renewed = IF t \in old THEN f[t] ELSE agents[t].renewed
  <2>1. CASE t \in old
    <3>1. agents'[t] = [agents[t] EXCEPT !.renewed = f[t]]
      BY <1>2, <2>1
    <3>2. /\ agents'[t] \in Governor
          /\ agents'[t].context = agents[t].context /\ agents'[t].calls = agents[t].calls
          /\ agents'[t].shared = agents[t].shared /\ agents'[t].renewed = f[t]
      BY <1>3, <3>1, RenewedMark
    <3> QED BY <2>1, <3>2
  <2>2. CASE t \notin old
    BY <1>2, <1>3, <2>2
  <2> QED BY <2>1, <2>2
<1>6. PolicyTypeOK'
  BY <1>2, <1>4, <1>5
<1>7. \A t \in Task : Running(t)' => Running(t)
  BY <1>5 DEF Running
<1>8. \A t \in Task : Running(t) /\ ~ agents'[t].renewed => /\ ~ agents[t].renewed
                                                            /\ contexts'[t] = contexts[t]
                                                            /\ executions'[t] = executions[t]
  BY <1>1, <1>2, <1>5 DEF old
<1>9. Governed'
  <2> SUFFICES ASSUME NEW t \in Task, Running(t)' PROVE GovernedAs(agents'[t], t, contexts', executions', current')
    BY DEF Governed
  <2> QED BY <1>2, <1>5, <1>7, <1>8 DEF Governed, GovernedAs
<1>10. OwnPolicyDecides'
  BY <1>5, <1>7, <1>8, SMTT(90) DEF OwnPolicyDecides, IsToolAllowed
<1> QED BY <1>6, <1>9, <1>10

\* Whatever other tasks start, end and ask in the same process, the calls of a task are
\* judged by its own policy and recorded, as long as its context stands
\* (ExecutionPolicyInterceptor.ts:36-130).
THEOREM PolicyOwned == PolicySpec => []OwnPolicyDecides
<1>1. PolicyInit => PolicyInv
  BY DEF PolicyInit, PolicyInv, PolicyTypeOK, Governed, OwnPolicyDecides, Running, NoRecord,
     NoAgent, Governor, ExecutionStatus
<1>2. PolicyInv /\ [PolicyNext]_policyVars => PolicyInv'
  <2> SUFFICES ASSUME PolicyInv, [PolicyNext]_policyVars PROVE PolicyInv'
    OBVIOUS
  <2>1. CASE UNCHANGED policyVars
    BY <2>1
       DEF policyVars, PolicyInv, PolicyTypeOK, Governed, GovernedAs, OwnPolicyDecides, Running
  <2> QED BY <2>1, RegisterKeeps, StartKeeps, EndKeeps, CheckKeeps, ClearKeeps DEF PolicyNext
<1> QED BY <1>1, <1>2, PTL DEF PolicySpec, PolicyInv

-----------------------------------------------------------------------------
(* The drills, for any runs.                                               *)

OutcomeOf == [drill : Drill, passed : BOOLEAN]

DrillTypeOK ==
  /\ results \in Seq(OutcomeOf)
  /\ at \in [Run -> {"idle", "delayed", "hanging", "ended"}]
  /\ crossed \subseteq Run

\* The list of a run under way begins with the first drill, and is its alone while no other
\* run overlaps it; the provider is then left as the run has set it.
ListOfRun(r) ==
  at[r] \in {"delayed", "hanging"} =>
    /\ \E i \in DOMAIN results : results[i].drill = 1
    /\ r \notin crossed => /\ results = <<Outcome(1, TRUE)>> /\ mode = "timeout"
                           /\ \A q \in Run \ {r} : at[q] \notin {"delayed", "hanging"}

DrillInv == DrillTypeOK /\ (\A r \in Run : ListOfRun(r)) /\ ReportsCoverDrills
            /\ \A r \in lastRun : r \in Run /\ at[r] = "ended"

\* The drills after the first in their order, the second as it came out.
LEMMA LaterInOrder ==
  ASSUME NEW second \in BOOLEAN
  PROVE  /\ LaterDrills(second) \in Seq(OutcomeOf) /\ Len(LaterDrills(second)) = 5
         /\ \A i \in 1..5 : LaterDrills(second)[i].drill = i + 1
         /\ second => \A i \in 1..5 : LaterDrills(second)[i].passed
<1> DEFINE o2 == Outcome(2, second)  o3 == Outcome(3, TRUE)  o4 == Outcome(4, TRUE)
           o5 == Outcome(5, TRUE)    o6 == Outcome(6, TRUE)
<1>1. LaterDrills(second) = <<o2, o3, o4, o5, o6>>
  BY DEF LaterDrills
<1>2. /\ o2 \in OutcomeOf /\ o3 \in OutcomeOf /\ o4 \in OutcomeOf
      /\ o5 \in OutcomeOf /\ o6 \in OutcomeOf
  BY DEF Outcome, OutcomeOf, Drill
<1>3. o2.drill = 2 /\ o3.drill = 3 /\ o4.drill = 4 /\ o5.drill = 5 /\ o6.drill = 6
  BY DEF Outcome
<1>4. second => o2.passed
  BY DEF Outcome
<1>5. o3.passed /\ o4.passed /\ o5.passed /\ o6.passed
  BY DEF Outcome
<1> HIDE DEF o2, o3, o4, o5, o6
<1>6. /\ LaterDrills(second) \in Seq(OutcomeOf) /\ Len(LaterDrills(second)) = 5
      /\ LaterDrills(second)[1] = o2 /\ LaterDrills(second)[2] = o3
      /\ LaterDrills(second)[3] = o4 /\ LaterDrills(second)[4] = o5 /\ LaterDrills(second)[5] = o6
  BY <1>1, <1>2
<1>7. \A i \in 1..5 : LaterDrills(second)[i].drill = i + 1
  BY <1>3, <1>6
<1>8. ASSUME second, NEW i \in 1..5 PROVE LaterDrills(second)[i].passed
  <2>1. i = 1 \/ i = 2 \/ i = 3 \/ i = 4 \/ i = 5
    OBVIOUS
  <2> QED BY <2>1, <1>4, <1>5, <1>6, <1>8, Zenon
<1> QED BY <1>6, <1>7, <1>8

\* A list that had the first drill has all of them, and one that had nothing else has each once.
LEMMA ListCovers ==
  ASSUME results \in Seq(OutcomeOf), NEW second \in BOOLEAN,
         \E i \in DOMAIN results : results[i].drill = 1
  PROVE  LET list == results \o LaterDrills(second) IN
         /\ list \in Seq(OutcomeOf)
         /\ \A d \in Drill : \E i \in DOMAIN list : list[i].drill = d
         /\ (results = <<Outcome(1, TRUE)>> /\ second) => Len(list) = 6 /\ Healthy(list)
<1> DEFINE later == LaterDrills(second)  list == results \o later
<1>1. /\ Len(results) \in Nat /\ DOMAIN results = 1..Len(results)
  BY LenProperties
<1>2. /\ list \in Seq(OutcomeOf) /\ Len(list) = Len(results) + 5
      /\ \A i \in 1..(Len(results) + 5) :
           list[i] = IF i =< Len(results) THEN results[i] ELSE later[i - Len(results)]
  <2>1. later \in Seq(OutcomeOf) /\ Len(later) = 5
    BY LaterInOrder
  <2> HIDE DEF later
  <2>2. /\ list \in Seq(OutcomeOf) /\ Len(list) = Len(results) + Len(later)
        /\ \A i \in 1..(Len(results) + Len(later)) :
             list[i] = IF i =< Len(results) THEN results[i] ELSE later[i - Len(results)]
    BY <2>1, ConcatProperties, ZenonT(90)
  <2> QED BY <2>1, <2>2
<1>3. DOMAIN list = 1..(Len(results) + 5)
  BY <1>2, LenProperties
<1>4. \A i \in 1..5 : later[i].drill = i + 1
  BY LaterInOrder
<1> HIDE DEF later, list
<1>5. ASSUME NEW d \in Drill PROVE \E i \in DOMAIN list : list[i].drill = d
  <2>1. CASE d = 1
    <3>1. PICK i \in DOMAIN results : results[i].drill = 1
      OBVIOUS
    <3> QED BY <3>1, <2>1, <1>1, <1>2, <1>3
  <2>2. CASE d \in 2..6
    <3>1. /\ Len(results) + d - 1 \in DOMAIN list
          /\ list[Len(results) + d - 1] = later[d - 1]
      BY <2>2, <1>1, <1>2, <1>3, SMTT(90)
    <3> QED BY <3>1, <2>2, <1>4, SMTT(90)
  <2> QED BY <2>1, <2>2 DEF Drill
<1>6. ASSUME results = <<Outcome(1, TRUE)>>, second PROVE Len(list) = 6 /\ Healthy(list)
  <2>1. Len(results) = 1 /\ results[1].passed
    BY <1>6 DEF Outcome
  <2>2. \A i \in 1..5 : later[i].passed
    BY <1>6, LaterInOrder DEF later
  <2>3. \A i \in 1..6 : list[i] = IF i =< 1 THEN results[i] ELSE later[i - 1]
    BY <1>2, <2>1
  <2>4. \A i \in 1..6 : list[i].passed
    <3>1. list[1].passed
      BY <2>1, <2>3
    <3>2. ASSUME NEW i \in 2..6 PROVE list[i].passed
      <4>1. i - 1 \in 1..5 /\ list[i] = later[i - 1]
        BY <2>3, SMTT(90)
      <4> QED BY <4>1, <2>2
    <3> QED BY <3>1, <3>2
  <2>5. DOMAIN list = 1..6
    BY <1>3, <2>1
  <2> QED BY <1>2, <2>1, <2>4, <2>5 DEF Healthy
<1> QED BY <1>2, <1>5, <1>6 DEF list, later

\* Every report covers all drills, and that of a run no other overlapped is healthy.
THEOREM DrillsCovered == DrillSpec => []ReportsCoverDrills
<1>1. DrillInit => DrillInv
  BY DEF DrillInit, DrillInv, DrillTypeOK, ListOfRun, ReportsCoverDrills
<1>2. DrillInv /\ [DrillNext]_drillVars => DrillInv'
  <2> SUFFICES ASSUME DrillInv, [DrillNext]_drillVars PROVE DrillInv'
    OBVIOUS
  <2>1. ASSUME NEW r \in Run, RunAll(r) PROVE DrillInv'
    <3>1. results' = <<Outcome(1, TRUE)>> /\ <<Outcome(1, TRUE)>>[1].drill = 1
      BY <2>1 DEF RunAll, Outcome
    <3>2. results' \in Seq(OutcomeOf)
      BY <3>1 DEF Outcome, OutcomeOf, Drill
    <3>3. DrillTypeOK'
      BY <2>1, <3>2 DEF RunAll, DrillInv, DrillTypeOK, UnderWay
    <3>4. \E i \in DOMAIN results' : results'[i].drill = 1
      <4>1. 1 \in DOMAIN results'
        BY <3>1
      <4> QED BY <4>1, <3>1
    <3>5. ASSUME NEW q \in Run PROVE ListOfRun(q)'
      <4>1. CASE UnderWay = {}
        BY <4>1, <2>1, <3>1, <3>4 DEF RunAll, UnderWay, ListOfRun, DrillInv, DrillTypeOK
      <4>2. CASE UnderWay # {}
        <5>1. at'[q] \in {"delayed", "hanging"} => q \in crossed'
          BY <4>2, <2>1 DEF RunAll, UnderWay, DrillInv, DrillTypeOK
        <5> QED BY <5>1, <3>4 DEF ListOfRun
      <4> QED BY <4>1, <4>2
    <3>6. \A q \in lastRun' : q \in Run /\ at'[q] = "ended"
      BY <2>1 DEF RunAll, DrillInv, DrillTypeOK
    <3>7. ReportsCoverDrills'
      BY <2>1 DEF RunAll, DrillInv, ReportsCoverDrills, UnderWay
    <3> QED BY <3>3, <3>5, <3>6, <3>7 DEF DrillInv
  <2>2. ASSUME NEW r \in Run, NEW second \in BOOLEAN, Finish(r, second),
               at[r] \in {"delayed", "hanging"}, crossed' = crossed,
               mode = "timeout" => second
        PROVE  DrillInv'
    <3>1. results' = results \o LaterDrills(second) /\ lastReport' = results'
      BY <2>2 DEF Finish
    <3>2. results \in Seq(OutcomeOf) /\ \E i \in DOMAIN results : results[i].drill = 1
      BY <2>2 DEF DrillInv, DrillTypeOK, ListOfRun
    <3>3. /\ results' \in Seq(OutcomeOf)
          /\ \A d \in Drill : \E i \in DOMAIN results' : results'[i].drill = d
          /\ (results = <<Outcome(1, TRUE)>> /\ second) => Len(results') = 6 /\ Healthy(results')
      BY <3>1, <3>2, ListCovers, ZenonT(90)
    <3>4. DrillTypeOK'
      BY <2>2, <3>3 DEF Finish, DrillInv, DrillTypeOK
    <3>5. ASSUME NEW q \in Run PROVE ListOfRun(q)'
      <4>1. CASE q = r
        BY <4>1, <2>2 DEF Finish, ListOfRun, DrillInv, DrillTypeOK
      <4>2. CASE q # r
        <5>1. at'[q] = at[q] /\ (q \in crossed \/ at[q] \notin {"delayed", "hanging"})
          BY <4>2, <2>2 DEF Finish, ListOfRun, DrillInv, DrillTypeOK
        <5>2. \E i \in DOMAIN results' : results'[i].drill = 1
          BY <3>3 DEF Drill
        <5> QED BY <5>1, <5>2, <2>2 DEF ListOfRun
      <4> QED BY <4>1, <4>2
    <3>6. \A q \in lastRun' : q \in Run /\ at'[q] = "ended"
      BY <2>2 DEF Finish, DrillInv, DrillTypeOK
    <3>7. r \notin crossed => results = <<Outcome(1, TRUE)>> /\ second
      BY <2>2 DEF DrillInv, ListOfRun
    <3>8. ReportsCoverDrills'
      <4>1. lastRun' = {r} /\ crossed' = crossed
        BY <2>2 DEF Finish
      <4> QED BY <4>1, <3>1, <3>3, <3>7, Zenon DEF ReportsCoverDrills, Healthy
    <3> QED BY <3>4, <3>5, <3>6, <3>8 DEF DrillInv
  <2>3. ASSUME NEW r \in Run, DelayOver(r) PROVE DrillInv'
    <3>1. CASE mode = "timeout" /\ at' = [at EXCEPT ![r] = "hanging"]
               /\ UNCHANGED <<mode, results, lastReport, lastRun>>
      <4>1. DrillTypeOK'
        BY <2>3, <3>1 DEF DelayOver, DrillInv, DrillTypeOK
      <4>2. ASSUME NEW q \in Run PROVE ListOfRun(q)'
        BY <2>3, <3>1, ZenonT(90) DEF DelayOver, DrillInv, DrillTypeOK, ListOfRun
      <4>3. \A q \in lastRun' : q \in Run /\ at'[q] = "ended"
        BY <2>3, <3>1 DEF DelayOver, DrillInv, DrillTypeOK
      <4>4. ReportsCoverDrills'
        BY <2>3, <3>1 DEF DelayOver, DrillInv, ReportsCoverDrills
      <4> QED BY <4>1, <4>2, <4>3, <4>4 DEF DrillInv
    <3>2. CASE mode # "timeout" /\ Finish(r, FALSE)
      BY <2>3, <3>2, <2>2 DEF DelayOver
    <3> QED BY <2>3, <3>1, <3>2 DEF DelayOver
  <2>4. ASSUME NEW r \in Run, TimeoutFires(r) PROVE DrillInv'
    BY <2>4, <2>2 DEF TimeoutFires
  <2>5. CASE UNCHANGED <<mode, results, at, crossed, lastReport, lastRun>>
    BY <2>5 DEF DrillInv, DrillTypeOK, ListOfRun, ReportsCoverDrills
  <2> QED BY <2>1, <2>3, <2>4, <2>5
          DEF DrillNext, RunDrills, IntervalFires, StartSchedule, StopSchedule, drillVars
<1>3. DrillInv => ReportsCoverDrills
  BY DEF DrillInv
<1> QED BY <1>1, <1>2, <1>3, PTL DEF DrillSpec

-----------------------------------------------------------------------------
(* The drift, for any events, files, plans and revisions.                  *)

-----------------------------------------------------------------------------
\* The events are a list.
DriftTypeOK == events \in Seq(DriftEvent)

DriftInv == DriftTypeOK /\ HardDriftHandled

\* Every event has its failure in common with one that has a vector.
LEMMA FirstHasVector ==
  ASSUME DriftTypeOK, NEW i \in DOMAIN events
  PROVE  \E v \in Vectors : events[v].failure = events[i].failure
<1> DEFINE T == {j \in DOMAIN events : Key(j) = Key(i)}
<1>1. T \subseteq Nat /\ i \in T /\ DOMAIN events = 1..Len(events) /\ Len(events) \in Nat
  BY DEF DriftTypeOK
<1>2. PICK v \in T : \A m \in T : v <= m
  BY <1>1, Smallest
<1>3. v \in DOMAIN events /\ Key(v) = Key(i)
  BY <1>2
<1>4. ASSUME NEW j \in 1..(v - 1) PROVE Key(j) # Key(v)
  <2>1. j \in DOMAIN events /\ ~ (v <= j)
    BY <1>1, <1>3
  <2>2. j \notin T
    BY <1>2, <2>1
  <2> QED BY <1>3, <2>1, <2>2
<1>5. v \in Vectors
  BY <1>3, <1>4 DEF Vectors
<1>6. events[v].failure = events[i].failure
  BY <1>3 DEF Key
<1> QED BY <1>5, <1>6

\* The vectors are finitely many, and so are the events correlated with one.
LEMMA FiniteEvents ==
  ASSUME DriftTypeOK
  PROVE  /\ DOMAIN events \subseteq Nat /\ IsFiniteSet(DOMAIN events)
         /\ Vectors \subseteq DOMAIN events /\ IsFiniteSet(Vectors) /\ Cardinality(Vectors) \in Nat
         /\ \A i \in DOMAIN events : Correlated(i) \subseteq DOMAIN events /\ IsFiniteSet(Correlated(i))
<1>1. DOMAIN events = 1..Len(events) /\ Len(events) \in Nat
  BY DEF DriftTypeOK
<1>2. IsFiniteSet(DOMAIN events)
  <2>1. 1 \in Int /\ Len(events) \in Int
    BY <1>1
  <2> QED BY ONLY <1>1, <2>1, FS_Interval
<1>3. Vectors \subseteq DOMAIN events
  BY DEF Vectors
<1>4. \A i \in DOMAIN events : Correlated(i) \subseteq DOMAIN events
  BY DEF Correlated
<1> QED BY <1>1, <1>2, <1>3, <1>4, FS_Subset, FS_CardinalityType

\* What the gate allows has no hard drift, and no more than two kinds of it.
LEMMA GateRefusesHard ==
  ASSUME DriftTypeOK, NEW r, Allowed(Vectors, r)
  PROVE  /\ \A i \in DOMAIN events : events[i].failure \notin Hard /\ DecideResume(events[i].failure)
         /\ Cardinality({events[i].failure : i \in DOMAIN events}) <= 2
<1>1. ASSUME NEW i \in DOMAIN events PROVE events[i].failure \notin Hard
  <2>1. PICK v \in Vectors : events[v].failure = events[i].failure
    BY FirstHasVector
  <2> QED BY <2>1 DEF Allowed
<1>2. ASSUME NEW failure, failure \notin Hard PROVE DecideResume(failure)
  BY <1>2 DEF DecideResume, Revised
<1>3. PICK all : all = {events[i].failure : i \in DOMAIN events}
  OBVIOUS
<1>4. PICK some : some = {events[i].failure : i \in Vectors}
  OBVIOUS
<1>5. all = some
  BY <1>3, <1>4, FirstHasVector, FiniteEvents
<1>6. ~ Cardinality(some) > 2
  BY <1>4 DEF Allowed, Contradicted
<1>7. Cardinality(some) \in Nat
  <2>1. PICK f : f = [i \in Vectors |-> events[i].failure]
    OBVIOUS
  <2>2. some = {f[i] : i \in Vectors}
    BY <1>4, <2>1
  <2>3. IsFiniteSet(Vectors)
    BY FiniteEvents
  <2>4. Cardinality({f[i] : i \in Vectors}) \in Nat
    BY ONLY <2>3, FiniteImage
  <2> QED BY ONLY <2>2, <2>4
<1>8. Cardinality(all) <= 2
  BY ONLY <1>5, <1>6, <1>7
<1> QED BY <1>1, <1>2, <1>3, <1>8

-----------------------------------------------------------------------------
\* What two or three primitives make of it, one after the other.
LEMMA InTurn ==
  ASSUME NEW h, NEW p, Len(p) \in {2, 3}
  PROVE  /\ Len(p) = 2 => Compose(h, p)[2] = ApplyPrimitive(ApplyPrimitive(h, p[1]), p[2])
         /\ Len(p) = 3 => Compose(h, p)[3] =
                            ApplyPrimitive(ApplyPrimitive(ApplyPrimitive(h, p[1]), p[2]), p[3])
<1> DEFINE Turns(f) == f = [n \in 0..Len(p) |-> IF n = 0 THEN h ELSE ApplyPrimitive(f[n - 1], p[n])]
<1>1. Compose(h, p) = CHOOSE f : Turns(f)
  BY DEF Compose
<1>2. PICK a : a = ApplyPrimitive(h, p[1])
  OBVIOUS
<1>3. PICK b : b = ApplyPrimitive(a, p[2])
  OBVIOUS
<1>4. PICK c : c = ApplyPrimitive(b, p[3])
  OBVIOUS
<1>5. \E f : Turns(f)
  <2>1. PICK f : f = [n \in 0..Len(p) |-> IF n = 0 THEN h ELSE IF n = 1 THEN a ELSE IF n = 2 THEN b ELSE c]
    OBVIOUS
  <2>2. ASSUME NEW n \in 0..Len(p) PROVE f[n] = IF n = 0 THEN h ELSE ApplyPrimitive(f[n - 1], p[n])
    <3>0. n \in {0, 1, 2, 3}
      <4>1. CASE Len(p) = 2
        <5>1. n \in 0..2
          BY ONLY <4>1, <2>2
        <5> QED BY <5>1
      <4>2. CASE Len(p) = 3
        <5>1. n \in 0..3
          BY ONLY <4>2, <2>2
        <5> QED BY <5>1, SMTT(90)
      <4> QED BY <4>1, <4>2
    <3>1. CASE n = 0
      BY <2>1, <3>1
    <3>2. CASE n = 1
      <4>1. f[0] = h /\ f[1] = a
        BY <2>1, <3>2
      <4> QED BY <1>2, <3>2, <4>1
    <3>3. CASE n = 2
      <4>1. f[1] = a /\ f[2] = b
        BY <2>1, <3>3
      <4> QED BY <1>3, <3>3, <4>1
    <3>4. CASE n = 3
      <4>1. f[2] = b /\ f[3] = c
        BY <2>1, <3>4
      <4> QED BY <1>4, <3>4, <4>1
    <3> QED BY <3>0, <3>1, <3>2, <3>3, <3>4
  <2>3. f = [n \in 0..Len(p) |-> f[n]]
    BY <2>1
  <2> QED BY <2>2, <2>3, ZenonT(90)
<1>6. PICK g : g = Compose(h, p)
  OBVIOUS
<1>7. Turns(g)
  BY ONLY <1>1, <1>5, <1>6
<1>8. /\ g[0] = h /\ g[1] = ApplyPrimitive(g[0], p[1]) /\ g[2] = ApplyPrimitive(g[1], p[2])
      /\ Len(p) = 3 => g[3] = ApplyPrimitive(g[2], p[3])
  <2>1. \A n \in 0..Len(p) : g[n] = IF n = 0 THEN h ELSE ApplyPrimitive(g[n - 1], p[n])
    BY <1>7
  <2> QED BY <2>1
<1> QED BY <1>6, <1>8

\* What three make of it.
LEMMA ThreeInTurn ==
  ASSUME NEW h, NEW p, Len(p) = 3
  PROVE  Compose(h, p)[3] = ApplyPrimitive(ApplyPrimitive(ApplyPrimitive(h, p[1]), p[2]), p[3])
<1>1. Len(p) \in {2, 3}
  OBVIOUS
<1> QED BY <1>1, InTurn

\* One primitive after two others.
LEMMA JoinedThree ==
  ASSUME NEW a, NEW b, NEW c, NEW p, p = <<a, b>> \o <<c>>
  PROVE  Len(p) = 3 /\ p[1] = a /\ p[2] = b /\ p[3] = c
<1> DEFINE S == {a, b, c}
<1>1. PICK two : two = <<a, b>>
  OBVIOUS
<1>2. PICK last : last = <<c>>
  OBVIOUS
<1>3. /\ two \in Seq(S) /\ Len(two) = 2 /\ two[1] = a /\ two[2] = b
      /\ last \in Seq(S) /\ Len(last) = 1 /\ last[1] = c
  BY <1>1, <1>2
<1> HIDE DEF S
<1>4. /\ Len(two \o last) = Len(two) + Len(last)
      /\ \A n \in 1..(Len(two) + Len(last)) :
           (two \o last)[n] = IF n <= Len(two) THEN two[n] ELSE last[n - Len(two)]
  BY ONLY <1>3, ConcatProperties, ZenonT(90)
<1>5. p = two \o last
  BY <1>1, <1>2
<1>6. PICK m, k : m = Len(two) /\ k = Len(last)
  OBVIOUS
<1>7. m = 2 /\ k = 1 /\ Len(p) = m + k /\ \A n \in 1..(m + k) : p[n] = IF n <= m THEN two[n] ELSE last[n - m]
  BY ONLY <1>3, <1>4, <1>5, <1>6
<1>8. Len(p) = 3 /\ p[1] = two[1] /\ p[2] = two[2] /\ p[3] = last[1]
  BY ONLY <1>7
<1> QED BY ONLY <1>3, <1>8

\* One primitive after another.
LEMMA JoinedTwo ==
  ASSUME NEW a, NEW c, NEW p, p = <<a>> \o <<c>>
  PROVE  Len(p) = 2 /\ p[1] = a /\ p[2] = c
<1> DEFINE S == {a, c}
<1>1. PICK one : one = <<a>>
  OBVIOUS
<1>2. PICK last : last = <<c>>
  OBVIOUS
<1>3. one \in Seq(S) /\ Len(one) = 1 /\ one[1] = a /\ last \in Seq(S) /\ Len(last) = 1 /\ last[1] = c
  BY <1>1, <1>2
<1> HIDE DEF S
<1>4. /\ Len(one \o last) = Len(one) + Len(last)
      /\ \A n \in 1..(Len(one) + Len(last)) :
           (one \o last)[n] = IF n <= Len(one) THEN one[n] ELSE last[n - Len(one)]
  BY ONLY <1>3, ConcatProperties, ZenonT(90)
<1>5. p = one \o last
  BY <1>1, <1>2
<1>6. PICK m, k : m = Len(one) /\ k = Len(last)
  OBVIOUS
<1>7. m = 1 /\ k = 1 /\ Len(p) = m + k /\ \A n \in 1..(m + k) : p[n] = IF n <= m THEN one[n] ELSE last[n - m]
  BY ONLY <1>3, <1>4, <1>5, <1>6
<1>8. Len(p) = 2 /\ p[1] = one[1] /\ p[2] = last[1]
  BY ONLY <1>7
<1> QED BY ONLY <1>3, <1>8

\* Of a hard drift the primitives leave no changed file out of hand.
LEMMA PrimitivesConfine ==
  ASSUME DriftTypeOK, NEW i, NEW scope, NEW changes, Heal(i, scope, changes)
  PROVE  HealedFilesConfined'
<1>1. PICK h : h = Unhealed(events[i].failure, scope, changes)
  OBVIOUS
<1>2. PICK p : p = RecommendPrimitives(i)
  OBVIOUS
<1>3. i \in DOMAIN events /\ healing' = Compose(h, p)[Len(p)]
  BY <1>1, <1>2 DEF Heal, Vectors
<1>4. /\ h = [failure |-> events[i].failure, scope |-> scope, changes |-> changes,
              tightened |-> FALSE, frozen |-> FALSE, negative |-> FALSE]
      /\ events[i].failure \in {"KITCHEN_SINK", "WRONG_ABSTRACTION", "OPTIMISTIC_PATH", "RUNAWAY_REFACTOR"}
  BY <1>1, <1>3, DriftConstants DEF Unhealed, DriftTypeOK
<1>5. CASE events[i].failure = "KITCHEN_SINK"
  <2>1. Len(p) = 3 /\ p[1] = "shrink_scope" /\ p[2] = "tighten_criteria" /\ p[3] = "require_dependency_justification"
    <3>1. p = <<"shrink_scope", "tighten_criteria">> \o <<"require_dependency_justification">>
      BY <1>2, <1>5 DEF RecommendPrimitives
    <3> QED BY ONLY <3>1, JoinedThree
  <2>2. PICK a : a = ApplyPrimitive(h, "shrink_scope")
    OBVIOUS
  <2>3. PICK b : b = ApplyPrimitive(a, "tighten_criteria")
    OBVIOUS
  <2>4. healing' = ApplyPrimitive(b, "require_dependency_justification")
    <3>1. Len(p) \in {2, 3} /\ Len(p) = 3
      BY ONLY <2>1
    <3>2. Compose(h, p)[3] =
            ApplyPrimitive(ApplyPrimitive(ApplyPrimitive(h, p[1]), p[2]), p[3])
      BY ONLY <3>1, ThreeInTurn, Zenon
    <3> QED BY ONLY <1>3, <2>1, <2>2, <2>3, <3>2
  <2>5. healing' = b
    BY <2>4 DEF ApplyPrimitive
  <2>6. CASE changes = <<>>
    <3>1. a.changes = <<>> /\ b.changes = <<>>
      BY <1>4, <2>2, <2>3, <2>6 DEF ApplyPrimitive
    <3>2. DOMAIN b.changes = {}
      BY ONLY <3>1
    <3> QED BY <2>5, <3>2 DEF HealedFilesConfined
  <2>7. CASE changes # <<>>
    <3>1. a = [h EXCEPT !.scope = {Module[changes[1]]}]
      BY <1>4, <2>2, <2>7 DEF ApplyPrimitive
    <3>2. a.scope # {} /\ a.changes = changes
      BY <1>4, <3>1
    <3>3. CASE Unrelated(a)
      <4>1. b.tightened
        BY <1>4, <2>3, <3>1, <3>3 DEF ApplyPrimitive
      <4> QED BY <2>5, <4>1 DEF HealedFilesConfined
    <3>4. CASE ~ Unrelated(a)
      <4>1. b = a
        BY <2>3, <3>4 DEF ApplyPrimitive
      <4> QED BY <2>5, <3>2, <3>4, <4>1 DEF HealedFilesConfined, Unrelated
    <3> QED BY <3>3, <3>4
  <2> QED BY <2>6, <2>7
<1>6. CASE events[i].failure = "RUNAWAY_REFACTOR"
  <2>1. Len(p) = 3 /\ p[1] = "enforce_surgical_diff" /\ p[2] = "freeze_architecture"
        /\ p[3] = "require_dependency_justification"
    <3>1. p = <<"enforce_surgical_diff", "freeze_architecture">> \o <<"require_dependency_justification">>
      BY <1>2, <1>6 DEF RecommendPrimitives
    <3> QED BY ONLY <3>1, JoinedThree
  <2>2. PICK a : a = ApplyPrimitive(h, "enforce_surgical_diff")
    OBVIOUS
  <2>3. healing' = ApplyPrimitive(ApplyPrimitive(a, "freeze_architecture"), "require_dependency_justification")
    <3>1. Len(p) \in {2, 3} /\ Len(p) = 3
      BY ONLY <2>1
    <3>2. Compose(h, p)[3] =
            ApplyPrimitive(ApplyPrimitive(ApplyPrimitive(h, p[1]), p[2]), p[3])
      BY ONLY <3>1, ThreeInTurn, Zenon
    <3> QED BY ONLY <1>3, <2>1, <2>2, <3>2
  <2>4. healing' = [a EXCEPT !.frozen = TRUE]
    BY <2>3 DEF ApplyPrimitive
  <2>5. a = h \/ a = [h EXCEPT !.scope = {h.changes[1]}]
    BY <2>2 DEF ApplyPrimitive
  <2>6. healing'.frozen
    BY <1>4, <2>4, <2>5
  <2> QED BY <2>6 DEF HealedFilesConfined
<1>7. CASE events[i].failure \in {"WRONG_ABSTRACTION", "OPTIMISTIC_PATH"}
  <2>1. PICK primitive \in {"require_abstraction_step", "inject_negative_tests"} :
          Len(p) = 2 /\ p[1] = primitive /\ p[2] = "require_dependency_justification"
    <3>1. PICK primitive \in {"require_abstraction_step", "inject_negative_tests"} :
            p = <<primitive>> \o <<"require_dependency_justification">>
      BY <1>2, <1>7 DEF RecommendPrimitives
    <3> QED BY ONLY <3>1, JoinedTwo
  <2>2. PICK a : a = ApplyPrimitive(h, primitive)
    OBVIOUS
  <2>3. healing' = ApplyPrimitive(a, "require_dependency_justification")
    <3>1. Len(p) \in {2, 3} /\ Len(p) = 2
      BY ONLY <2>1
    <3>2. Compose(h, p)[2] = ApplyPrimitive(ApplyPrimitive(h, p[1]), p[2])
      BY ONLY <3>1, InTurn
    <3> QED BY ONLY <1>3, <2>1, <2>2, <3>2
  <2>4. healing' = a
    BY <2>3 DEF ApplyPrimitive
  <2>5. a = h \/ a = [h EXCEPT !.negative = TRUE]
    BY <2>1, <2>2 DEF ApplyPrimitive
  <2>6. healing'.failure = events[i].failure
    BY <1>4, <2>4, <2>5
  <2> QED BY <1>7, <2>6, SMTT(90) DEF HealedFilesConfined, Hard
<1> QED BY <1>4, <1>5, <1>6, <1>7

\* Nothing is healed and nothing decided: then nothing is claimed.
LEMMA NothingClaimed ==
  ASSUME healing' = Unhealed("none", {}, <<>>)
  PROVE  HealedFilesConfined'
<1>1. healing'.failure = "none"
  BY DEF Unhealed
<1> QED BY <1>1 DEF HealedFilesConfined, Hard

(* The gate lets no hard drift through, and a healing of one leaves no changed    *)
(* file outside the scope it cut (ResumeGate.ts:137-296, DriftCorrelationGraph.ts: *)
(* 346-360, HealingPrimitives.ts:347-396), for any events, files, plans and       *)
(* revisions.                                                                     *)
THEOREM HardRefused == StitchSpec => []HardDriftHandled
<1>1. StitchInit => DriftInv
  <2> SUFFICES ASSUME StitchInit PROVE DriftInv
    OBVIOUS
  <2>1. events = <<>> /\ decision = "none" /\ healing.failure = "none"
    BY DEF StitchInit, DriftInit, Unhealed
  <2>2. DriftTypeOK
    BY <2>1 DEF DriftTypeOK
  <2> QED BY <2>1, <2>2
             DEF DriftInv, HardDriftHandled, HardNeverResumes, HealedFilesConfined, Hard
<1>2. DriftInv /\ [StitchNext]_stitchVars => DriftInv'
  <2> SUFFICES ASSUME DriftInv, [StitchNext]_stitchVars PROVE DriftInv'
    OBVIOUS
  <2>1. CASE UNCHANGED stitchVars
    <3>1. UNCHANGED <<events, healing, decision>>
      BY <2>1 DEF stitchVars, driftVars
    <3>2. HardNeverResumes' /\ HealedFilesConfined'
      BY <3>1 DEF DriftInv, HardDriftHandled, HardNeverResumes, HealedFilesConfined
    <3> QED BY <3>1, <3>2 DEF DriftInv, DriftTypeOK, HardDriftHandled
  <2>2. CASE \E e \in DriftEvent : RecordEvent(e)
    <3>1. events' \in Seq(DriftEvent) /\ decision' = "none"
      BY <2>2 DEF RecordEvent, Forget, DriftInv, DriftTypeOK
    <3>2. HealedFilesConfined'
      BY <2>2, NothingClaimed DEF RecordEvent, Forget
    <3>3. HardNeverResumes'
      BY <3>1 DEF HardNeverResumes
    <3> QED BY <3>1, <3>2, <3>3 DEF DriftInv, DriftTypeOK, HardDriftHandled
  <2>3. CASE \E i \in 1..MaxEvents, scope \in PlanScope, changes \in Change : Heal(i, scope, changes)
    <3>1. events' = events /\ decision' = "none"
      BY <2>3 DEF Heal
    <3>2. HealedFilesConfined'
      BY <2>3, PrimitivesConfine DEF DriftInv
    <3>3. HardNeverResumes'
      BY <3>1 DEF HardNeverResumes
    <3> QED BY <3>1, <3>2, <3>3 DEF DriftInv, DriftTypeOK, HardDriftHandled
  <2>4. CASE \E r \in Revision : EvaluateGate(r)
    <3>1. PICK r \in Revision : EvaluateGate(r)
      BY <2>4
    <3>2. events' = events
      BY <3>1 DEF EvaluateGate
    <3>3. HealedFilesConfined'
      BY <3>1, NothingClaimed DEF EvaluateGate
    <3>4. CASE Allowed(Vectors, r)
      <4>1. /\ \A i \in DOMAIN events : events[i].failure \notin Hard /\ DecideResume(events[i].failure)
            /\ Cardinality({events[i].failure : i \in DOMAIN events}) <= 2
        BY <3>4, GateRefusesHard DEF DriftInv
      <4>2. HardNeverResumes'
        BY <3>2, <4>1 DEF HardNeverResumes
      <4> QED BY <3>2, <3>3, <4>2 DEF DriftInv, DriftTypeOK, HardDriftHandled
    <3>5. CASE ~ Allowed(Vectors, r)
      <4>1. decision' = "halt"
        BY <3>1, <3>5 DEF EvaluateGate
      <4>2. HardNeverResumes'
        BY <4>1 DEF HardNeverResumes
      <4> QED BY <3>2, <3>3, <4>2 DEF DriftInv, DriftTypeOK, HardDriftHandled
    <3> QED BY <3>4, <3>5
  <2>5. CASE \E d \in WaveD, f \in WaveF, g \in Healed, r \in Revision : Stitch(d, f, g, r)
    <3>1. events' = events /\ decision' = "none"
      BY <2>5 DEF Stitch, Forget
    <3>2. HealedFilesConfined'
      BY <2>5, NothingClaimed DEF Stitch, Forget
    <3>3. HardNeverResumes'
      BY <3>1 DEF HardNeverResumes
    <3> QED BY <3>1, <3>2, <3>3 DEF DriftInv, DriftTypeOK, HardDriftHandled
  <2> QED BY <2>1, <2>2, <2>3, <2>4, <2>5 DEF StitchNext, DriftNext
<1>3. DriftInv => HardDriftHandled
  BY DEF DriftInv
<1> QED BY <1>1, <1>2, <1>3, PTL DEF StitchSpec

-----------------------------------------------------------------------------
\* What a vector weighs is a number, and so is what it is compared with.
LEMMA Weights ==
  ASSUME DriftTypeOK, NEW i \in DOMAIN events
  PROVE  Weight(i) \in Nat /\ \A n \in Nat : Quarters(i, n) \in Nat
<1>1. IsFiniteSet(Correlated(i)) /\ Correlated(i) \subseteq DOMAIN events
  BY FiniteEvents
<1>2. Cardinality(Correlated(i)) \in Nat
  BY <1>1, FS_CardinalityType
<1>3. Levels(i) \in Nat
  <2>1. IsFiniteSet(1..4)
    <3>1. 1 \in Int /\ 4 \in Int
      OBVIOUS
    <3> QED BY ONLY <3>1, FS_Interval
  <2>2. IsFiniteSet(Correlated(i) \X (1..4))
    BY ONLY <1>1, <2>1, FS_Product
  <2> DEFINE P == {p \in Correlated(i) \X (1..4) : p[2] <= events[p[1]].level}
  <2>3. P \subseteq Correlated(i) \X (1..4)
    OBVIOUS
  <2> HIDE DEF P
  <2>4. Cardinality(P) \in Nat
    BY ONLY <2>2, <2>3, FS_Subset, FS_CardinalityType
  <2> QED BY <2>4 DEF Levels, P
<1>4. Cardinality({events[j].wave : j \in Correlated(i)}) \in Nat
  <2>1. PICK f : f = [j \in Correlated(i) |-> events[j].wave]
    OBVIOUS
  <2>2. PICK waves : waves = {events[j].wave : j \in Correlated(i)}
    OBVIOUS
  <2>3. waves = {f[j] : j \in Correlated(i)}
    BY <2>1, <2>2
  <2>4. Cardinality({f[j] : j \in Correlated(i)}) \in Nat
    BY ONLY <1>1, FiniteImage
  <2> QED BY ONLY <2>2, <2>3, <2>4
<1>5. Weight(i) \in Nat
  BY <1>3, <1>4 DEF Weight
<1> QED BY <1>2, <1>5 DEF Quarters

\* A run that is called ready has no severe vector and fewer than three.
LEMMA ReadyIsLight ==
  ASSUME DriftTypeOK, NEW r, PhaseReady(Vectors, r)
  PROVE  /\ Cardinality(Vectors) < 3
         /\ \A i \in Vectors : ~ (Weight(i) > Quarters(i, 3))
<1>1. ASSUME NEW i \in Vectors PROVE ~ (Weight(i) > Quarters(i, 3))
  <2>1. i \in DOMAIN events
    BY DEF Vectors
  <2>2. Weight(i) \in Nat /\ Weight(i) < Quarters(i, 2)
    BY <2>1, Weights DEF PhaseReady, Allowed
  <2>3. Cardinality(Correlated(i)) \in Nat
    BY <2>1, FiniteEvents, FS_CardinalityType
  <2> QED BY <2>2, <2>3 DEF Quarters
<1> QED BY <1>1 DEF PhaseReady

StitchInv == DriftTypeOK /\ ReportCoherent

(* A report does not contradict itself: ready is not said beside a severe sign or *)
(* a refactoring, and an escalation has its wave (MultiWaveTelemetryStitcher.ts:  *)
(* 282-324, 434-456, 477-541), for any events, findings and revisions.            *)
THEOREM ReportAgrees == StitchSpec => []ReportCoherent
<1>1. StitchInit => StitchInv
  <2> SUFFICES ASSUME StitchInit PROVE StitchInv
    OBVIOUS
  <2>1. DriftTypeOK
    BY DEF StitchInit, DriftInit, DriftTypeOK
  <2>2. ~ report.ready /\ report.recommended = {}
    BY DEF StitchInit, NoReport
  <2> QED BY <2>1, <2>2 DEF StitchInv, ReportCoherent
<1>2. StitchInv /\ [StitchNext]_stitchVars => StitchInv'
  <2> SUFFICES ASSUME StitchInv, [StitchNext]_stitchVars PROVE StitchInv'
    OBVIOUS
  <2>1. DriftTypeOK'
    <3>1. \/ events' = events
          \/ \E e \in DriftEvent : events' = Append(events, e)
      BY DEF StitchNext, DriftNext, RecordEvent, Heal, EvaluateGate, Stitch, stitchVars, driftVars
    <3> QED BY <3>1 DEF StitchInv, DriftTypeOK
  <2>2. CASE report' = NoReport
    <3>1. ~ report'.ready /\ report'.recommended = {}
      BY <2>2 DEF NoReport
    <3> QED BY <2>1, <3>1 DEF StitchInv, ReportCoherent
  <2>3. CASE UNCHANGED stitchVars
    BY <2>1, <2>3 DEF stitchVars, StitchInv, ReportCoherent
  <2>4. ASSUME NEW d \in WaveD, NEW f \in WaveF, NEW g \in Healed, NEW r \in Revision, Stitch(d, f, g, r)
        PROVE  StitchInv'
    <3>1. PICK entries : entries = AnalyzeDriftProgression(d, f)
      OBVIOUS
    <3>2. PICK said : said = GenerateRecommendations(entries, Vectors, g)
      OBVIOUS
    <3>3. report' = [entries |-> entries, ready |-> PhaseReady(Vectors, r),
                     vectors |-> Cardinality(Vectors), recommended |-> said]
      BY <2>4, <3>1, <3>2 DEF Stitch
    <3>4. /\ report'.entries = entries /\ report'.recommended = said
          /\ report'.vectors = Cardinality(Vectors)
          /\ report'.ready = PhaseReady(Vectors, r)
      BY <3>3
    <3>5. ASSUME NEW e \in entries, e.high
          PROVE  e.escalated \/ e.wave = "F"
      BY <3>1, <3>5 DEF AnalyzeDriftProgression
    <3>6. ASSUME PhaseReady(Vectors, r)
          PROVE  /\ \A e \in entries : e.high => e.wave = "F"
                 /\ "ARCHITECTURE" \notin said
                 /\ Cardinality(Vectors) = 0 => "CONTRADICTION" \notin said
      <4>1. Cardinality(Vectors) < 3 /\ \A i \in Vectors : ~ (Weight(i) > Quarters(i, 3))
        BY <3>6, ReadyIsLight DEF StitchInv
      <4>2. Cardinality(Vectors) \in Nat /\ IsFiniteSet(Vectors)
        BY FiniteEvents DEF StitchInv
      <4>3. ASSUME NEW e \in entries, e.high PROVE e.wave = "F"
        <5>1. \/ e.high = FALSE
              \/ \E i \in Vectors : e.high = (Weight(i) > Quarters(i, 3))
              \/ e.wave = "F"
          BY <3>1 DEF AnalyzeDriftProgression
        <5> QED BY <4>1, <4>3, <5>1
      <4>4. "ARCHITECTURE" \notin said
        <5>1. ~ (Cardinality(Vectors) > 2)
          BY ONLY <4>1, <4>2
        <5> QED BY <3>2, <5>1 DEF GenerateRecommendations
      <4>5. ASSUME Cardinality(Vectors) = 0 PROVE "CONTRADICTION" \notin said
        <5>1. Vectors = {}
          BY ONLY <4>2, <4>5, FS_EmptySet
        <5> QED BY <3>2, <5>1 DEF GenerateRecommendations
      <4> QED BY <4>3, <4>4, <4>5
    <3>7. ASSUME "ESCALATION" \in said PROVE \E e \in entries : e.high
      BY <3>2, <3>7 DEF GenerateRecommendations
    <3>8. ReportCoherent'
      BY <3>4, <3>5, <3>6, <3>7 DEF ReportCoherent
    <3> QED BY <2>1, <3>8 DEF StitchInv
  <2> QED BY <2>2, <2>3, <2>4 DEF StitchNext
<1>3. StitchInv => ReportCoherent
  BY DEF StitchInv
<1> QED BY <1>1, <1>2, <1>3, PTL DEF StitchSpec
=============================================================================
