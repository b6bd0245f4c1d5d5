--------------------------- MODULE IngestionProofs ---------------------------
(***************************************************************************)
(* Proofs about Ingestion, for every set of contents and of runs, every    *)
(* hash function, every number of tries and every bound; the last part is  *)
(* about the lines of an export and uses what ExportIngestion adds.        *)
(***************************************************************************)
EXTENDS ExportIngestion, SequenceTheorems, FiniteSetTheorems, WellFoundedInduction, TLAPS

USE DEF vars, landingVars, layerVars, taskVars, reportVars

\* A task's end keeps the types of the stages and of the tries: the two ways
\* every task of a run leaves its try.
LEMMA OutcomeType ==
    ASSUME TypeOK, NEW r \in Run, NEW next \in Stage,
           Succeed(r, next) \/ Fail(r)
    PROVE  /\ stage' \in [Run -> Stage]
           /\ tries' \in [Run -> 1 .. MaxTries]
  <1>1. CASE Succeed(r, next)
    BY <1>1, IngestionAssumption DEF Succeed, TypeOK
  <1>2. CASE Fail(r)
    <2>1. stage' \in [Run -> Stage]
      BY <1>2 DEF Fail, TypeOK, Stage, EndStage
    <2>2. tries[r] \in 1 .. MaxTries /\ MaxTries \in Nat
      BY IngestionAssumption DEF TypeOK
    <2>3. tries[r] < MaxTries => tries[r] + 1 \in 1 .. MaxTries
      BY <2>2
    <2>4. tries' \in [Run -> 1 .. MaxTries]
      BY <1>2, <2>3 DEF Fail, TypeOK
    <2> QED BY <2>1, <2>4
  <1> QED BY <1>1, <1>2

\* A new try of the ingest task has a well-typed list and a well-typed report.
LEMMA ResetType ==
    ASSUME TypeOK, NEW r \in Run, ResetReport(r)
    PROVE  todo' \in [Run -> SUBSET Key] /\ ingested' \in [Run -> Nat]
  BY DEF ResetReport, TypeOK

\* Every variable keeps its type: in particular no task is tried more than
\* MaxTries times, and Bronze stays a sequence of batches.
LEMMA TypeStep == TypeOK /\ [Next]_vars => TypeOK'
  <1> SUFFICES ASSUME TypeOK, [Next]_vars PROVE TypeOK'
    OBVIOUS
  <1> USE IngestionAssumption
  <1>s. /\ {"scan", "ingest", "gate", "validate", "silver", "snapshot", "marts",
            "tests", "freshness", "noop", "success", "failed", "queued"} \subseteq Stage
    BY DEF Stage, TaskStage, EndStage
  <1>1. CASE Tick
    BY <1>1 DEF Tick, TypeOK, Ts
  <1>2. ASSUME NEW c \in Content, Upload(c) PROVE TypeOK'
    BY <1>2 DEF Upload, Land, TypeOK, LandingObject, Key
  <1>3. ASSUME NEW o \in Placeable, Place(o) PROVE TypeOK'
    BY <1>3 DEF Place, Land, TypeOK
  <1>4. ASSUME NEW o \in landing, Delete(o) PROVE TypeOK'
    BY <1>4 DEF Delete, TypeOK
  <1>5. ASSUME NEW r \in Run, NEW f \in BOOLEAN, Trigger(r, f) PROVE TypeOK'
    BY <1>5, <1>s DEF Trigger, TypeOK
  <1>6. ASSUME NEW r \in Run, RunStep(r) PROVE TypeOK'
    <2>1. CASE StartRun(r)
      BY <2>1, <1>s DEF StartRun, TypeOK
    <2>2. CASE Scan(r)
      <3>1. Candidates \subseteq Key
        BY DEF Candidates, TypeOK, LandingObject
      <3> QED BY <2>2, <3>1, <1>s, OutcomeType DEF Scan, TypeOK
    <2>3. CASE IngestObject(r)
      <3>1. PICK o \in Current(r) : SkipDuplicate(r, o) \/ AppendBatch(r, o)
        BY <2>3 DEF IngestObject
      <3>2. o \in LandingObject
        BY DEF Current, TypeOK
      <3>3. bronze' \in Seq(LandingObject) /\ ingested' \in [Run -> Nat]
        <4>1. CASE SkipDuplicate(r, o)
          BY <4>1 DEF SkipDuplicate, TypeOK
        <4>2. CASE AppendBatch(r, o)
          <5>1. Append(bronze, o) \in Seq(LandingObject)
            BY <3>2 DEF TypeOK
          <5>2. bronze' \in Seq(LandingObject)
            BY <4>2, <5>1 DEF AppendBatch, TypeOK
          <5>3. ingested' \in [Run -> Nat]
            BY <4>2 DEF AppendBatch, TypeOK
          <5> QED BY <5>2, <5>3
        <4> QED BY <3>1, <4>1, <4>2
      <3> QED BY <2>3, <3>3 DEF IngestObject, TypeOK
    <2>4. CASE IngestRaises(r)
      <3>1. todo' \in [Run -> SUBSET Key] /\ ingested' \in [Run -> Nat]
        BY <2>4, ResetType DEF IngestRaises
      <3> QED BY <2>4, <3>1, <1>s, OutcomeType DEF IngestRaises, TypeOK
    <2>5. CASE FinishIngest(r)
      BY <2>5, <1>s, OutcomeType DEF FinishIngest, TypeOK
    <2>6. CASE Gate(r)
      BY <2>6, <1>s, OutcomeType DEF Gate, TypeOK
    <2>7. CASE Validate(r)
      BY <2>7, <1>s, OutcomeType DEF Validate, TypeOK
    <2>8. CASE BuildSilver(r)
      BY <2>8, <1>s, OutcomeType DEF BuildSilver, SucceedOrFail, TypeOK
    <2>9. CASE SnapshotDim(r)
      BY <2>9, <1>s, OutcomeType DEF SnapshotDim, SucceedOrFail, TypeOK
    <2>10. CASE BuildMarts(r)
      BY <2>10, <1>s, OutcomeType DEF BuildMarts, SucceedOrFail, TypeOK
    <2>11. CASE RunTests(r)
      BY <2>11, <1>s, OutcomeType DEF RunTests, TypeOK
    <2>12. CASE CheckFreshness(r)
      BY <2>12, <1>s, OutcomeType DEF CheckFreshness, SucceedOrFail, TypeOK
    <2> QED
      BY <1>6, <2>1, <2>2, <2>3, <2>4, <2>5, <2>6, <2>7, <2>8, <2>9, <2>10,
         <2>11, <2>12 DEF RunStep
  <1>7. ASSUME NEW r \in Run, Fault(r) PROVE TypeOK'
    <2>1. todo' \in [Run -> SUBSET Key] /\ ingested' \in [Run -> Nat]
      <3>1. CASE stage[r] = "ingest"
        <4>1. ResetReport(r)
          BY <1>7, <3>1 DEF Fault
        <4> QED BY <4>1, ResetType
      <3>2. CASE stage[r] # "ingest"
        BY <1>7, <3>2 DEF Fault, TypeOK
      <3> QED BY <3>1, <3>2
    <2> QED BY <1>7, <2>1, <1>s, OutcomeType DEF Fault, TypeOK
  <1>8. CASE UNCHANGED vars
    BY <1>8 DEF TypeOK
  <1> QED
    BY <1>1, <1>2, <1>3, <1>4, <1>5, <1>6, <1>7, <1>8 DEF Next, OwnerStep

LEMMA TypeInit == Init => TypeOK
  BY IngestionAssumption DEF Init, TypeOK, Ts, Stage

\* Type correctness of the pipeline (TypeOK), for every value of the constants.
THEOREM TypeCorrect == Spec => []TypeOK
  <1>1. QED BY TypeInit, TypeStep, PTL DEF Spec

-----------------------------------------------------------------------------
\* What a step can do to Bronze: nothing, or one more batch, of a run at its
\* ingest task, whose content is new, parseable and named by its key.
Appends(r, o) ==
    /\ stage[r] = "ingest"
    /\ o \in LandingObject
    /\ HashMatchesKey(o)
    /\ o.content \notin IngestedHashes
    /\ o.content \notin Malformed
    /\ bronze' = Append(bronze, o)
    /\ UNCHANGED <<layerVars, taskVars>>

LEMMA BronzeStep ==
    ASSUME TypeOK, [Next]_vars
    PROVE  bronze' = bronze \/ \E r \in Run, o \in landing : Appends(r, o)
  <1>1. ASSUME NEW r \in Run, IngestObject(r)
        PROVE  bronze' = bronze \/ \E o \in landing : Appends(r, o)
    <2>1. PICK o \in Current(r) : HashMatchesKey(o) /\ (SkipDuplicate(r, o) \/ AppendBatch(r, o))
      BY <1>1 DEF IngestObject
    <2>2. o \in landing /\ o \in LandingObject
      BY DEF Current, TypeOK
    <2>3. CASE SkipDuplicate(r, o)
      BY <2>3 DEF SkipDuplicate
    <2>4. CASE AppendBatch(r, o)
      BY <1>1, <2>1, <2>2, <2>4 DEF AppendBatch, Appends, IngestObject
    <2> QED BY <2>1, <2>3, <2>4
  <1>2. ASSUME NEW r \in Run, RunStep(r), ~IngestObject(r) PROVE bronze' = bronze
    BY <1>2 DEF RunStep, StartRun, Scan, IngestRaises, FinishIngest, Gate, Validate,
       BuildSilver, SnapshotDim, BuildMarts, RunTests, CheckFreshness
  <1>3. ASSUME NEW r \in Run, Fault(r) PROVE bronze' = bronze
    BY <1>3 DEF Fault
  <1>4. OwnerStep \/ Tick => bronze' = bronze
    BY DEF OwnerStep, Upload, Place, Land, Delete, Tick
  <1>5. ASSUME NEW r \in Run, NEW f \in BOOLEAN, Trigger(r, f) PROVE bronze' = bronze
    BY <1>5 DEF Trigger
  <1> QED BY <1>1, <1>2, <1>3, <1>4, <1>5 DEF Next

\* What a step can do to the stages: nothing, or move one run, which becomes
\* active only when it was, or when no run was.
Moves(r) ==
    /\ \A s \in Run \ {r} : stage'[s] = stage[s]
    /\ stage'[r] \in TaskStage => Active(r) \/ MayStart(r)

LEMMA StageStep ==
    ASSUME TypeOK, [Next]_vars
    PROVE  stage' = stage \/ \E r \in Run : Moves(r)
  <1>1. ASSUME NEW r \in Run, NEW next \in Stage, Succeed(r, next) \/ Fail(r), Active(r)
        PROVE  Moves(r)
    BY <1>1 DEF Moves, Succeed, Fail, TypeOK
  <1>2. ASSUME NEW r \in Run, RunStep(r) PROVE Moves(r)
    <2>1. CASE StartRun(r)
      BY <2>1 DEF StartRun, Moves, TypeOK
    <2>2. CASE IngestObject(r)
      BY <2>2 DEF IngestObject, Moves, Active, TaskStage
    <2>3. CASE ~StartRun(r) /\ ~IngestObject(r)
      <3>1. Active(r)
        BY <1>2, <2>3 DEF Active, TaskStage, RunStep, Scan, IngestRaises, FinishIngest,
           Gate, Validate, BuildSilver, SnapshotDim, BuildMarts, RunTests, CheckFreshness
      <3>2. \E next \in Stage : Succeed(r, next) \/ Fail(r)
        <4>1. {"ingest", "gate", "validate", "silver", "snapshot", "marts", "tests",
               "freshness", "noop", "success"} \subseteq Stage
          BY DEF Stage, TaskStage, EndStage
        <4> QED
          BY <1>2, <2>3, <4>1 DEF RunStep, Scan, IngestRaises, FinishIngest, Gate, Validate,
             BuildSilver, SnapshotDim, BuildMarts, RunTests, CheckFreshness, SucceedOrFail
      <3> QED BY <1>1, <3>1, <3>2
    <2> QED BY <2>1, <2>2, <2>3
  <1>3. ASSUME NEW r \in Run, Fault(r) PROVE Moves(r)
    <2>1. "failed" \in Stage
      BY DEF Stage, EndStage
    <2> QED BY <1>1, <1>3, <2>1 DEF Fault
  <1>4. OwnerStep \/ Tick => stage' = stage
    BY DEF OwnerStep, Upload, Place, Land, Delete, Tick
  <1>5. ASSUME NEW r \in Run, NEW f \in BOOLEAN, Trigger(r, f) PROVE Moves(r)
    BY <1>5 DEF Trigger, Moves, TypeOK, TaskStage
  <1> QED BY <1>2, <1>3, <1>4, <1>5 DEF Next

-----------------------------------------------------------------------------
\* max_active_runs=1, as a fact about states.
OneActive == \A r, s \in Run : Active(r) /\ Active(s) => r = s

LEMMA OneActiveStep == TypeOK /\ OneActive /\ [Next]_vars => OneActive'
  <1> SUFFICES ASSUME TypeOK, OneActive, [Next]_vars PROVE OneActive'
    OBVIOUS
  <1>1. CASE stage' = stage
    BY <1>1 DEF OneActive, Active
  <1>2. ASSUME NEW r \in Run, Moves(r) PROVE OneActive'
    BY <1>2 DEF OneActive, Active, Moves, MayStart
  <1> QED BY <1>1, <1>2, StageStep

\* The promise of Bronze, preserved: new content only, under its own name.
LEMMA BronzePromiseStep ==
    TypeOK /\ ExactlyOnce /\ BronzeIsGenuine /\ [Next]_vars
        => ExactlyOnce' /\ BronzeIsGenuine'
  <1> SUFFICES ASSUME TypeOK, ExactlyOnce, BronzeIsGenuine, [Next]_vars
               PROVE  ExactlyOnce' /\ BronzeIsGenuine'
    OBVIOUS
  <1>1. CASE bronze' = bronze
    BY <1>1 DEF ExactlyOnce, BronzeIsGenuine, HashMatchesKey
  <1>2. ASSUME NEW r \in Run, NEW o \in landing, Appends(r, o)
        PROVE  ExactlyOnce' /\ BronzeIsGenuine'
    <2>1. /\ DOMAIN bronze' = DOMAIN bronze \cup {Len(bronze) + 1}
          /\ \A i \in DOMAIN bronze : bronze'[i] = bronze[i]
          /\ bronze'[Len(bronze) + 1] = o
      BY <1>2 DEF Appends, TypeOK
    <2>2. \A i \in DOMAIN bronze : bronze[i].content # o.content
      BY <1>2 DEF Appends, IngestedHashes
    <2>3. ExactlyOnce'
      BY <2>1, <2>2 DEF ExactlyOnce
    <2>4. BronzeIsGenuine'
      BY <1>2, <2>1 DEF BronzeIsGenuine, HashMatchesKey, Appends
    <2> QED BY <2>3, <2>4
  <1> QED BY <1>1, <1>2, BronzeStep

\* While a run is past its snapshot, its marts or its tests, the layers it has
\* built are built from all of Bronze.
Settled ==
    \A r \in Run :
        /\ stage[r] \in {"snapshot", "marts", "tests", "freshness"} => silver = Len(bronze)
        /\ stage[r] \in {"marts", "tests", "freshness"} => dim = silver
        /\ stage[r] \in {"tests", "freshness"} => marts = silver

\* The steps of one run and what they can do to the layers.
LEMMA LayerStep ==
    ASSUME TypeOK, [Next]_vars
    PROVE  \/ UNCHANGED layerVars
           \/ \E r \in Run : BuildSilver(r) \/ SnapshotDim(r) \/ BuildMarts(r)
  <1>1. ASSUME NEW r \in Run, RunStep(r),
               ~(BuildSilver(r) \/ SnapshotDim(r) \/ BuildMarts(r))
        PROVE  UNCHANGED layerVars
    BY <1>1 DEF RunStep, StartRun, Scan, IngestObject, IngestRaises, FinishIngest, Gate,
       Validate, RunTests, CheckFreshness
  <1>2. ASSUME NEW r \in Run, Fault(r) PROVE UNCHANGED layerVars
    BY <1>2 DEF Fault
  <1>3. OwnerStep \/ Tick => UNCHANGED layerVars
    BY DEF OwnerStep, Upload, Place, Land, Delete, Tick
  <1>4. ASSUME NEW r \in Run, NEW f \in BOOLEAN, Trigger(r, f) PROVE UNCHANGED layerVars
    BY <1>4 DEF Trigger
  <1> QED BY <1>1, <1>2, <1>3, <1>4 DEF Next

LEMMA LayersInOrderStep ==
    TypeOK /\ Settled /\ LayersInOrder /\ [Next]_vars => LayersInOrder'
  <1> SUFFICES ASSUME TypeOK, Settled, LayersInOrder, [Next]_vars PROVE LayersInOrder'
    OBVIOUS
  <1>1. Len(bronze) \in Nat /\ Len(bronze') \in Nat /\ Len(bronze) <= Len(bronze')
    <2>1. ASSUME NEW r \in Run, NEW o \in landing, Appends(r, o)
          PROVE  Len(bronze') = Len(bronze) + 1
      BY <2>1 DEF Appends, TypeOK
    <2>2. Len(bronze) \in Nat
      BY DEF TypeOK
    <2> QED BY <2>1, <2>2, BronzeStep
  <1>2. CASE UNCHANGED layerVars
    BY <1>1, <1>2 DEF LayersInOrder, TypeOK
  <1>3. ASSUME NEW r \in Run, BuildSilver(r) PROVE LayersInOrder'
    BY <1>1, <1>3 DEF BuildSilver, LayersInOrder, TypeOK
  <1>4. ASSUME NEW r \in Run, SnapshotDim(r) PROVE LayersInOrder'
    BY <1>1, <1>4 DEF SnapshotDim, LayersInOrder, TypeOK
  <1>5. ASSUME NEW r \in Run, BuildMarts(r) PROVE LayersInOrder'
    BY <1>1, <1>5 DEF BuildMarts, LayersInOrder, Settled, TypeOK
  <1> QED BY <1>2, <1>3, <1>4, <1>5, LayerStep

\* How a run comes to a stage past BuildSilver: from the stage itself, or from
\* the one before it.
LEMMA SettledStages ==
    ASSUME TypeOK, [Next]_vars, NEW r \in Run,
           stage'[r] \in {"snapshot", "marts", "tests", "freshness"},
           stage'[r] # stage[r]
    PROVE  \/ BuildSilver(r) /\ stage'[r] = "snapshot"
           \/ SnapshotDim(r) /\ stage'[r] = "marts"
           \/ BuildMarts(r) /\ stage'[r] = "tests"
           \/ RunTests(r) /\ stage[r] = "tests" /\ stage'[r] = "freshness"
  <1>1. ASSUME NEW s \in Run, NEW next \in {"ingest", "gate", "validate", "silver", "noop",
                                            "success", "failed"},
               Succeed(s, next) \/ Fail(s)
        PROVE  FALSE
    BY <1>1 DEF Succeed, Fail, TypeOK
  <1>2. ASSUME NEW s \in Run, RunStep(s)
        PROVE  \/ BuildSilver(r) /\ stage'[r] = "snapshot"
               \/ SnapshotDim(r) /\ stage'[r] = "marts"
               \/ BuildMarts(r) /\ stage'[r] = "tests"
               \/ RunTests(r) /\ stage[r] = "tests" /\ stage'[r] = "freshness"
    <2>1. ~StartRun(s) /\ ~IngestObject(s)
      BY DEF StartRun, IngestObject, TypeOK
    <2>2. /\ ~Scan(s) /\ ~IngestRaises(s) /\ ~FinishIngest(s)
          /\ ~Gate(s) /\ ~Validate(s) /\ ~CheckFreshness(s)
      BY <1>1 DEF Scan, IngestRaises, FinishIngest, Gate, Validate, CheckFreshness,
         SucceedOrFail
    <2>3. ~Fail(s)
      BY <1>1
    <2>4. CASE BuildSilver(s)
      BY <2>3, <2>4 DEF BuildSilver, SucceedOrFail, Succeed, TypeOK
    <2>5. CASE SnapshotDim(s)
      BY <2>3, <2>5 DEF SnapshotDim, SucceedOrFail, Succeed, TypeOK
    <2>6. CASE BuildMarts(s)
      BY <2>3, <2>6 DEF BuildMarts, SucceedOrFail, Succeed, TypeOK
    <2>7. CASE RunTests(s)
      BY <2>3, <2>7 DEF RunTests, Succeed, TypeOK
    <2> QED BY <1>2, <2>1, <2>2, <2>4, <2>5, <2>6, <2>7 DEF RunStep
  <1>3. ASSUME NEW s \in Run, Fault(s) PROVE FALSE
    BY <1>1, <1>3 DEF Fault
  <1>4. ~OwnerStep /\ ~Tick /\ ~UNCHANGED vars
    BY DEF OwnerStep, Upload, Place, Land, Delete, Tick
  <1>5. ASSUME NEW s \in Run, NEW f \in BOOLEAN, Trigger(s, f) PROVE FALSE
    BY <1>5 DEF Trigger, TypeOK
  <1> QED BY <1>2, <1>3, <1>4, <1>5 DEF Next

LEMMA SettledStep == TypeOK /\ OneActive /\ Settled /\ [Next]_vars => Settled'
  <1> SUFFICES ASSUME TypeOK, OneActive, Settled, [Next]_vars, NEW r \in Run
               PROVE  /\ stage'[r] \in {"snapshot", "marts", "tests", "freshness"}
                            => silver' = Len(bronze')
                      /\ stage'[r] \in {"marts", "tests", "freshness"} => dim' = silver'
                      /\ stage'[r] \in {"tests", "freshness"} => marts' = silver'
    BY DEF Settled
  <1> SUFFICES ASSUME stage'[r] \in {"snapshot", "marts", "tests", "freshness"}
               PROVE  /\ silver' = Len(bronze')
                      /\ stage'[r] \in {"marts", "tests", "freshness"} => dim' = silver'
                      /\ stage'[r] \in {"tests", "freshness"} => marts' = silver'
    OBVIOUS
  <1>1. CASE stage'[r] # stage[r]
    BY <1>1, SettledStages
       DEF BuildSilver, SnapshotDim, BuildMarts, RunTests, Settled, TypeOK
  <1>2. CASE stage'[r] = stage[r]
    <2>1. Active(r)
      BY <1>2 DEF Active, TaskStage
    <2>2. bronze' = bronze
      <3>1. ASSUME NEW s \in Run, NEW o \in landing, Appends(s, o) PROVE FALSE
        <4>1. Active(s)
          BY <3>1 DEF Appends, Active, TaskStage
        <4>2. s = r
          BY <2>1, <4>1 DEF OneActive
        <4> QED BY <1>2, <3>1, <4>2 DEF Appends
      <3> QED BY <3>1, BronzeStep
    <2>3. CASE UNCHANGED layerVars
      BY <1>2, <2>2, <2>3 DEF Settled
    <2>4. ASSUME NEW s \in Run, BuildSilver(s) \/ SnapshotDim(s) \/ BuildMarts(s)
          PROVE  BuildSilver(r) \/ SnapshotDim(r) \/ BuildMarts(r)
      <3>1. Active(s)
        BY <2>4 DEF BuildSilver, SnapshotDim, BuildMarts, Active, TaskStage
      <3> QED BY <2>1, <2>4, <3>1 DEF OneActive
    <2>5. CASE BuildSilver(r)
      BY <1>2, <2>5 DEF BuildSilver
    <2>6. CASE SnapshotDim(r)
      BY <1>2, <2>6 DEF SnapshotDim, Settled
    <2>7. CASE BuildMarts(r)
      BY <1>2, <2>7 DEF BuildMarts, Settled
    <2> QED BY <2>3, <2>4, <2>5, <2>6, <2>7, LayerStep
  <1> QED BY <1>1, <1>2

-----------------------------------------------------------------------------
(***************************************************************************)
(* The inductive invariant of the promises above.  ExactlyOnce needs       *)
(* nothing but itself; the order of the layers needs Settled, and Settled  *)
(* needs that one run at most is active.                                   *)
(***************************************************************************)
IInv == TypeOK /\ OneActive /\ ExactlyOnce /\ BronzeIsGenuine /\ Settled /\ LayersInOrder

THEOREM Inductive == Spec => []IInv
  <1>1. Init => IInv
    <2>1. Init => OneActive /\ ExactlyOnce /\ BronzeIsGenuine /\ Settled
      BY DEF Init, OneActive, Active, TaskStage, ExactlyOnce, BronzeIsGenuine, Settled
    <2>2. Init => LayersInOrder
      BY DEF Init, LayersInOrder
    <2> QED BY <2>1, <2>2, TypeInit DEF IInv
  <1>2. IInv /\ [Next]_vars => IInv'
    BY TypeStep, OneActiveStep, BronzePromiseStep, SettledStep, LayersInOrderStep DEF IInv
  <1> QED BY <1>1, <1>2, PTL DEF Spec

\* No content enters Bronze twice, whatever is uploaded again or retried.
THEOREM BronzeExactlyOnce == Spec => []ExactlyOnce
  <1>1. IInv => ExactlyOnce
    BY DEF IInv
  <1> QED BY <1>1, Inductive, PTL

\* Nothing is ingested that does not parse or whose name claims another hash.
THEOREM BronzeGenuine == Spec => []BronzeIsGenuine
  <1>1. IInv => BronzeIsGenuine
    BY DEF IInv
  <1> QED BY <1>1, Inductive, PTL

\* Marts never show what dim_connection, Silver or Bronze do not have.
THEOREM LayersStayInOrder == Spec => []LayersInOrder
  <1>1. IInv => LayersInOrder
    BY DEF IInv
  <1> QED BY <1>1, Inductive, PTL

\* Only check_source_freshness ends a run in success.
LEMMA SuccessMoves ==
    ASSUME TypeOK, [Next]_vars, NEW r \in Run, stage'[r] = "success", stage[r] # "success"
    PROVE  CheckFreshness(r)
  <1>1. ASSUME NEW s \in Run, NEW next \in Stage \ {"success"}, Succeed(s, next) \/ Fail(s)
        PROVE  FALSE
    BY <1>1 DEF Succeed, Fail, TypeOK
  <1>2. {"ingest", "gate", "validate", "silver", "snapshot", "marts", "tests",
         "freshness", "noop"} \subseteq Stage \ {"success"}
    BY DEF Stage, TaskStage, EndStage
  <1>3. ~OwnerStep /\ ~Tick /\ ~UNCHANGED vars
    BY DEF OwnerStep, Upload, Place, Land, Delete, Tick
  <1>4. ASSUME NEW s \in Run, NEW f \in BOOLEAN, Trigger(s, f) PROVE FALSE
    BY <1>4 DEF Trigger, TypeOK
  <1>5. ASSUME NEW s \in Run, Fault(s) PROVE FALSE
    BY <1>1, <1>2, <1>5 DEF Fault
  <1>6. ASSUME NEW s \in Run, RunStep(s) PROVE CheckFreshness(r)
    <2>1. ~StartRun(s) /\ ~IngestObject(s)
      BY DEF StartRun, IngestObject, TypeOK
    <2>2. /\ ~Scan(s) /\ ~IngestRaises(s) /\ ~FinishIngest(s) /\ ~Gate(s) /\ ~Validate(s)
          /\ ~BuildSilver(s) /\ ~SnapshotDim(s) /\ ~BuildMarts(s) /\ ~RunTests(s)
      BY <1>1, <1>2 DEF Scan, IngestRaises, FinishIngest, Gate, Validate, BuildSilver,
         SnapshotDim, BuildMarts, RunTests, SucceedOrFail
    <2>3. CheckFreshness(s)
      BY <1>6, <2>1, <2>2 DEF RunStep
    <2>4. ~Fail(s)
      BY <1>1, <1>2
    <2> QED BY <2>3, <2>4 DEF CheckFreshness, SucceedOrFail, Succeed, TypeOK
  <1> QED BY <1>3, <1>4, <1>5, <1>6 DEF Next

\* A run that ends in success leaves every layer built from all of Bronze.
THEOREM SuccessLeavesLayersCurrent == Spec => SuccessIsCurrent
  <1>1. ASSUME IInv, [Next]_vars, NEW r \in Run, stage'[r] = "success", stage[r] # "success"
        PROVE  marts' = Len(bronze') /\ dim' = Len(bronze') /\ silver' = Len(bronze')
    BY <1>1, SuccessMoves DEF CheckFreshness, IInv, Settled
  <1>2. IInv /\ [Next]_vars =>
            [\A r \in Run : stage'[r] = "success" /\ stage[r] # "success" =>
                marts' = Len(bronze') /\ dim' = Len(bronze') /\ silver' = Len(bronze')]_vars
    BY <1>1
  <1> QED BY <1>2, Inductive, PTL DEF Spec, SuccessIsCurrent

-----------------------------------------------------------------------------
(***************************************************************************)
(* The pipeline implements the dataset of record: a batch appended to      *)
(* Bronze is an Add, a rebuild of the marts is a Publish, everything else  *)
(* stutters.                                                               *)
(***************************************************************************)
LEMMA RecordType ==
    ASSUME TypeOK
    PROVE  /\ Record \in Seq(Content)
           /\ Len(Record) = Len(bronze) /\ DOMAIN Record = DOMAIN bronze
           /\ \A i \in 1 .. Len(bronze) : Record[i] = bronze[i].content
  <1>1. /\ Len(bronze) \in Nat /\ DOMAIN bronze = 1 .. Len(bronze)
        /\ \A i \in 1 .. Len(bronze) : bronze[i].content \in Content
    <2>1. bronze \in Seq(LandingObject)
      BY DEF TypeOK
    <2>2. /\ Len(bronze) \in Nat /\ DOMAIN bronze = 1 .. Len(bronze)
          /\ bronze \in [1 .. Len(bronze) -> LandingObject]
      BY <2>1, LenProperties
    <2> QED BY <2>2 DEF LandingObject
  <1>2. Record \in [1 .. Len(bronze) -> Content]
    BY <1>1 DEF Record
  <1>3. Record \in Seq(Content)
    BY <1>1, <1>2, SeqDef
  <1>4. Len(Record) = Len(bronze)
    BY <1>1, <1>2, <1>3, LenProperties
  <1> QED BY <1>1, <1>2, <1>3, <1>4 DEF Record

LEMMA RecordedIsIngested ==
    ASSUME TypeOK PROVE Dataset!Recorded = IngestedHashes
  <1>1. Dataset!Recorded = {Record[i] : i \in 1 .. Len(bronze)}
    BY RecordType DEF Dataset!Recorded, TypeOK
  <1>2. IngestedHashes = {bronze[i].content : i \in 1 .. Len(bronze)}
    BY DEF IngestedHashes, TypeOK
  <1> QED BY <1>1, <1>2, RecordType

LEMMA DatasetStep ==
    ASSUME IInv, [Next]_vars PROVE [Dataset!Next]_<<Record, marts>>
  <1>t. TypeOK
    BY DEF IInv
  <1>1. ASSUME NEW r \in Run, NEW o \in landing, Appends(r, o)
        PROVE  Dataset!Add(o.content)
    <2>1. o.content \notin Dataset!Recorded
      BY <1>t, <1>1, RecordedIsIngested DEF Appends
    <2>2. Record' = Append(Record, o.content)
      <3>1. /\ Len(bronze') = Len(bronze) + 1 /\ Len(bronze) \in Nat
            /\ \A i \in 1 .. Len(bronze) : bronze'[i] = bronze[i]
            /\ bronze'[Len(bronze) + 1] = o
        BY <1>t, <1>1 DEF Appends, TypeOK
      <3>2. /\ Record \in Seq(Content) /\ Len(Record) = Len(bronze)
            /\ \A i \in 1 .. Len(bronze) : Record[i] = bronze[i].content
        BY <1>t, RecordType
      <3>3. o.content \in Content
        BY <1>1 DEF Appends, LandingObject
      <3>4. Append(Record, o.content) = [i \in 1 .. Len(bronze) + 1 |->
                IF i = Len(bronze) + 1 THEN o.content ELSE Record[i]]
        BY <3>1, <3>2, <3>3
      <3> QED BY <3>1, <3>2, <3>4 DEF Record
    <2>3. UNCHANGED marts
      BY <1>1 DEF Appends
    <2> QED BY <2>1, <2>2, <2>3 DEF Dataset!Add
  <1>2. CASE bronze' = bronze
    <2>1. Record' = Record
      BY <1>2 DEF Record
    <2>2. CASE UNCHANGED layerVars
      BY <2>1, <2>2
    <2>3. ASSUME NEW r \in Run, BuildSilver(r) \/ SnapshotDim(r) PROVE UNCHANGED marts
      BY <2>3 DEF BuildSilver, SnapshotDim
    <2>4. ASSUME NEW r \in Run, BuildMarts(r) PROVE Dataset!Publish
      <3>1. marts' = Len(bronze)
        BY <2>4 DEF BuildMarts, IInv, Settled
      <3>2. Len(Record) = Len(bronze)
        BY <1>t DEF Record, TypeOK
      <3> QED BY <2>1, <3>1, <3>2 DEF Dataset!Publish
    <2> QED BY <1>t, <2>1, <2>2, <2>3, <2>4, LayerStep DEF Dataset!Next
  <1>3. ASSUME NEW r \in Run, NEW o \in landing, Appends(r, o)
        PROVE  Dataset!Next
    <2>1. o.content \in Content
      BY <1>3 DEF Appends, LandingObject
    <2> QED BY <1>1, <1>3, <2>1 DEF Dataset!Next
  <1> QED BY <1>t, <1>2, <1>3, BronzeStep

\* The detailed pipeline implements the abstract dataset of record.
THEOREM Refinement == Spec => ImplementsDataset
  <1>1. Init => Dataset!Init
    BY DEF Init, Dataset!Init, Record
  <1>2. IInv /\ [Next]_vars => [Dataset!Next]_(Dataset!vars)
    BY DatasetStep DEF Dataset!vars
  <1> QED BY <1>1, <1>2, Inductive, PTL DEF Spec, ImplementsDataset, Dataset!Spec

-----------------------------------------------------------------------------
(***************************************************************************)
(* What the gates of Ingestion let through: its scan, its ingest task, its *)
(* checkpoint and its dbt tests.                                           *)
(***************************************************************************)

\* A run that is active holds Bronze still unless it is at its ingest task.
LEMMA BronzeStill ==
    ASSUME TypeOK, OneActive, [Next]_vars, NEW r \in Run, Active(r), stage[r] # "ingest"
    PROVE  bronze' = bronze
  <1>1. ASSUME NEW s \in Run, NEW o \in landing, Appends(s, o) PROVE FALSE
    <2>1. Active(s)
      BY <1>1 DEF Appends, Active, TaskStage
    <2>2. s = r
      BY <2>1 DEF OneActive
    <2> QED BY <1>1, <2>2 DEF Appends
  <1> QED BY <1>1, BronzeStep

\* Whatever Bronze grows by, its first batches stay what they were.
LEMMA BronzeKeeps ==
    ASSUME TypeOK, [Next]_vars
    PROVE  /\ Len(bronze) \in Nat /\ Len(bronze') \in Nat /\ Len(bronze) <= Len(bronze')
           /\ \A i \in 1 .. Len(bronze) : bronze'[i] = bronze[i]
           /\ IngestedHashes \subseteq IngestedHashes'
  <1>1. /\ bronze \in Seq(LandingObject) /\ bronze' \in Seq(LandingObject)
    BY TypeStep DEF TypeOK
  <1>2. /\ Len(bronze) \in Nat /\ DOMAIN bronze = 1 .. Len(bronze)
        /\ Len(bronze') \in Nat /\ DOMAIN bronze' = 1 .. Len(bronze')
    BY <1>1, LenProperties
  <1>3. ASSUME NEW r \in Run, NEW o \in landing, Appends(r, o)
        PROVE  /\ Len(bronze') = Len(bronze) + 1
               /\ \A i \in 1 .. Len(bronze) : bronze'[i] = bronze[i]
    BY <1>1, <1>3 DEF Appends
  <1>4. /\ Len(bronze) <= Len(bronze')
        /\ \A i \in 1 .. Len(bronze) : bronze'[i] = bronze[i]
    <2>1. CASE bronze' = bronze
      BY <1>2, <2>1
    <2>2. CASE bronze' # bronze
      <3>1. PICK r \in Run, o \in landing : Appends(r, o)
        BY <2>2, BronzeStep
      <3>2. /\ Len(bronze') = Len(bronze) + 1
            /\ \A i \in 1 .. Len(bronze) : bronze'[i] = bronze[i]
        BY <1>3, <3>1
      <3> QED BY <1>2, <3>2
    <2> QED BY <2>1, <2>2
  <1>5. IngestedHashes \subseteq IngestedHashes'
    BY <1>2, <1>4 DEF IngestedHashes
  <1> QED BY <1>2, <1>4, <1>5

-----------------------------------------------------------------------------
(***************************************************************************)
(* The list of the ingest task.                                            *)
(***************************************************************************)

Unscanned == {"none", "queued", "scan"}

\* A key names one object, a try works off what was pending, and nothing is pending
\* before the scan.
Listed ==
    /\ \A o, p \in landing : o.key = p.key => o = p
    /\ \A r \in Run : /\ todo[r] \subseteq pending[r]
                      /\ stage[r] \in Unscanned => pending[r] = {}

LEMMA ListStep == TypeOK /\ Listed /\ [Next]_vars => Listed'
  <1> SUFFICES ASSUME TypeOK, Listed, [Next]_vars PROVE Listed'
    OBVIOUS
  <1>0. ASSUME NEW r \in Run, NEW next \in Stage \ Unscanned, Succeed(r, next) \/ Fail(r)
        PROVE  \A s \in Run : stage'[s] \in Unscanned => stage[s] = stage'[s]
    BY <1>0 DEF Succeed, Fail, TypeOK, Unscanned
  <1>1. ASSUME NEW o, Land(o) PROVE Listed'
    BY <1>1 DEF Land, Listed
  <1>2. ASSUME NEW o \in landing, Delete(o) PROVE Listed'
    BY <1>2 DEF Delete, Listed
  <1>3. ASSUME UNCHANGED <<landing, pending, todo>>,
               \A s \in Run : stage'[s] \in Unscanned => stage[s] \in Unscanned
        PROVE  Listed'
    BY <1>3 DEF Listed
  <1>4. ASSUME NEW r \in Run, ResetReport(r), UNCHANGED <<landing, pending>>,
               \A s \in Run : stage'[s] \in Unscanned => stage[s] \in Unscanned
        PROVE  Listed'
    BY <1>4 DEF ResetReport, Listed, TypeOK
  <1>s. {"ingest", "gate", "validate", "silver", "snapshot", "marts", "tests",
         "freshness", "noop", "success"} \subseteq Stage \ Unscanned
    BY DEF Stage, TaskStage, EndStage, Unscanned
  <1>5. ASSUME NEW r \in Run, Scan(r) PROVE Listed'
    <2>1. stage' = [stage EXCEPT ![r] = "ingest"] /\ landing' = landing
          /\ todo' = [todo EXCEPT ![r] = Candidates]
          /\ pending' = [pending EXCEPT ![r] = Candidates]
      BY <1>5 DEF Scan, Succeed
    <2> QED BY <2>1 DEF Listed, TypeOK, Unscanned
  <1>6. ASSUME NEW r \in Run, IngestObject(r) PROVE Listed'
    <2>1. PICK o : todo' = [todo EXCEPT ![r] = @ \ {o.key}]
      BY <1>6 DEF IngestObject
    <2>2. UNCHANGED <<landing, pending, stage>>
      BY <1>6 DEF IngestObject
    <2> QED BY <2>1, <2>2 DEF Listed, TypeOK
  <1>7. ASSUME NEW r \in Run, Fault(r) PROVE Listed'
    <2>1. \A s \in Run : stage'[s] \in Unscanned => stage[s] \in Unscanned
      BY <1>7 DEF Fault, Fail, TypeOK, Unscanned
    <2>2. CASE stage[r] = "ingest"
      BY <1>4, <1>7, <2>1, <2>2 DEF Fault
    <2>3. CASE stage[r] # "ingest"
      BY <1>3, <1>7, <2>1, <2>3 DEF Fault
    <2> QED BY <2>2, <2>3
  <1>8. ASSUME NEW r \in Run, IngestRaises(r) PROVE Listed'
    <2>1. \A s \in Run : stage'[s] \in Unscanned => stage[s] \in Unscanned
      BY <1>8 DEF IngestRaises, Fail, TypeOK, Unscanned
    <2> QED BY <1>4, <1>8, <2>1 DEF IngestRaises
  <1>9. ASSUME NEW r \in Run,
               \/ FinishIngest(r) \/ Gate(r) \/ Validate(r)
               \/ BuildSilver(r) \/ SnapshotDim(r) \/ BuildMarts(r)
               \/ RunTests(r) \/ CheckFreshness(r)
        PROVE  Listed'
    <2>1. \E next \in Stage \ Unscanned : Succeed(r, next) \/ Fail(r)
      BY <1>9, <1>s DEF FinishIngest, Gate, Validate, BuildSilver, SnapshotDim,
         BuildMarts, RunTests, CheckFreshness, SucceedOrFail
    <2>2. UNCHANGED <<landing, pending, todo>>
      BY <1>9 DEF FinishIngest, Gate, Validate, BuildSilver, SnapshotDim,
         BuildMarts, RunTests, CheckFreshness
    <2> QED BY <1>0, <1>3, <2>1, <2>2
  <1>10. ASSUME NEW r \in Run, StartRun(r) PROVE Listed'
    BY <1>3, <1>10 DEF StartRun, TypeOK, Unscanned
  <1>11. ASSUME NEW r \in Run, NEW f \in BOOLEAN, Trigger(r, f) PROVE Listed'
    BY <1>3, <1>11 DEF Trigger, TypeOK, Unscanned
  <1>12. CASE Tick \/ UNCHANGED vars
    BY <1>3, <1>12 DEF Tick
  <1> QED BY <1>1, <1>2, <1>5, <1>6, <1>7, <1>8, <1>9, <1>10, <1>11, <1>12
          DEF Next, OwnerStep, Upload, Place, RunStep

\* Only an ingested object, or one that is a duplicate in all of its hash, leaves the
\* list of a try.
LEMMA OffTheList ==
    ASSUME TypeOK, Listed, [Next]_vars, NEW r \in Run, NEW o \in landing,
           o.key \in todo[r], o.key \notin todo'[r]
    PROVE  o.content \in IngestedHashes' \cup Empty
  <1>1. ASSUME NEW s \in Run, IngestObject(s) PROVE o.content \in IngestedHashes' \cup Empty
    <2>1. PICK p \in Current(s) : /\ SkipDuplicate(s, p) \/ AppendBatch(s, p)
                                  /\ todo' = [todo EXCEPT ![s] = @ \ {p.key}]
      BY <1>1 DEF IngestObject
    <2>2. p \in landing /\ o.key = p.key
      BY <2>1 DEF Current, TypeOK
    <2>3. o = p
      BY <2>2 DEF Listed
    <2>4. CASE SkipDuplicate(s, p)
      BY <2>3, <2>4, BronzeKeeps DEF SkipDuplicate
    <2>5. CASE AppendBatch(s, p)
      <3>1. CASE p.content \in Empty
        BY <2>3, <3>1
      <3>2. CASE p.content \notin Empty
        <4>1. bronze' = Append(bronze, p) /\ bronze \in Seq(LandingObject) /\ p \in LandingObject
          BY <2>2, <2>5, <3>2 DEF AppendBatch, TypeOK
        <4>2. Len(bronze) + 1 \in DOMAIN bronze' /\ bronze'[Len(bronze) + 1] = p
          BY <4>1
        <4> QED BY <2>3, <4>2 DEF IngestedHashes
      <3> QED BY <3>1, <3>2
    <2> QED BY <2>1, <2>4, <2>5
  <1>2. ASSUME NEW s \in Run, ResetReport(s), pending' = pending PROVE FALSE
    BY <1>2 DEF ResetReport, Listed, TypeOK
  <1>3. todo' # todo
    OBVIOUS
  <1>4. ASSUME NEW s \in Run, RunStep(s) PROVE o.content \in IngestedHashes' \cup Empty
    <2>1. ~Scan(s)
      <3> SUFFICES ASSUME Scan(s) PROVE FALSE
        OBVIOUS
      <3>1. stage[s] = "scan" /\ todo' = [todo EXCEPT ![s] = Candidates]
        BY DEF Scan
      <3>2. todo[s] = {}
        BY <3>1 DEF Listed, Unscanned
      <3> QED BY <3>1, <3>2 DEF TypeOK
    <2>2. ~IngestRaises(s)
      BY <1>2 DEF IngestRaises
    <2>3. /\ ~StartRun(s) /\ ~FinishIngest(s) /\ ~Gate(s) /\ ~Validate(s) /\ ~BuildSilver(s)
          /\ ~SnapshotDim(s) /\ ~BuildMarts(s) /\ ~RunTests(s) /\ ~CheckFreshness(s)
      BY <1>3 DEF StartRun, FinishIngest, Gate, Validate, BuildSilver, SnapshotDim,
         BuildMarts, RunTests, CheckFreshness
    <2> QED BY <1>1, <1>4, <2>1, <2>2, <2>3 DEF RunStep
  <1>5. ASSUME NEW s \in Run, Fault(s) PROVE FALSE
    BY <1>2, <1>3, <1>5 DEF Fault
  <1>6. ~OwnerStep /\ ~Tick /\ ~UNCHANGED vars
    BY <1>3 DEF OwnerStep, Upload, Place, Land, Delete, Tick
  <1>7. ASSUME NEW s \in Run, NEW f \in BOOLEAN, Trigger(s, f) PROVE FALSE
    BY <1>3, <1>7 DEF Trigger
  <1> QED BY <1>4, <1>5, <1>6, <1>7 DEF Next

\* Whatever short hashes collide, the ingest task passes over an object of its list
\* only if its content is in Bronze, or has no row.
THEOREM ListIsWorkedOff == Spec => FullHashDecides
  <1>1. Init => Listed
    BY DEF Init, Listed
  <1>2. Spec => [](TypeOK /\ Listed)
    BY <1>1, TypeInit, TypeStep, ListStep, PTL DEF Spec
  <1>3. TypeOK /\ Listed /\ [Next]_vars =>
          [\A r \in Run : \A o \in landing :
              o.key \in todo[r] /\ o.key \notin todo'[r] =>
                  o.content \in IngestedHashes' \cup Empty]_vars
    BY OffTheList
  <1> QED BY <1>2, <1>3, PTL DEF Spec, FullHashDecides

-----------------------------------------------------------------------------
(***************************************************************************)
(* The ingest task.                                                        *)
(***************************************************************************)

\* What a try of the ingest task has taken off its list is accounted for.
Handled ==
    \A r \in Run : stage[r] = "ingest" => \A k \in pending[r] \ todo[r] : AccountedFor(k)

PassInv == TypeOK /\ Handled /\ NothingPassedOver

LEMMA AccountedForStays ==
    ASSUME TypeOK, [Next]_vars, NEW k, AccountedFor(k) PROVE AccountedFor(k)'
  BY BronzeKeeps DEF AccountedFor

\* A run stays at its ingest task, or goes on from it, only as its own steps
\* say; every other run keeps its place and its lists.
LEMMA PassStep == PassInv /\ [Next]_vars => PassInv'
  <1> SUFFICES ASSUME PassInv, [Next]_vars PROVE PassInv'
    OBVIOUS
  <1>t. TypeOK /\ TypeOK'
    BY TypeStep DEF PassInv
  <1>0. ASSUME NEW r \in Run, pending'[r] = pending[r], todo'[r] = todo[r],
               stage'[r] \in PastIngest \cup {"ingest"} =>
                  \/ stage'[r] = stage[r]
                  \/ stage[r] \in PastIngest /\ stage'[r] \in PastIngest
        PROVE  /\ stage'[r] = "ingest" => \A k \in pending'[r] \ todo'[r] : AccountedFor(k)'
               /\ stage'[r] \in PastIngest => \A k \in pending'[r] : AccountedFor(k)'
    BY <1>t, <1>0, AccountedForStays DEF PassInv, Handled, NothingPassedOver, PastIngest
  <1>1. ASSUME NEW r \in Run,
               \A s \in Run \ {r} : /\ stage'[s] = stage[s]
                                    /\ pending'[s] = pending[s] /\ todo'[s] = todo[s],
               stage'[r] = "ingest" => \A k \in pending'[r] \ todo'[r] : AccountedFor(k)',
               stage'[r] \in PastIngest => \A k \in pending'[r] : AccountedFor(k)'
        PROVE  PassInv'
    BY <1>t, <1>0, <1>1 DEF PassInv, Handled, NothingPassedOver
  <1>2. ASSUME NEW r \in Run, NEW next \in Stage, Succeed(r, next) \/ Fail(r)
        PROVE  /\ \A s \in Run \ {r} : stage'[s] = stage[s]
               /\ stage'[r] \in {stage[r], next, "failed"}
    BY <1>t, <1>2 DEF Succeed, Fail, TypeOK
  <1>3. ASSUME OwnerStep \/ Tick \/ UNCHANGED vars PROVE PassInv'
    <2>1. UNCHANGED <<stage, pending, todo>>
      BY <1>3 DEF OwnerStep, Upload, Place, Land, Delete, Tick
    <2> QED BY <1>t, <1>0, <2>1 DEF PassInv, Handled, NothingPassedOver
  <1>4. ASSUME NEW r \in Run, NEW f \in BOOLEAN, Trigger(r, f) PROVE PassInv'
    <2>1. stage'[r] = "queued" /\ \A s \in Run \ {r} : stage'[s] = stage[s]
      BY <1>t, <1>4 DEF Trigger, TypeOK
    <2>2. UNCHANGED <<pending, todo>>
      BY <1>4 DEF Trigger
    <2> QED BY <1>1, <2>1, <2>2 DEF PastIngest
  <1>5. ASSUME NEW r \in Run, ResetReport(r), UNCHANGED pending, Fail(r), stage[r] = "ingest"
        PROVE  PassInv'
    <2>1. todo'[r] = pending'[r] /\ \A s \in Run \ {r} : todo'[s] = todo[s]
      BY <1>t, <1>5 DEF ResetReport, TypeOK
    <2>2. stage'[r] \in {"ingest", "failed"} /\ \A s \in Run \ {r} : stage'[s] = stage[s]
      BY <1>t, <1>5 DEF Fail, TypeOK
    <2> QED BY <1>1, <1>5, <2>1, <2>2 DEF PastIngest
  <1>6. ASSUME NEW r \in Run, NEW next \in PastIngest, Succeed(r, next) \/ Fail(r),
               UNCHANGED <<pending, todo>>, stage[r] \in PastIngest \cup {"scan"},
               stage[r] = "scan" => Fail(r)
        PROVE  PassInv'
    <2>1. next \in Stage
      BY DEF PastIngest, Stage, TaskStage, EndStage
    <2>2. /\ \A s \in Run \ {r} : stage'[s] = stage[s]
          /\ stage'[r] \in {stage[r], next, "failed"}
      BY <1>2, <1>6, <2>1
    <2>3. stage[r] = "scan" => stage'[r] \in {"scan", "failed"}
      BY <1>t, <1>6 DEF Fail, TypeOK
    <2>4. /\ stage'[r] = "ingest" => FALSE
          /\ stage'[r] \in PastIngest => stage[r] \in PastIngest
      BY <1>6, <2>2, <2>3 DEF PastIngest
    <2> QED BY <1>0, <1>1, <1>6, <2>2, <2>4
  <1>7. ASSUME NEW r \in Run, RunStep(r) PROVE PassInv'
    <2>1. CASE StartRun(r)
      <3>1. stage'[r] = "scan" /\ \A s \in Run \ {r} : stage'[s] = stage[s]
        BY <1>t, <2>1 DEF StartRun, TypeOK
      <3> QED BY <1>1, <2>1, <3>1 DEF StartRun, PastIngest
    <2>2. CASE Scan(r)
      <3>1. /\ pending'[r] = todo'[r] /\ stage'[r] = "ingest"
            /\ \A s \in Run \ {r} : /\ stage'[s] = stage[s]
                                    /\ pending'[s] = pending[s] /\ todo'[s] = todo[s]
        BY <1>t, <2>2 DEF Scan, Succeed, TypeOK
      <3> QED BY <1>1, <3>1 DEF PastIngest
    <2>3. CASE IngestObject(r)
      <3>1. PICK o \in Current(r) :
              /\ HashMatchesKey(o)
              /\ SkipDuplicate(r, o) \/ AppendBatch(r, o)
              /\ todo' = [todo EXCEPT ![r] = @ \ {o.key}]
        BY <2>3 DEF IngestObject
      <3>2. UNCHANGED <<stage, pending>> /\ stage[r] = "ingest"
        BY <2>3 DEF IngestObject
      <3>3. o.content \in IngestedHashes' \cup Empty
        <4>1. CASE SkipDuplicate(r, o)
          BY <1>t, <4>1, BronzeKeeps DEF SkipDuplicate
        <4>2. CASE AppendBatch(r, o) /\ o.content \notin Empty
          <5>1. /\ bronze' = Append(bronze, o) /\ bronze \in Seq(LandingObject)
                /\ o \in LandingObject
            BY <1>t, <3>1, <4>2 DEF AppendBatch, TypeOK, Current
          <5>2. /\ Len(bronze') = Len(bronze) + 1 /\ Len(bronze) \in Nat
                /\ bronze'[Len(bronze) + 1] = o /\ DOMAIN bronze' = 1 .. Len(bronze')
            BY <1>t, <5>1, AppendProperties, LenProperties
          <5> QED BY <5>2 DEF IngestedHashes
        <4> QED BY <3>1, <4>1, <4>2
      <3>4. AccountedFor(o.key)'
        BY <3>1, <3>3 DEF AccountedFor, HashMatchesKey
      <3>5. /\ todo'[r] = todo[r] \ {o.key}
            /\ \A s \in Run \ {r} : todo'[s] = todo[s]
        BY <1>t, <3>1 DEF TypeOK
      <3>6. \A k \in pending'[r] \ todo'[r] : AccountedFor(k)'
        <4> SUFFICES ASSUME NEW k \in pending'[r] \ todo'[r] PROVE AccountedFor(k)'
          OBVIOUS
        <4>1. CASE k = o.key
          BY <3>4, <4>1
        <4>2. CASE k # o.key
          <5>1. k \in pending[r] \ todo[r]
            BY <3>2, <3>5, <4>2
          <5>2. AccountedFor(k)
            BY <3>2, <5>1 DEF PassInv, Handled
          <5> QED BY <1>t, <5>2, AccountedForStays
        <4> QED BY <4>1, <4>2
      <3>7. stage'[r] \notin PastIngest
        BY <3>2 DEF PastIngest
      <3> QED BY <1>1, <3>2, <3>5, <3>6, <3>7
    <2>4. CASE IngestRaises(r)
      BY <1>5, <2>4 DEF IngestRaises
    <2>5. CASE FinishIngest(r)
      <3>1. /\ stage'[r] = "gate" /\ todo'[r] = {} /\ UNCHANGED <<pending, todo>>
            /\ \A s \in Run \ {r} : stage'[s] = stage[s]
        BY <1>t, <2>5 DEF FinishIngest, Succeed, TypeOK
      <3>2. \A k \in pending[r] : AccountedFor(k)
        BY <2>5 DEF FinishIngest, PassInv, Handled
      <3>3. \A k \in pending'[r] : AccountedFor(k)'
        BY <1>t, <3>1, <3>2, AccountedForStays
      <3> QED BY <1>1, <3>1, <3>3
    <2>6. CASE Gate(r) \/ Validate(r)
      BY <1>6, <2>6 DEF Gate, Validate, PastIngest
    <2>7. CASE BuildSilver(r) \/ SnapshotDim(r) \/ BuildMarts(r)
      BY <1>6, <2>7 DEF BuildSilver, SnapshotDim, BuildMarts, SucceedOrFail, PastIngest
    <2>8. CASE RunTests(r) \/ CheckFreshness(r)
      BY <1>6, <2>8 DEF RunTests, CheckFreshness, SucceedOrFail, PastIngest
    <2> QED BY <1>7, <2>1, <2>2, <2>3, <2>4, <2>5, <2>6, <2>7, <2>8 DEF RunStep
  <1>8. ASSUME NEW r \in Run, Fault(r) PROVE PassInv'
    <2>1. CASE stage[r] = "ingest"
      BY <1>5, <1>8, <2>1 DEF Fault
    <2>2. CASE stage[r] # "ingest"
      <3>1. stage[r] \in PastIngest \cup {"scan"}
        BY <1>8, <2>2 DEF Fault, Active, TaskStage, PastIngest
      <3>2. UNCHANGED <<pending, todo>> /\ Fail(r)
        BY <1>8, <2>2 DEF Fault
      <3>3. "gate" \in PastIngest
        BY DEF PastIngest
      <3> QED BY <1>6, <3>1, <3>2, <3>3
    <2> QED BY <2>1, <2>2
  <1> QED BY <1>3, <1>4, <1>7, <1>8 DEF Next

\* A run goes past its ingest task only when everything its scan found is in
\* Bronze, or had no row: an exception never lets an object slip by.
THEOREM NothingIsPassedOver == Spec => []NothingPassedOver
  <1>1. Init => PassInv
    BY TypeInit DEF Init, PassInv, Handled, NothingPassedOver, PastIngest
  <1>2. PassInv => NothingPassedOver
    BY DEF PassInv
  <1> QED BY <1>1, <1>2, PassStep, PTL DEF Spec

-----------------------------------------------------------------------------
(***************************************************************************)
(* The checkpoint and the dbt tests.                                       *)
(***************************************************************************)

\* A run about to build Silver has a newest snapshot the checkpoint accepted,
\* and a run past its tests has a history the tests accepted.
Checked ==
    \A r \in Run :
        /\ stage[r] = "silver" => CheckpointMayPass(LatestContents(Len(bronze)))
        /\ stage[r] = "freshness" => TestsMayPass(silver)

GateInv == IInv /\ Checked /\ NewestInSilverPassed

\* What is said of the first batches of Bronze stays true when it grows.
LEMMA PrefixStays ==
    ASSUME TypeOK, [Next]_vars, NEW n \in Nat, n <= Len(bronze)
    PROVE  /\ LatestContents(n)' = LatestContents(n)
           /\ TestsMayPass(n)' = TestsMayPass(n)
  <1>1. \A i \in 1 .. n : bronze'[i] = bronze[i]
    BY BronzeKeeps
  <1>2. LatestContents(n)' = LatestContents(n)
    BY <1>1 DEF LatestContents
  <1>3. \A i \in 1 .. n : AloneAtItsSecond(i, n)' = AloneAtItsSecond(i, n)
    BY <1>1 DEF AloneAtItsSecond
  <1>4. TestsMayPass(n)' = TestsMayPass(n)
    BY <1>1, <1>3 DEF TestsMayPass
  <1> QED BY <1>2, <1>4

LEMMA CheckedStages ==
    ASSUME TypeOK, [Next]_vars, NEW r \in Run,
           stage'[r] \in {"silver", "freshness"}, stage'[r] # stage[r]
    PROVE  \/ /\ Validate(r) /\ stage'[r] = "silver"
              /\ CheckpointMayPass(LatestContents(Len(bronze)))
           \/ RunTests(r) /\ TestsMayPass(silver) /\ stage'[r] = "freshness"
  <1>1. ASSUME NEW s \in Run, NEW next \in {"ingest", "gate", "validate", "snapshot", "marts",
                                            "tests", "noop", "success"},
               Succeed(s, next) \/ Fail(s)
        PROVE  FALSE
    BY <1>1 DEF Succeed, Fail, TypeOK
  <1>2. ASSUME NEW s \in Run, Fail(s) PROVE FALSE
    BY <1>1, <1>2
  <1>3. ASSUME NEW s \in Run, RunStep(s)
        PROVE  \/ /\ Validate(r) /\ stage'[r] = "silver"
                  /\ CheckpointMayPass(LatestContents(Len(bronze)))
               \/ RunTests(r) /\ TestsMayPass(silver) /\ stage'[r] = "freshness"
    <2>1. ~StartRun(s) /\ ~IngestObject(s)
      BY DEF StartRun, IngestObject, TypeOK
    <2>2. /\ ~Scan(s) /\ ~IngestRaises(s) /\ ~FinishIngest(s) /\ ~Gate(s) /\ ~BuildSilver(s)
          /\ ~SnapshotDim(s) /\ ~BuildMarts(s) /\ ~CheckFreshness(s)
      BY <1>1 DEF Scan, IngestRaises, FinishIngest, Gate, BuildSilver, SnapshotDim,
         BuildMarts, CheckFreshness, SucceedOrFail
    <2>3. CASE Validate(s)
      <3>1. CheckpointMayPass(LatestContents(Len(bronze))) /\ Succeed(s, "silver")
        BY <1>2, <2>3 DEF Validate
      <3>2. s = r /\ stage'[r] = "silver"
        BY <3>1 DEF Succeed, TypeOK
      <3> QED BY <2>3, <3>1, <3>2
    <2>4. CASE RunTests(s)
      <3>1. TestsMayPass(silver) /\ Succeed(s, "freshness")
        BY <1>2, <2>4 DEF RunTests
      <3>2. s = r /\ stage'[r] = "freshness"
        BY <3>1 DEF Succeed, TypeOK
      <3> QED BY <2>4, <3>1, <3>2
    <2> QED BY <1>3, <2>1, <2>2, <2>3, <2>4 DEF RunStep
  <1>4. ASSUME NEW s \in Run, Fault(s) PROVE FALSE
    BY <1>2, <1>4 DEF Fault
  <1>5. ~OwnerStep /\ ~Tick /\ ~UNCHANGED vars
    BY DEF OwnerStep, Upload, Place, Land, Delete, Tick
  <1>6. ASSUME NEW s \in Run, NEW f \in BOOLEAN, Trigger(s, f) PROVE FALSE
    BY <1>6 DEF Trigger, TypeOK
  <1> QED BY <1>3, <1>4, <1>5, <1>6 DEF Next

LEMMA CheckedStep == GateInv /\ [Next]_vars => Checked'
  <1> SUFFICES ASSUME GateInv, [Next]_vars, NEW r \in Run,
                      stage'[r] \in {"silver", "freshness"}
               PROVE  /\ stage'[r] = "silver" => CheckpointMayPass(LatestContents(Len(bronze)))'
                      /\ stage'[r] = "freshness" => TestsMayPass(silver)'
    BY DEF Checked
  <1>t. TypeOK /\ OneActive /\ LayersInOrder /\ Checked /\ Len(bronze) \in Nat /\ silver \in Nat
    BY DEF GateInv, IInv, TypeOK
  <1>1. CASE stage'[r] # stage[r]
    <2>1. bronze' = bronze /\ silver' = silver
      BY <1>t, <1>1, CheckedStages DEF Validate, RunTests
    <2> QED
      BY <1>t, <1>1, <2>1, CheckedStages
         DEF CheckpointMayPass, LatestContents, TestsMayPass, AloneAtItsSecond
  <1>2. CASE stage'[r] = stage[r]
    <2>1. Active(r) /\ stage[r] # "ingest"
      BY <1>2 DEF Active, TaskStage
    <2>2. bronze' = bronze
      BY <1>t, <2>1, BronzeStill
    <2>3. stage[r] = "freshness" => silver' = silver
      <3>1. ASSUME NEW s \in Run, BuildSilver(s) \/ SnapshotDim(s) \/ BuildMarts(s)
            PROVE  s = r
        <4>1. Active(s)
          BY <3>1 DEF BuildSilver, SnapshotDim, BuildMarts, Active, TaskStage
        <4> QED BY <1>t, <2>1, <4>1 DEF OneActive
      <3> QED BY <1>t, <3>1, LayerStep DEF BuildSilver, SnapshotDim, BuildMarts
    <2> QED
      BY <1>t, <1>2, <2>2, <2>3
         DEF Checked, CheckpointMayPass, LatestContents, TestsMayPass, AloneAtItsSecond
  <1> QED BY <1>1, <1>2

LEMMA NewestStep == GateInv /\ [Next]_vars => NewestInSilverPassed'
  <1> SUFFICES ASSUME GateInv, [Next]_vars PROVE NewestInSilverPassed'
    OBVIOUS
  <1>t. /\ TypeOK /\ Checked /\ NewestInSilverPassed /\ silver \in Nat /\ silver <= Len(bronze)
    BY DEF GateInv, IInv, TypeOK, LayersInOrder
  <1>1. CASE silver' = silver
    <2>1. \A n \in Nat : n <= Len(bronze) => LatestContents(n)' = LatestContents(n)
      BY <1>t, PrefixStays
    <2>2. LatestContents(silver)' = LatestContents(silver)
      BY <1>t, <1>1, <2>1 DEF LatestContents
    <2> QED BY <1>t, <1>1, <2>2 DEF NewestInSilverPassed, CheckpointMayPass
  <1>2. ASSUME NEW r \in Run, BuildSilver(r) PROVE NewestInSilverPassed'
    <2>1. bronze' = bronze /\ silver' = Len(bronze) /\ stage[r] = "silver"
      BY <1>2 DEF BuildSilver
    <2>2. CheckpointMayPass(LatestContents(Len(bronze)))
      BY <1>t, <2>1 DEF Checked
    <2> QED BY <2>1, <2>2 DEF NewestInSilverPassed, CheckpointMayPass, LatestContents
  <1>3. ASSUME NEW r \in Run, SnapshotDim(r) \/ BuildMarts(r) PROVE silver' = silver
    BY <1>3 DEF SnapshotDim, BuildMarts
  <1> QED BY <1>t, <1>1, <1>2, <1>3, LayerStep

LEMMA GateInductive == Spec => []GateInv
  <1>1. Init => Checked /\ NewestInSilverPassed
    BY DEF Init, Checked, NewestInSilverPassed
  <1>2. GateInv /\ [Next]_vars /\ IInv' => GateInv'
    BY CheckedStep, NewestStep DEF GateInv
  <1>3. IInv /\ Checked /\ NewestInSilverPassed <=> GateInv
    BY DEF GateInv
  <1> QED BY <1>1, <1>2, <1>3, Inductive, PTL DEF Spec

\* The newest snapshot in Silver, the one dim_connection is fed, has passed the
\* checkpoint: neither a retry nor force_transform goes around it.
THEOREM NewestIsChecked == Spec => []NewestInSilverPassed
  <1>1. GateInv => NewestInSilverPassed
    BY DEF GateInv
  <1> QED BY <1>1, GateInductive, PTL

\* A run that ends in success has had every snapshot of Bronze accepted by the
\* error-severity dbt tests, however old.
THEOREM SuccessVouches == Spec => SuccessVouchesForHistory
  <1>1. ASSUME GateInv, [Next]_vars, NEW r \in Run, stage'[r] = "success", stage[r] # "success"
        PROVE  TestsMayPass(Len(bronze))
    <2>1. CheckFreshness(r)
      BY <1>1, SuccessMoves DEF GateInv, IInv
    <2>2. stage[r] = "freshness"
      BY <2>1 DEF CheckFreshness
    <2>3. TestsMayPass(silver) /\ silver = Len(bronze)
      BY <1>1, <2>2 DEF GateInv, IInv, Checked, Settled
    <2> QED BY <2>3
  <1>2. GateInv /\ [Next]_vars =>
            [\A r \in Run : stage'[r] = "success" /\ stage[r] # "success" =>
                TestsMayPass(Len(bronze))]_vars
    BY <1>1
  <1> QED BY <1>2, GateInductive, PTL DEF Spec, SuccessVouchesForHistory

-----------------------------------------------------------------------------
(***************************************************************************)
(* What Bronze has of an export, line by line.                             *)
(***************************************************************************)

LEMMA LeastNatural ==
    ASSUME NEW T \in SUBSET Nat, T # {}
    PROVE  \E n \in T : \A m \in T : n <= m
  <1>1. PICK n \in T : \A m \in T : ~(<<m, n>> \in OpToRel(<, Nat))
    BY NatLessThanWellFounded, WFMin, Zenon
  <1>2. \A m \in T : m \in Nat /\ n \in Nat /\ ~(m < n)
    BY <1>1 DEF OpToRel
  <1> QED BY <1>2

\* What is read of the lines from index to m, by the line read last.
ReadTo(lines, index, m, read) ==
    read = [i \in index .. m |->
                IF i = index THEN << >>
                ELSE IF lines[i] = << >> THEN read[i - 1]
                ELSE Append(read[i - 1], lines[i])]

\* Reading goes on: what was read of fewer lines extends to one line more.
LEMMA ReadingGoesOn ==
    ASSUME NEW lines, NEW index \in Nat, NEW m \in Nat, index <= m
    PROVE  \E read : ReadTo(lines, index, m, read)
  <1> DEFINE T == {n \in Nat : index <= n /\ ~\E read : ReadTo(lines, index, n, read)}
  <1> SUFFICES ASSUME T # {} PROVE FALSE
    OBVIOUS
  <1>1. PICK n \in T : \A k \in T : n <= k
    <2>1. T \in SUBSET Nat
      OBVIOUS
    <2> HIDE DEF T
    <2> QED BY <2>1, LeastNatural
  <1>2. CASE n = index
    <2> DEFINE read == [i \in index .. n |-> << >>]
    <2>1. index .. n = {index}
      BY <1>2
    <2>2. ReadTo(lines, index, n, read)
      BY <1>2, <2>1 DEF ReadTo
    <2> QED BY <2>2
  <1>3. CASE n # index
    <2>1. n - 1 \in Nat /\ index <= n - 1 /\ n - 1 \notin T
      BY <1>1, <1>3
    <2>2. PICK f : ReadTo(lines, index, n - 1, f)
      BY <2>1
    <2> DEFINE last == IF lines[n] = << >> THEN f[n - 1] ELSE Append(f[n - 1], lines[n])
               read == [i \in index .. n |-> IF i = n THEN last ELSE f[i]]
    <2>3. ASSUME NEW i \in index .. n
          PROVE  read[i] = IF i = index THEN << >>
                           ELSE IF lines[i] = << >> THEN read[i - 1]
                           ELSE Append(read[i - 1], lines[i])
      <3>1. CASE i = n
        <4>1. n - 1 \in index .. n /\ n - 1 # n
          BY <2>1
        <4> QED BY <1>3, <3>1, <4>1
      <3>2. CASE i # n
        <4>1. i \in index .. n - 1 /\ (i # index => i - 1 \in index .. n /\ i - 1 # n)
          BY <3>2
        <4>2. f[i] = IF i = index THEN << >>
                     ELSE IF lines[i] = << >> THEN f[i - 1]
                     ELSE Append(f[i - 1], lines[i])
          BY <2>2, <4>1 DEF ReadTo
        <4> QED BY <3>2, <4>1, <4>2
      <3> QED BY <3>1, <3>2
    <2>4. read = [i \in index .. n |-> read[i]]
      OBVIOUS
    <2> HIDE DEF read
    <2>5. ReadTo(lines, index, n, read)
      BY <2>3, <2>4 DEF ReadTo
    <2> QED BY <2>5
  <1> QED BY <1>2, <1>3

\* The lines up to m that are not blank.
Kept(lines, index, m) == {i \in index + 1 .. m : lines[i] # << >>}

LEMMA KeptFinite ==
    ASSUME NEW lines, NEW index \in Nat, NEW m \in Nat
    PROVE  IsFiniteSet(Kept(lines, index, m)) /\ Cardinality(Kept(lines, index, m)) \in Nat
  <1>1. IsFiniteSet(index + 1 .. m)
    <2>1. index + 1 \in Int /\ m \in Int
      OBVIOUS
    <2> QED BY <2>1, FS_Interval, Zenon
  <1>2. Kept(lines, index, m) \in SUBSET (index + 1 .. m)
    BY DEF Kept
  <1> QED BY <1>1, <1>2, FS_Subset, FS_CardinalityType

\* What was read after line m: the lines that are not blank, in their order.
ReadInOrder(lines, index, m, rows) ==
    /\ rows \in Seq(Seq(Text))
    /\ Len(rows) = Cardinality(Kept(lines, index, m))
    /\ \A i \in Kept(lines, index, m) :
        LET rank == Cardinality(Kept(lines, index, i))
        IN  rank \in 1 .. Len(rows) /\ rows[rank] = lines[i]
    /\ \A n \in 1 .. Len(rows) : \E i \in Kept(lines, index, m) : rows[n] = lines[i]

LEMMA ReadKeepsOrder ==
    ASSUME NEW lines \in Seq(Seq(Text)), NEW index \in Nat, NEW m \in Nat,
           index <= m, m <= Len(lines), NEW read, ReadTo(lines, index, m, read)
    PROVE  ReadInOrder(lines, index, m, read[m])
  <1> DEFINE T == {n \in Nat : index <= n /\ n <= m /\ ~ReadInOrder(lines, index, n, read[n])}
  <1> SUFFICES ASSUME T # {} PROVE FALSE
    OBVIOUS
  <1>1. PICK n \in T : \A k \in T : n <= k
    <2>1. T \in SUBSET Nat
      OBVIOUS
    <2> HIDE DEF T
    <2> QED BY <2>1, LeastNatural
  <1>2. n \in index .. m
    BY <1>1
  <1>3. CASE n = index
    <2>1. read[n] = << >>
      BY <1>2, <1>3 DEF ReadTo
    <2>2. Kept(lines, index, n) = {}
      BY <1>3 DEF Kept
    <2>3. ReadInOrder(lines, index, n, << >>)
      BY <2>2, FS_EmptySet DEF ReadInOrder
    <2> QED BY <2>1, <2>3
  <1>4. CASE n # index
    <2> DEFINE rows == read[n - 1]
               before == Kept(lines, index, n - 1)
    <2>1. n - 1 \in Nat /\ index <= n - 1 /\ n - 1 <= m /\ n - 1 \notin T
      BY <1>1, <1>4
    <2>2. ReadInOrder(lines, index, n - 1, rows)
      BY <2>1
    <2>3. read[n] = IF lines[n] = << >> THEN rows ELSE Append(rows, lines[n])
      BY <1>2, <1>4 DEF ReadTo
    <2>4. n \in DOMAIN lines /\ lines[n] \in Seq(Text)
      <3>1. n \in 1 .. Len(lines)
        BY <1>2, <1>4
      <3> QED BY <3>1
    <2>5. CASE lines[n] = << >>
      <3>1. Kept(lines, index, n) = before
        BY <2>1, <2>5 DEF Kept
      <3>2. ReadInOrder(lines, index, n, rows)
        BY <2>2, <3>1 DEF ReadInOrder
      <3> QED BY <2>3, <2>5, <3>2
    <2>6. CASE lines[n] # << >>
      <3>1. Kept(lines, index, n) = before \cup {n} /\ n \notin before
        BY <2>1, <2>6 DEF Kept
      <3>2. IsFiniteSet(before) /\ Cardinality(before) \in Nat
        BY <2>1, KeptFinite
      <3>3. Cardinality(Kept(lines, index, n)) = Cardinality(before) + 1
        BY <3>1, <3>2, FS_AddElement
      <3>4. rows \in Seq(Seq(Text)) /\ Len(rows) = Cardinality(before)
        BY <2>2 DEF ReadInOrder
      <3> DEFINE more == Append(rows, lines[n])
      <3>5. /\ more \in Seq(Seq(Text)) /\ Len(more) = Len(rows) + 1 /\ Len(rows) \in Nat
            /\ \A k \in 1 .. Len(rows) : more[k] = rows[k]
            /\ more[Len(rows) + 1] = lines[n]
        BY <2>4, <3>4
      <3> HIDE DEF more, before, rows
      <3>6. ASSUME NEW i \in Kept(lines, index, n)
            PROVE  LET rank == Cardinality(Kept(lines, index, i))
                   IN  rank \in 1 .. Len(more) /\ more[rank] = lines[i]
        <4>1. CASE i = n
          BY <3>3, <3>4, <3>5, <4>1
        <4>2. CASE i # n
          <5>1. i \in before
            BY <3>1, <4>2
          <5>2. Cardinality(Kept(lines, index, i)) \in 1 .. Len(rows)
                /\ rows[Cardinality(Kept(lines, index, i))] = lines[i]
            BY <2>2, <5>1 DEF ReadInOrder, before
          <5> QED BY <3>5, <5>2
        <4> QED BY <4>1, <4>2
      <3>7. ASSUME NEW k \in 1 .. Len(more)
            PROVE  \E i \in Kept(lines, index, n) : more[k] = lines[i]
        <4>1. CASE k = Len(rows) + 1
          BY <3>1, <3>5, <4>1
        <4>2. CASE k # Len(rows) + 1
          <5>1. k \in 1 .. Len(rows)
            BY <3>5, <4>2
          <5>2. PICK i \in before : rows[k] = lines[i]
            BY <2>2, <5>1 DEF ReadInOrder, before
          <5> QED BY <3>1, <3>5, <5>1, <5>2
        <4> QED BY <4>1, <4>2
      <3>8. ReadInOrder(lines, index, n, more)
        BY <3>3, <3>4, <3>5, <3>6, <3>7 DEF ReadInOrder
      <3> QED BY <2>3, <2>6, <3>8 DEF more
    <2> QED BY <2>5, <2>6
  <1> QED BY <1>3, <1>4

LEMMA RowsInOrder ==
    ASSUME NEW lines \in Seq(Seq(Text)), NEW index \in DOMAIN lines
    PROVE  ReadInOrder(lines, index, Len(lines), Rows(lines, index))
  <1> DEFINE m == Len(lines)
             read == CHOOSE f : ReadTo(lines, index, m, f)
  <1>1. index \in Nat /\ m \in Nat /\ index <= m
    OBVIOUS
  <1>2. ReadTo(lines, index, m, read)
    BY <1>1, ReadingGoesOn
  <1>3. Rows(lines, index) = read[m]
    BY DEF Rows, ReadTo
  <1> HIDE DEF read
  <1> QED BY <1>1, <1>2, <1>3, ReadKeepsOrder
-----------------------------------------------------------------------------
\* Of an export that parses, the first header line is found, and its columns are the
\* folded headings.
LEMMA ParsedHeader ==
    ASSUME NEW lines \in Seq(Seq(Text)), Parses(lines)
    PROVE  LET index == detect_header_line_index(lines)
               header == lines[index]
           IN  /\ index \in DOMAIN lines /\ Header(lines) = {index}
               /\ header \in Seq(Text)
               /\ \A k \in DOMAIN header : Columns(header)[k] = folded[header[k]]
  <1> DEFINE index == detect_header_line_index(lines)
             header == lines[index]
  <1>1. HeaderLines(lines) # {} /\ is_valid(Columns(header))
    BY DEF Parses
  <1>2. HeaderLines(lines) \in SUBSET Nat /\ HeaderLines(lines) \subseteq DOMAIN lines
    BY DEF HeaderLines
  <1>3. \E i \in HeaderLines(lines) : \A j \in HeaderLines(lines) : i <= j
    BY <1>1, <1>2, LeastNatural
  <1>4. index \in HeaderLines(lines) /\ \A j \in HeaderLines(lines) : index <= j
    BY <1>3 DEF detect_header_line_index, Least
  <1>5. header \in Seq(Text)
    BY <1>2, <1>4
  <1>6. Header(lines) = {index}
    <2>1. index \in Header(lines)
      BY <1>4 DEF Header, First
    <2>2. ASSUME NEW h \in Header(lines) PROVE h = index
      <3>1. h \in HeaderLines(lines) /\ h <= index
        BY <1>4 DEF Header, First
      <3>2. index <= h /\ h \in Nat /\ index \in Nat
        BY <1>2, <1>4, <3>1
      <3> QED BY <3>1, <3>2
    <2> HIDE DEF index
    <2> QED BY <2>1, <2>2
  <1> HIDE DEF index, header
  <1>7. ASSUME NEW k \in DOMAIN header PROVE Columns(header)[k] = folded[header[k]]
    <2>1. Columns(header)[k] \in KnownColumns \cup {""}
      <3>1. k \in DOMAIN Columns(header)
        BY DEF Columns
      <3> QED BY <1>1, <3>1 DEF is_valid, unexpected_columns, ToSet
    <2>2. Columns(header)[k] = Renamed \/ Columns(header)[k] = folded[header[k]]
      BY DEF Columns
    <2>3. Renamed \notin KnownColumns \cup {""}
      BY DEF Renamed, KnownColumns, RequiredColumns
    <2> QED BY <2>1, <2>2, <2>3
  <1> QED BY <1>2, <1>4, <1>5, <1>6, <1>7 DEF index, header

\* The lines below the header are found, in their order, as the rows of a table as
\* wide as the first of them.
LEMMA RowsOfBody ==
    ASSUME NEW lines \in Seq(Seq(Text)), NEW index \in DOMAIN lines
    PROVE  LET rows == Rows(lines, index)
               body == Body(lines, index)
           IN  /\ rows \in Seq(Seq(Text)) /\ DOMAIN rows = 1 .. Cardinality(body)
               /\ \A i \in body : LET rank == Cardinality({j \in body : j <= i})
                                  IN  rank \in DOMAIN rows /\ rows[rank] = lines[i]
               /\ \A first \in First(body) : rows # << >> /\ rows[1] = lines[first]
  <1> DEFINE rows == Rows(lines, index)
             body == Body(lines, index)
  <1>1. ReadInOrder(lines, index, Len(lines), rows)
    BY RowsInOrder
  <1>2. body = Kept(lines, index, Len(lines))
    BY DEF Body, Kept
  <1>3. \A i \in body : /\ {j \in body : j <= i} = Kept(lines, index, i)
                        /\ i \in Nat
    <2>1. \A i \in body : i \in index + 1 .. Len(lines) /\ index \in Nat
      BY <1>2 DEF Kept
    <2> QED BY <1>2, <2>1 DEF Kept
  <1> HIDE DEF rows, body
  <1>4. /\ rows \in Seq(Seq(Text)) /\ Len(rows) = Cardinality(body)
        /\ \A i \in body : LET rank == Cardinality(Kept(lines, index, i))
                           IN  rank \in 1 .. Len(rows) /\ rows[rank] = lines[i]
    BY <1>1, <1>2 DEF ReadInOrder
  <1>5. DOMAIN rows = 1 .. Len(rows)
    BY <1>4
  <1>6. ASSUME NEW i \in body
        PROVE  LET rank == Cardinality({j \in body : j <= i})
               IN  rank \in DOMAIN rows /\ rows[rank] = lines[i]
    <2>1. {j \in body : j <= i} = Kept(lines, index, i)
      BY <1>3
    <2> QED BY <1>4, <1>5, <2>1
  <1>7. ASSUME NEW first \in First(body) PROVE rows # << >> /\ rows[1] = lines[first]
    <2>1. first \in body /\ \A j \in body : first <= j
      BY DEF First
    <2>2. {j \in body : j <= first} = {first}
      BY <1>3, <2>1
    <2>3. Cardinality({j \in body : j <= first}) = 1
      BY <2>2, FS_Singleton
    <2>4. 1 \in DOMAIN rows /\ rows[1] = lines[first]
      BY <1>6, <2>1, <2>3
    <2> QED BY <2>4
  <1> QED BY <1>4, <1>5, <1>6, <1>7 DEF rows, body

\* A row of Bronze says what its line says, moved as far as the table is too wide.
LEMMA RowSaysWhat ==
    ASSUME NEW header \in Seq(Text), NEW rows, NEW line \in Seq(Text), NEW moved \in Nat,
           Width(header, rows) = Len(header) + moved,
           \A k \in DOMAIN header : Columns(header)[k] = folded[header[k]]
    PROVE  SaysWhat([column \in KnownColumns |-> CellUnder(header, rows, line, column)], line,
                    [k \in DOMAIN header |-> folded[header[k]]], moved)
  <1> DEFINE names == [k \in DOMAIN header |-> folded[header[k]]]
  <1>0. stripped[""] = ""
    BY SchemaAssumption
  <1>1. ASSUME NEW k \in DOMAIN header
        PROVE  stripped[Cell(header, rows, line, k)] = Said(line, k, moved)
    <2>1. k + Width(header, rows) - Len(header) = k + moved
      <3>1. k \in Nat /\ Len(header) \in Nat
        OBVIOUS
      <3> QED BY <3>1
    <2> QED BY <1>0, <2>1 DEF Cell, Said
  <1>2. ASSUME NEW column \in KnownColumns
        PROVE  LET cell == CellUnder(header, rows, line, column)
               IN  \/ column \notin ToSet(names) /\ cell = ""
                   \/ \E k \in DOMAIN names : names[k] = column /\ cell = Said(line, k, moved)
    <2> DEFINE named == {i \in DOMAIN header : Columns(header)[i] = column}
               cell  == CellUnder(header, rows, line, column)
    <2>1. CASE named = {}
      <3>1. cell = ""
        BY <2>1 DEF CellUnder
      <3>2. column \notin ToSet(names)
        BY <2>1 DEF ToSet
      <3> QED BY <3>1, <3>2
    <2>2. CASE named # {}
      <3> DEFINE k == CHOOSE i \in named : TRUE
      <3>1. k \in named
        BY <2>2
      <3>2. cell = stripped[Cell(header, rows, line, k)]
        BY <2>2 DEF CellUnder
      <3> HIDE DEF k, cell
      <3>3. k \in DOMAIN header /\ names[k] = column /\ DOMAIN names = DOMAIN header
        BY <3>1
      <3>4. cell = Said(line, k, moved)
        BY <1>1, <3>2, <3>3
      <3> QED BY <3>3, <3>4 DEF cell
    <2> QED BY <2>1, <2>2
  <1> QED BY <1>2 DEF SaysWhat

\* What Bronze has of an export that parses.
LEMMA BatchHoldsExport ==
    ASSUME NEW lines \in Seq(Seq(Text)), Parses(lines)
    PROVE  Holds(BronzeRows(lines), lines)
  <1> DEFINE index  == detect_header_line_index(lines)
             header == lines[index]
             rows   == Rows(lines, index)
             body   == Body(lines, index)
             batch  == BronzeRows(lines)
             names  == [k \in DOMAIN header |-> folded[header[k]]]
  <1>1. /\ index \in DOMAIN lines /\ Header(lines) = {index} /\ header \in Seq(Text)
        /\ \A k \in DOMAIN header : Columns(header)[k] = folded[header[k]]
    BY ParsedHeader
  <1>2. batch = [n \in DOMAIN rows |->
                    [column \in KnownColumns |-> CellUnder(header, rows, rows[n], column)]]
    BY DEF BronzeRows
  <1> HIDE DEF index
  <1>3. /\ rows \in Seq(Seq(Text)) /\ DOMAIN rows = 1 .. Cardinality(body)
        /\ \A i \in body : LET rank == Cardinality({j \in body : j <= i})
                           IN  rank \in DOMAIN rows /\ rows[rank] = lines[i]
        /\ \A first \in First(body) : rows # << >> /\ rows[1] = lines[first]
    BY <1>1, RowsOfBody
  <1>4. \A i \in body : lines[i] \in Seq(Text)
    BY <1>1 DEF Body
  <1> HIDE DEF rows, body, header, batch
  <1>5. ASSUME NEW first \in First(body), NEW i \in body
        PROVE  SaysWhat(batch[Cardinality({j \in body : j <= i})], lines[i], names,
                        IF Len(lines[first]) > Len(header)
                        THEN Len(lines[first]) - Len(header) ELSE 0)
    <2> DEFINE rank  == Cardinality({j \in body : j <= i})
               moved == IF Len(lines[first]) > Len(header)
                        THEN Len(lines[first]) - Len(header) ELSE 0
    <2>1. batch[rank] = [column \in KnownColumns |-> CellUnder(header, rows, lines[i], column)]
      <3>1. rank \in DOMAIN rows /\ rows[rank] = lines[i]
        BY <1>3
      <3> HIDE DEF rank
      <3> QED BY <1>2, <3>1
    <2>2. moved \in Nat /\ Width(header, rows) = Len(header) + moved
      <3>1. rows # << >> /\ rows[1] = lines[first] /\ lines[first] \in Seq(Text)
        BY <1>3, <1>4 DEF First
      <3>2. Len(header) \in Nat /\ Len(lines[first]) \in Nat
        BY <1>1, <3>1
      <3> QED BY <3>1, <3>2 DEF Width
    <2> HIDE DEF rank, moved
    <2>3. SaysWhat(batch[rank], lines[i], names, moved)
      BY <1>1, <1>4, <2>1, <2>2, RowSaysWhat
    <2> QED BY <2>3 DEF rank, moved
  <1>6. DOMAIN batch = 1 .. Cardinality(body)
    BY <1>2, <1>3
  <1> HIDE DEF names
  <1> QED BY <1>1, <1>5, <1>6 DEF body, batch, header, names, Holds

\* Of every export that parses, whatever was exported before and after and in whichever
\* layout, Bronze has every row in its order and every cell under its heading.
THEOREM BronzeHoldsExports == Spec => []BronzeHoldsTheExport
  <1>1. IInv => BronzeHoldsTheExport
    <2> SUFFICES ASSUME IInv, NEW n \in DOMAIN bronze
                 PROVE  Holds(raw_connections[n], File[bronze[n].content])
      BY DEF BronzeHoldsTheExport
    <2> DEFINE c == bronze[n].content
    <2>1. c \in Content \ Malformed
      <3>1. bronze[n] \in LandingObject
        BY DEF IInv, TypeOK
      <3> QED BY <3>1 DEF IInv, BronzeIsGenuine, LandingObject
    <2>2. File[c] \in Seq(Seq(Text)) /\ Parses(File[c])
      BY <2>1, FileAssumption
    <2>3. raw_connections[n] = BronzeRows(File[c])
      BY <2>1 DEF raw_connections, Parsed
    <2> HIDE DEF c
    <2> QED BY <2>2, <2>3, BatchHoldsExport DEF c
  <1> QED BY <1>1, Inductive, PTL
-----------------------------------------------------------------------------
(***************************************************************************)
(* How a run comes to its end: what it has left gets less with every step  *)
(* of its own, in an order in which nothing gets less for ever.            *)
(***************************************************************************)

\* The tasks a run has before it; an ended run has none.
Left == [none |-> 11, queued |-> 10, scan |-> 9, ingest |-> 8, gate |-> 7, validate |-> 6,
         silver |-> 5, snapshot |-> 4, marts |-> 3, tests |-> 2, freshness |-> 1,
         noop |-> 0, success |-> 0, failed |-> 0]

\* The tasks first, then the tries of the task, then the objects of the try: a new
\* try of the ingest task has them all again.
Measure(r) == <<<<Left[stage[r]], MaxTries - tries[r]>>, Cardinality(todo[r])>>

Descending ==
    LexPairOrdering(LexPairOrdering(OpToRel(<, Nat), OpToRel(<, Nat), Nat, Nat),
                    OpToRel(<, Nat), Nat \X Nat, Nat)

\* A step of a run's own, and the end of a try, take it nearer to its end; no other
\* step, of the owner or of other runs, takes it further away.
RunsDescend ==
    [][\A r \in Run :
        /\ RunStep(r) \/ Fault(r) => <<Measure(r)', Measure(r)>> \in Descending
        /\ \/ <<Measure(r)', Measure(r)>> \in Descending
           \/ Measure(r)' = Measure(r)]_vars

FiniteLists ==
    /\ IsFiniteSet(landing)
    /\ \A r \in Run : IsFiniteSet(pending[r]) /\ IsFiniteSet(todo[r])

LEMMA LexDescends ==
    ASSUME NEW a \in Nat, NEW b \in Nat, NEW c \in Nat,
           NEW x \in Nat, NEW y \in Nat, NEW z \in Nat,
           a < x \/ (a = x /\ b < y) \/ (a = x /\ b = y /\ c < z)
    PROVE  << << <<a, b>>, c>>, << <<x, y>>, z>> >> \in Descending
  BY DEF Descending, LexPairOrdering, OpToRel

\* No run descends for ever.
LEMMA DescentEnds == IsWellFoundedOn(Descending, (Nat \X Nat) \X Nat)
  <1>1. IsWellFoundedOn(OpToRel(<, Nat), Nat)
    BY NatLessThanWellFounded
  <1>2. IsWellFoundedOn(LexPairOrdering(OpToRel(<, Nat), OpToRel(<, Nat), Nat, Nat), Nat \X Nat)
    BY <1>1, WFLexPairOrdering, Zenon
  <1> QED BY <1>1, <1>2, WFLexPairOrdering, Zenon DEF Descending

LEMMA MeasureType ==
    ASSUME NEW s \in Stage, NEW n \in 1 .. MaxTries, NEW list, IsFiniteSet(list)
    PROVE  Left[s] \in Nat /\ MaxTries - n \in Nat /\ Cardinality(list) \in Nat
  <1>1. Left[s] \in Nat
    BY DEF Stage, TaskStage, EndStage, Left
  <1>2. MaxTries - n \in Nat
    BY IngestionAssumption
  <1> QED BY <1>1, <1>2, FS_CardinalityType

\* Lists are finite because the bucket is.
LEMMA FiniteStep == TypeOK /\ FiniteLists /\ [Next]_vars => FiniteLists'
  <1> SUFFICES ASSUME TypeOK, FiniteLists, [Next]_vars PROVE FiniteLists'
    OBVIOUS
  <1>1. ASSUME NEW o, Land(o) PROVE FiniteLists'
    <2>1. IsFiniteSet({p \in landing : p.key # o.key})
      BY FS_Subset DEF FiniteLists
    <2>2. IsFiniteSet({p \in landing : p.key # o.key} \cup {o})
      BY <2>1, FS_AddElement
    <2> QED BY <1>1, <2>2 DEF Land, FiniteLists
  <1>2. ASSUME NEW o \in landing, Delete(o) PROVE FiniteLists'
    <2>1. IsFiniteSet(landing \ {o})
      BY FS_Subset DEF FiniteLists
    <2> QED BY <1>2, <2>1 DEF Delete, FiniteLists
  <1>3. ASSUME NEW r \in Run, ResetReport(r), UNCHANGED <<landing, pending>> PROVE FiniteLists'
    BY <1>3 DEF ResetReport, FiniteLists, TypeOK
  <1>4. ASSUME UNCHANGED <<landing, pending, todo>> PROVE FiniteLists'
    BY <1>4 DEF FiniteLists
  <1>5. ASSUME NEW r \in Run, Scan(r) PROVE FiniteLists'
    <2>1. IsFiniteSet(Candidates)
      <3> DEFINE found == {p \in landing : \A c \in IngestedHashes : Hash8[c] # p.key.hash8}
                 Keys == {p.key : p \in found}
      <3>1. IsFiniteSet(found)
        BY FS_Subset DEF FiniteLists
      <3> HIDE DEF found
      <3>2. IsFiniteSet(Keys)
        <4> DEFINE key == [p \in found |-> p.key]
        <4>1. key \in Surjection(found, Keys)
          BY DEF Surjection
        <4> QED BY <3>1, <4>1, FS_Surjection
      <3> QED BY <3>2 DEF Candidates, found
    <2> QED BY <1>5, <2>1 DEF Scan, FiniteLists, TypeOK
  <1>6. ASSUME NEW r \in Run, IngestObject(r) PROVE FiniteLists'
    <2>1. PICK o : todo' = [todo EXCEPT ![r] = @ \ {o.key}]
      BY <1>6 DEF IngestObject
    <2>2. IsFiniteSet(todo[r] \ {o.key})
      BY FS_Subset DEF FiniteLists
    <2> QED BY <1>6, <2>1, <2>2 DEF IngestObject, FiniteLists, TypeOK
  <1>7. ASSUME NEW r \in Run, Fault(r) PROVE FiniteLists'
    <2>1. CASE stage[r] = "ingest"
      BY <1>3, <1>7, <2>1 DEF Fault
    <2>2. CASE stage[r] # "ingest"
      BY <1>4, <1>7, <2>2 DEF Fault
    <2> QED BY <2>1, <2>2
  <1>8. ASSUME NEW r \in Run, IngestRaises(r) PROVE FiniteLists'
    BY <1>3, <1>8 DEF IngestRaises
  <1>9. ASSUME NEW r \in Run,
               \/ StartRun(r) \/ FinishIngest(r) \/ Gate(r) \/ Validate(r)
               \/ BuildSilver(r) \/ SnapshotDim(r) \/ BuildMarts(r)
               \/ RunTests(r) \/ CheckFreshness(r)
        PROVE  FiniteLists'
    BY <1>4, <1>9 DEF StartRun, FinishIngest, Gate, Validate, BuildSilver, SnapshotDim,
       BuildMarts, RunTests, CheckFreshness
  <1>10. ASSUME NEW r \in Run, NEW f \in BOOLEAN, Trigger(r, f) PROVE FiniteLists'
    BY <1>4, <1>10 DEF Trigger
  <1>11. CASE Tick \/ UNCHANGED vars
    BY <1>4, <1>11 DEF Tick
  <1> QED BY <1>1, <1>2, <1>5, <1>6, <1>7, <1>8, <1>9, <1>10, <1>11
          DEF Next, OwnerStep, Upload, Place, RunStep

LEMMA Nearer ==
    ASSUME TypeOK, FiniteLists, TypeOK', FiniteLists', NEW r \in Run,
           \/ Left[stage'[r]] < Left[stage[r]]
           \/ /\ stage'[r] = stage[r]
              /\ MaxTries - tries'[r] < MaxTries - tries[r]
           \/ /\ stage'[r] = stage[r] /\ tries'[r] = tries[r]
              /\ Cardinality(todo'[r]) < Cardinality(todo[r])
    PROVE  <<Measure(r)', Measure(r)>> \in Descending
  <1>1. /\ Left[stage'[r]] \in Nat /\ MaxTries - tries'[r] \in Nat /\ Cardinality(todo'[r]) \in Nat
        /\ Left[stage[r]] \in Nat /\ MaxTries - tries[r] \in Nat /\ Cardinality(todo[r]) \in Nat
    <2>1. /\ stage[r] \in Stage /\ tries[r] \in 1 .. MaxTries /\ IsFiniteSet(todo[r])
          /\ stage'[r] \in Stage /\ tries'[r] \in 1 .. MaxTries /\ IsFiniteSet(todo'[r])
      BY DEF TypeOK, FiniteLists
    <2> QED BY <2>1, MeasureType
  <1> DEFINE a == Left[stage'[r]]
             b == MaxTries - tries'[r]
             c == Cardinality(todo'[r])
             x == Left[stage[r]]
             y == MaxTries - tries[r]
             z == Cardinality(todo[r])
  <1>2. Measure(r)' = << <<a, b>>, c>> /\ Measure(r) = << <<x, y>>, z>>
    BY DEF Measure
  <1>3. /\ stage'[r] = stage[r] => a = x
        /\ tries'[r] = tries[r] => b = y
    OBVIOUS
  <1>4. a \in Nat /\ b \in Nat /\ c \in Nat /\ x \in Nat /\ y \in Nat /\ z \in Nat
    BY <1>1
  <1>5. a < x \/ (a = x /\ b < y) \/ (a = x /\ b = y /\ c < z)
    BY <1>3
  <1> HIDE DEF a, b, c, x, y, z
  <1>6. << << <<a, b>>, c>>, << <<x, y>>, z>> >> \in Descending
    BY <1>4, <1>5, LexDescends, Zenon
  <1> QED BY <1>2, <1>6

\* The end of a task and the end of a try take a run nearer to its end, whatever
\* becomes of its list.
LEMMA OutcomeDescends ==
    ASSUME TypeOK, FiniteLists, TypeOK', FiniteLists', NEW r \in Run, NEW next \in Stage,
           Active(r), Left[next] < Left[stage[r]], Succeed(r, next) \/ Fail(r)
    PROVE  <<Measure(r)', Measure(r)>> \in Descending
  <1>1. CASE Succeed(r, next)
    <2>1. stage'[r] = next
      BY <1>1 DEF Succeed, TypeOK
    <2> QED BY <2>1, Nearer
  <1>2. CASE Fail(r) /\ tries[r] < MaxTries
    <2>1. stage'[r] = stage[r] /\ tries'[r] = tries[r] + 1
      BY <1>2 DEF Fail, TypeOK
    <2>2. tries[r] \in Nat /\ MaxTries \in Nat
      BY IngestionAssumption DEF TypeOK
    <2>3. MaxTries - tries'[r] < MaxTries - tries[r]
      BY <2>1, <2>2
    <2> QED BY <2>1, <2>3, Nearer
  <1>3. CASE Fail(r) /\ ~(tries[r] < MaxTries)
    <2>1. stage'[r] = "failed" /\ stage[r] \in TaskStage
      BY <1>3 DEF Fail, TypeOK, Active
    <2>2. Left["failed"] = 0
      BY DEF Left
    <2>3. \A s \in TaskStage : Left[s] \in 1 .. 9
      BY DEF TaskStage, Left
    <2>4. Left[stage'[r]] < Left[stage[r]]
      BY <2>1, <2>2, <2>3
    <2> QED BY <2>4, Nearer
  <1> QED BY <1>1, <1>2, <1>3

\* Every step of a run's own, and the end of any of its tries.
LEMMA OwnStepDescends ==
    ASSUME TypeOK, FiniteLists, TypeOK', FiniteLists', NEW r \in Run, RunStep(r) \/ Fault(r)
    PROVE  <<Measure(r)', Measure(r)>> \in Descending
  <1>l. /\ Left["queued"] = 10 /\ Left["scan"] = 9 /\ Left["ingest"] = 8 /\ Left["gate"] = 7
        /\ Left["validate"] = 6 /\ Left["silver"] = 5 /\ Left["snapshot"] = 4
        /\ Left["marts"] = 3 /\ Left["tests"] = 2 /\ Left["freshness"] = 1
        /\ Left["noop"] = 0 /\ Left["success"] = 0 /\ Left["failed"] = 0
    BY DEF Left
  <1>s. /\ {"scan", "ingest", "gate", "validate", "silver", "snapshot", "marts",
            "tests", "freshness"} \subseteq TaskStage
        /\ {"ingest", "gate", "validate", "silver", "snapshot", "marts",
            "tests", "freshness", "noop", "success", "failed"} \subseteq Stage
    BY DEF Stage, TaskStage, EndStage
  <1>0. ASSUME NEW next \in Stage, stage[r] \in TaskStage, Left[next] < Left[stage[r]],
               Succeed(r, next) \/ Fail(r)
        PROVE  <<Measure(r)', Measure(r)>> \in Descending
    BY <1>0, OutcomeDescends DEF Active
  <1>1. CASE StartRun(r)
    <2>1. stage[r] = "queued" /\ stage'[r] = "scan"
      BY <1>1 DEF StartRun, TypeOK
    <2> QED BY <1>l, <2>1, Nearer
  <1>2. CASE Scan(r)
    BY <1>0, <1>2, <1>l, <1>s DEF Scan
  <1>3. CASE IngestObject(r)
    <2>1. PICK o \in Current(r) : todo' = [todo EXCEPT ![r] = @ \ {o.key}]
      BY <1>3 DEF IngestObject
    <2>2. /\ stage' = stage /\ tries' = tries
          /\ todo'[r] = todo[r] \ {o.key} /\ o.key \in todo[r]
      BY <1>3, <2>1 DEF IngestObject, Current, TypeOK
    <2>3. Cardinality(todo'[r]) < Cardinality(todo[r])
      <3>1. IsFiniteSet(todo[r]) /\ todo'[r] \in SUBSET todo[r] /\ todo'[r] # todo[r]
        BY <2>2 DEF FiniteLists
      <3> QED BY <3>1, FS_Subset, FS_CardinalityType
    <2> QED BY <2>2, <2>3, Nearer
  <1>4. CASE IngestRaises(r)
    BY <1>0, <1>4, <1>l, <1>s DEF IngestRaises
  <1>5. CASE FinishIngest(r)
    BY <1>0, <1>5, <1>l, <1>s DEF FinishIngest
  <1>6. CASE Gate(r)
    <2>1. stage[r] = "gate" /\ (Succeed(r, "validate") \/ Succeed(r, "noop"))
      BY <1>6 DEF Gate
    <2>2. "validate" \in Stage /\ Left["validate"] < Left["gate"] /\ "gate" \in TaskStage
      BY <1>l, <1>s
    <2>3. "noop" \in Stage /\ Left["noop"] < Left["gate"]
      BY <1>l, <1>s
    <2> QED BY <1>0, <2>1, <2>2, <2>3
  <1>7. CASE Validate(r)
    <2>1. stage[r] = "validate" /\ (Succeed(r, "silver") \/ Fail(r))
      BY <1>7 DEF Validate
    <2>2. "silver" \in Stage /\ Left["silver"] < Left["validate"] /\ "validate" \in TaskStage
      BY <1>l, <1>s
    <2> QED BY <1>0, <2>1, <2>2
  <1>8. CASE BuildSilver(r)
    BY <1>0, <1>8, <1>l, <1>s DEF BuildSilver, SucceedOrFail
  <1>9. CASE SnapshotDim(r)
    BY <1>0, <1>9, <1>l, <1>s DEF SnapshotDim, SucceedOrFail
  <1>10. CASE BuildMarts(r)
    BY <1>0, <1>10, <1>l, <1>s DEF BuildMarts, SucceedOrFail
  <1>11. CASE RunTests(r)
    BY <1>0, <1>11, <1>l, <1>s DEF RunTests
  <1>12. CASE CheckFreshness(r)
    BY <1>0, <1>12, <1>l, <1>s DEF CheckFreshness, SucceedOrFail
  <1>13. CASE Fault(r)
    <2>1. stage[r] \in TaskStage /\ Fail(r)
      BY <1>13 DEF Fault, Active
    <2>2. \A s \in TaskStage : Left["failed"] < Left[s]
      BY <1>l DEF TaskStage
    <2> QED BY <1>0, <1>s, <2>1, <2>2
  <1> QED BY <1>1, <1>2, <1>3, <1>4, <1>5, <1>6, <1>7, <1>8, <1>9, <1>10, <1>11,
             <1>12, <1>13 DEF RunStep

\* Whatever one run does, the others keep their place.
LEMMA OthersStay ==
    ASSUME TypeOK, NEW r \in Run, NEW s \in Run, r # s, RunStep(r) \/ Fault(r)
    PROVE  Measure(s)' = Measure(s)
  <1>1. ASSUME NEW next, Succeed(r, next) \/ Fail(r)
        PROVE  stage'[s] = stage[s] /\ tries'[s] = tries[s]
    BY <1>1 DEF Succeed, Fail, TypeOK
  <1>2. ASSUME ResetReport(r) PROVE todo'[s] = todo[s]
    BY <1>2 DEF ResetReport, TypeOK
  <1>3. stage'[s] = stage[s] /\ tries'[s] = tries[s] /\ todo'[s] = todo[s]
    <2>1. CASE StartRun(r) \/ IngestObject(r)
      BY <2>1 DEF StartRun, IngestObject, TypeOK
    <2>2. CASE Scan(r)
      BY <1>1, <2>2 DEF Scan, TypeOK
    <2>3. CASE IngestRaises(r)
      BY <1>1, <1>2, <2>3 DEF IngestRaises
    <2>4. CASE FinishIngest(r) \/ Gate(r) \/ Validate(r) \/ RunTests(r)
      BY <1>1, <2>4 DEF FinishIngest, Gate, Validate, RunTests
    <2>5. CASE BuildSilver(r) \/ SnapshotDim(r) \/ BuildMarts(r) \/ CheckFreshness(r)
      BY <1>1, <2>5 DEF BuildSilver, SnapshotDim, BuildMarts, CheckFreshness, SucceedOrFail
    <2>6. CASE Fault(r)
      BY <1>1, <1>2, <2>6 DEF Fault
    <2> QED BY <2>1, <2>2, <2>3, <2>4, <2>5, <2>6 DEF RunStep
  <1> QED BY <1>3 DEF Measure

\* What the safety of a run's end comes to (RunsEnd, without the fairness that makes
\* it take its steps): Airflow can neither try a task for ever nor be kept busy by a
\* list that grows while it is worked off, whatever the owner and the other runs do.
THEOREM RunsComeCloser == Spec => RunsDescend
  <1>1. Init => FiniteLists
    BY FS_EmptySet DEF Init, FiniteLists
  <1>2. ASSUME TypeOK, FiniteLists, TypeOK', FiniteLists', [Next]_vars, NEW r \in Run
        PROVE  /\ RunStep(r) \/ Fault(r) => <<Measure(r)', Measure(r)>> \in Descending
               /\ \/ <<Measure(r)', Measure(r)>> \in Descending
                  \/ Measure(r)' = Measure(r)
    <2>1. CASE \E s \in Run : RunStep(s) \/ Fault(s)
      BY <1>2, <2>1, OwnStepDescends, OthersStay
    <2>2. CASE \E s \in Run, f \in BOOLEAN : Trigger(s, f)
      <3>1. PICK s \in Run : \E f \in BOOLEAN : Trigger(s, f)
        BY <2>2
      <3>2. CASE s = r
        <4>1. stage[r] = "none" /\ stage'[r] = "queued"
          BY <1>2, <3>1, <3>2 DEF Trigger, TypeOK
        <4>2. Left["none"] = 11 /\ Left["queued"] = 10
          BY DEF Left
        <4> QED BY <1>2, <4>1, <4>2, Nearer, OwnStepDescends
      <3>3. CASE s # r
        <4>1. Measure(r)' = Measure(r)
          BY <1>2, <3>1, <3>3 DEF Trigger, TypeOK, Measure
        <4> QED BY <1>2, <4>1, OwnStepDescends
      <3> QED BY <3>2, <3>3
    <2>3. CASE OwnerStep \/ Tick \/ UNCHANGED vars
      <3>1. Measure(r)' = Measure(r)
        BY <2>3 DEF OwnerStep, Upload, Place, Land, Delete, Tick, Measure
      <3> QED BY <1>2, <3>1, OwnStepDescends
    <2> QED BY <1>2, <2>1, <2>2, <2>3 DEF Next
  <1>3. Spec => [](TypeOK /\ FiniteLists)
    BY <1>1, TypeInit, TypeStep, FiniteStep, PTL DEF Spec
  <1>4. TypeOK /\ FiniteLists /\ (TypeOK /\ FiniteLists)' /\ [Next]_vars =>
          [\A r \in Run :
              /\ RunStep(r) \/ Fault(r) => <<Measure(r)', Measure(r)>> \in Descending
              /\ \/ <<Measure(r)', Measure(r)>> \in Descending
                 \/ Measure(r)' = Measure(r)]_vars
    BY <1>2
  <1> QED BY <1>3, <1>4, PTL DEF Spec, RunsDescend
=============================================================================
