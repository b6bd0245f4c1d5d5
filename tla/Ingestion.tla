------------------------------ MODULE Ingestion ------------------------------
(***************************************************************************)
(* The path of an export from the landing zone to the marts: the owner's   *)
(* uploads and deletions, the Airflow DAG ingest_connections with its      *)
(* tasks and retries, the append-only Bronze table, and the three layers   *)
(* dbt rebuilds from it.                                                   *)
(*                                                                         *)
(* A member of Content is what one MD5 identifies: the bytes of one export *)
(* file.  What the rest of the program computes from those bytes is given  *)
(* by the constants Hash8, Malformed, Empty, FailsCheckpoint, FailsTests.  *)
(***************************************************************************)
EXTENDS Naturals, Sequences, FiniteSets

CONSTANTS
    Content,          \* the exports there can be
    Hash8,            \* short_hash of the MD5 of a content; it may collide
    Malformed,        \* contents parse_export rejects with CsvSchemaError
    Empty,            \* contents with a valid header and no row
    FailsCheckpoint,  \* contents the Great Expectations checkpoint rejects
    FailsTests,       \* contents whose snapshot an error-severity dbt test rejects
    Run,              \* the DAG runs that may be triggered
    MaxTries,         \* tries of a task: DEFAULT_ARGS["retries"] + 1
    MaxTs,            \* bound on the clock, in seconds
    MaxObjects,       \* bound on the objects the landing zone holds at once
    Placeable         \* objects that may be put in the bucket without the app

Ts == 1 .. MaxTs

(***************************************************************************)
(* An object key is <raw prefix>/<snapshot_ts>_<hash8>.csv.  Objects whose *)
(* key does not parse are skipped by every listing and are left out.       *)
(***************************************************************************)
Key == [ts : Ts, hash8 : Nat]
LandingObject == [key : Key, content : Content]

ASSUME IngestionAssumption ==
    /\ Hash8 \in [Content -> Nat]
    /\ Malformed \subseteq Content
    /\ Empty \subseteq Content
    /\ FailsCheckpoint \subseteq Content
    /\ FailsTests \subseteq Content
    /\ Placeable \subseteq LandingObject
    /\ MaxTries \in Nat \ {0}
    /\ MaxTs \in Nat \ {0}
    /\ MaxObjects \in Nat

VARIABLES
    now,       \* utcnow(), truncated to whole seconds
    landing,   \* the objects in the MinIO bucket
    bronze,    \* batches of bronze.raw_connections, in the order of their commits
    silver,    \* how many Bronze batches silver.stg_connections was built from
    dim,       \* how many of them the last dim_connection snapshot had seen
    marts,     \* how many of them the fact table and the marts were built from
    stage,     \* per run: the task it is at, or how it ended
    tries,     \* per run: the try of that task, from 1
    forced,    \* per run: the parameter force_transform
    pending,   \* per run: the XCom of scan_landing_zone
    todo,      \* per run: what the current try of the ingest task has left
    ingested   \* per run: objects_ingested of the current try's report

landingVars == <<now, landing>>
layerVars   == <<silver, dim, marts>>
taskVars    == <<stage, tries>>
reportVars  == <<todo, ingested>>
vars == <<now, landing, bronze, silver, dim, marts, stage, tries, forced,
          pending, todo, ingested>>

TaskStage == {"scan", "ingest", "gate", "validate", "silver", "snapshot",
              "marts", "tests", "freshness"}
EndStage  == {"noop", "success", "failed"}
Stage     == TaskStage \cup EndStage \cup {"none", "queued"}

(***************************************************************************)
(* A batch of Bronze keeps the key it was read from (source_object, and    *)
(* snapshot_ts with it) and the content (file_hash), so it has the shape   *)
(* of a landing object.                                                    *)
(***************************************************************************)
TypeOK ==
    /\ now \in Ts
    /\ landing \subseteq LandingObject
    /\ bronze \in Seq(LandingObject)
    /\ silver \in Nat /\ dim \in Nat /\ marts \in Nat
    /\ stage \in [Run -> Stage]
    /\ tries \in [Run -> 1 .. MaxTries]
    /\ forced \in [Run -> BOOLEAN]
    /\ pending \in [Run -> SUBSET Key]
    /\ todo \in [Run -> SUBSET Key]
    /\ ingested \in [Run -> Nat]

Init ==
    /\ now = 1
    /\ landing = {}
    /\ bronze = << >>
    /\ silver = 0 /\ dim = 0 /\ marts = 0
    /\ stage = [r \in Run |-> "none"]
    /\ tries = [r \in Run |-> 1]
    /\ forced = [r \in Run |-> FALSE]
    /\ pending = [r \in Run |-> {}]
    /\ todo = [r \in Run |-> {}]
    /\ ingested = [r \in Run |-> 0]

-----------------------------------------------------------------------------
\* The owner and the clock

Tick ==
    /\ now < MaxTs
    /\ now' = now + 1
    /\ UNCHANGED <<landing, bronze, layerVars, taskVars, forced, pending, reportVars>>

\* put_object under a key that exists replaces what a reader of the key gets.
Land(object) ==
    /\ landing' = {o \in landing : o.key # object.key} \cup {object}
    /\ UNCHANGED <<now, bronze, layerVars, taskVars, forced, pending, reportVars>>

\* The Upload page: prepare_upload refuses a file that does not parse; a file
\* that is already in Bronze is uploaded again, for the audit trail.
Upload(c) ==
    /\ Cardinality(landing) < MaxObjects
    /\ c \notin Malformed
    /\ Land([key |-> [ts |-> now, hash8 |-> Hash8[c]], content |-> c])

\* The MinIO console or mc: whatever bytes, under whatever key of the convention.
Place(object) ==
    /\ Cardinality(landing) < MaxObjects
    /\ Land(object)

\* delete_object removes every version of one key and leaves Bronze alone.
Delete(object) ==
    /\ object \in landing
    /\ landing' = landing \ {object}
    /\ UNCHANGED <<now, bronze, layerVars, taskVars, forced, pending, reportVars>>

-----------------------------------------------------------------------------
\* Airflow: the life of a run and of its tasks

\* The Airflow UI, the event listener and Job Management all create a queued
\* run; what differs between them is only logged.
Trigger(r, force) ==
    /\ stage[r] = "none"
    /\ stage' = [stage EXCEPT ![r] = "queued"]
    /\ forced' = [forced EXCEPT ![r] = force]
    /\ UNCHANGED <<landingVars, bronze, layerVars, tries, pending, reportVars>>

Active(r) == stage[r] \in TaskStage

\* Faulty: without max_active_runs.
MayStartAnyTime(r) == stage[r] = "queued"

\* max_active_runs=1: no run starts while another one is running.
MayStart(r) == \A other \in Run : ~Active(other)

\* log_trigger_source only logs, so a run starts at scan_landing_zone.
StartRun(r) ==
    /\ stage[r] = "queued"
    /\ MayStart(r)
    /\ stage' = [stage EXCEPT ![r] = "scan"]
    /\ tries' = [tries EXCEPT ![r] = 1]
    /\ UNCHANGED <<landingVars, bronze, layerVars, forced, pending, reportVars>>

Succeed(r, next) ==
    /\ stage' = [stage EXCEPT ![r] = next]
    /\ tries' = [tries EXCEPT ![r] = 1]

\* Faulty: the tries are counted and the limit is not looked at.
FailWithoutLimit(r) ==
    /\ tries' = [tries EXCEPT ![r] = @ + 1]
    /\ UNCHANGED stage

\* Faulty: the tries are not counted.
FailWithoutCount(r) == UNCHANGED taskVars

\* A task that raised is tried again; after its last try the run has failed.
Fail(r) ==
    \/ /\ tries[r] < MaxTries
       /\ tries' = [tries EXCEPT ![r] = @ + 1]
       /\ UNCHANGED stage
    \/ /\ tries[r] = MaxTries
       /\ stage' = [stage EXCEPT ![r] = "failed"]
       /\ UNCHANGED tries

\* A task with a lasting effect may still die between the effect and its report,
\* and a verdict on what is not modelled may go either way.
SucceedOrFail(r, next) == Succeed(r, next) \/ Fail(r)

\* A new try of the ingest task starts from the same XCom with a new report.
ResetReport(r) ==
    /\ todo' = [todo EXCEPT ![r] = pending[r]]
    /\ ingested' = [ingested EXCEPT ![r] = 0]

\* A crash, a timeout, MinIO out of reach, a locked warehouse: the try of the
\* current task ends before (or, in the ingest task, between) its effects.
Fault(r) ==
    /\ Active(r)
    /\ Fail(r)
    /\ IF stage[r] = "ingest" THEN ResetReport(r) ELSE UNCHANGED reportVars
    /\ UNCHANGED <<landingVars, bronze, layerVars, forced, pending>>

-----------------------------------------------------------------------------
\* scan_landing_zone

\* fetch_ingested_hashes: a content without rows leaves no trace in Bronze.
IngestedHashes == {bronze[i].content : i \in DOMAIN bronze}

\* select_candidate_objects compares the 8 characters the key carries with the
\* short hashes of what is in Bronze.
Candidates ==
    {o.key : o \in {p \in landing :
        \A c \in IngestedHashes : Hash8[c] # p.key.hash8}}

Scan(r) ==
    /\ stage[r] = "scan"
    /\ pending' = [pending EXCEPT ![r] = Candidates]
    /\ todo' = [todo EXCEPT ![r] = Candidates]
    /\ ingested' = [ingested EXCEPT ![r] = 0]
    /\ Succeed(r, "ingest")
    /\ UNCHANGED <<landingVars, bronze, layerVars, forced>>

-----------------------------------------------------------------------------
\* ingest_new_objects_to_bronze

\* Oldest snapshot first; objects of one second in the order of their keys.
NotAfter(k, l) == k.ts < l.ts \/ (k.ts = l.ts /\ k.hash8 <= l.hash8)

\* The object whose turn it is, if it is still in the bucket.
Current(r) ==
    {o \in landing : o.key \in todo[r] /\ \A k \in todo[r] : NotAfter(o.key, k)}

HashMatchesKey(o) == Hash8[o.content] = o.key.hash8

\* Faulty: the second look compares short hashes as the first one does.
SkipNamesake(r, o) ==
    /\ Hash8[o.content] \in {Hash8[c] : c \in IngestedHashes}
    /\ UNCHANGED <<bronze, ingested>>

SkipDuplicate(r, o) ==
    /\ o.content \in IngestedHashes
    /\ UNCHANGED <<bronze, ingested>>

\* Faulty: without the second look at the full MD5.
AppendBatchUnchecked(r, o) ==
    /\ o.content \notin Malformed
    /\ bronze' = IF o.content \in Empty THEN bronze ELSE Append(bronze, o)
    /\ ingested' = [ingested EXCEPT ![r] = @ + 1]

\* One INSERT that commits by itself; it writes no batch when there is no row,
\* and the object counts as ingested all the same.
AppendBatch(r, o) ==
    /\ o.content \notin IngestedHashes
    /\ o.content \notin Malformed
    /\ bronze' = IF o.content \in Empty THEN bronze ELSE Append(bronze, o)
    /\ ingested' = [ingested EXCEPT ![r] = @ + 1]

\* Faulty: the name of the object is trusted.
IngestObjectAsNamed(r) ==
    /\ stage[r] = "ingest"
    /\ \E o \in Current(r) :
        /\ SkipDuplicate(r, o) \/ AppendBatch(r, o)
        /\ todo' = [todo EXCEPT ![r] = @ \ {o.key}]
    /\ UNCHANGED <<landingVars, layerVars, taskVars, forced, pending>>

IngestObject(r) ==
    /\ stage[r] = "ingest"
    /\ \E o \in Current(r) :
        /\ HashMatchesKey(o)
        /\ SkipDuplicate(r, o) \/ AppendBatch(r, o)
        /\ todo' = [todo EXCEPT ![r] = @ \ {o.key}]
    /\ UNCHANGED <<landingVars, layerVars, taskVars, forced, pending>>

\* Faulty: an object that raises is logged and passed over.
IngestPassesOver(r) ==
    /\ stage[r] = "ingest"
    /\ \E k \in todo[r] :
        /\ \A l \in todo[r] : NotAfter(k, l)
        /\ \A o \in Current(r) : ~HashMatchesKey(o) \/ o.content \in Malformed
        /\ todo' = [todo EXCEPT ![r] = @ \ {k}]
    /\ UNCHANGED <<landingVars, bronze, layerVars, taskVars, forced, pending, ingested>>

\* get_object_bytes finds nothing, the bytes are not those the key names, or
\* they do not parse: the exception ends the try, what is committed stays.
IngestRaises(r) ==
    /\ stage[r] = "ingest"
    /\ todo[r] # {}
    /\ \A o \in Current(r) :
        \/ ~HashMatchesKey(o)
        \/ o.content \in Malformed \ IngestedHashes
    /\ Fail(r)
    /\ ResetReport(r)
    /\ UNCHANGED <<landingVars, bronze, layerVars, forced, pending>>

FinishIngest(r) ==
    /\ stage[r] = "ingest"
    /\ todo[r] = {}
    /\ Succeed(r, "gate")
    /\ UNCHANGED <<landingVars, bronze, layerVars, forced, pending, reportVars>>

-----------------------------------------------------------------------------
\* has_new_data, validate_bronze_batch

HasNewData(r) == ingested[r] > 0

\* Faulty: a forced run goes straight to dbt.
GateForcedUnchecked(r) ==
    /\ stage[r] = "gate"
    /\ \/ forced[r] /\ Succeed(r, "silver")
       \/ HasNewData(r) /\ ~forced[r] /\ Succeed(r, "validate")
       \/ ~HasNewData(r) /\ ~forced[r] /\ Succeed(r, "noop")
    /\ UNCHANGED <<landingVars, bronze, layerVars, forced, pending, reportVars>>

\* The short circuit skips everything downstream and the run ends well.
Gate(r) ==
    /\ stage[r] = "gate"
    /\ \/ (HasNewData(r) \/ forced[r]) /\ Succeed(r, "validate")
       \/ ~HasNewData(r) /\ ~forced[r] /\ Succeed(r, "noop")
    /\ UNCHANGED <<landingVars, bronze, layerVars, forced, pending, reportVars>>

\* Of the first n batches, the contents under the greatest snapshot_ts: with all
\* of Bronze, what fetch_snapshot_frame reads.
LatestContents(n) ==
    {bronze[i].content : i \in {j \in 1 .. n :
        \A k \in 1 .. n : bronze[k].key.ts <= bronze[j].key.ts}}

\* The checkpoint judges the rows of one snapshot together.  Its verdict on two
\* contents of one second, one good and one bad, depends on their sizes.
CheckpointMayPass(contents) == contents # {} /\ ~(contents \subseteq FailsCheckpoint)
CheckpointMayFail(contents) == contents = {} \/ contents \cap FailsCheckpoint # {}

Validate(r) ==
    /\ stage[r] = "validate"
    /\ \/ CheckpointMayPass(LatestContents(Len(bronze))) /\ Succeed(r, "silver")
       \/ CheckpointMayFail(LatestContents(Len(bronze))) /\ Fail(r)
    /\ UNCHANGED <<landingVars, bronze, layerVars, forced, pending, reportVars>>

-----------------------------------------------------------------------------
\* transform_with_dbt

\* stg_connections is a table over all of Bronze, rebuilt from nothing.
BuildSilver(r) ==
    /\ stage[r] = "silver"
    /\ silver' = Len(bronze)
    /\ SucceedOrFail(r, "snapshot")
    /\ UNCHANGED <<landingVars, bronze, dim, marts, forced, pending, reportVars>>

\* Faulty: dbt snapshot reads a Silver that the task wiring has not rebuilt yet.
SnapshotDimUnbuilt(r) ==
    /\ stage[r] = "snapshot"
    /\ dim' = dim
    /\ SucceedOrFail(r, "marts")
    /\ UNCHANGED <<landingVars, bronze, silver, marts, forced, pending, reportVars>>

SnapshotDim(r) ==
    /\ stage[r] = "snapshot"
    /\ dim' = silver
    /\ SucceedOrFail(r, "marts")
    /\ UNCHANGED <<landingVars, bronze, silver, marts, forced, pending, reportVars>>

BuildMarts(r) ==
    /\ stage[r] = "marts"
    /\ marts' = silver
    /\ SucceedOrFail(r, "tests")
    /\ UNCHANGED <<landingVars, bronze, silver, dim, forced, pending, reportVars>>

AloneAtItsSecond(i, n) == \A j \in 1 .. n : bronze[j].key.ts = bronze[i].key.ts => j = i

\* The error tests read every snapshot of Silver, not only the newest one.  Two
\* batches of one second are merged row by row, so there the tests may do either:
\* which file's row stays is a tie that stg_connections does not break.
TestsMayPass(n) == \A i \in 1 .. n : AloneAtItsSecond(i, n) => bronze[i].content \notin FailsTests
TestsMayFail(n) == \E i \in 1 .. n : AloneAtItsSecond(i, n) => bronze[i].content \in FailsTests

\* Faulty: the tests look at the newest snapshot only.
RunTestsOnNewest(r) ==
    /\ stage[r] = "tests"
    /\ \/ ~(LatestContents(Len(bronze)) \subseteq FailsTests) /\ Succeed(r, "freshness")
       \/ LatestContents(Len(bronze)) \cap FailsTests # {} /\ Fail(r)
    /\ UNCHANGED <<landingVars, bronze, layerVars, forced, pending, reportVars>>

RunTests(r) ==
    /\ stage[r] = "tests"
    /\ \/ TestsMayPass(silver) /\ Succeed(r, "freshness")
       \/ TestsMayFail(silver) /\ Fail(r)
    /\ UNCHANGED <<landingVars, bronze, layerVars, forced, pending, reportVars>>

\* dbt source freshness: 90 days without an ingestion are an error.
CheckFreshness(r) ==
    /\ stage[r] = "freshness"
    /\ SucceedOrFail(r, "success")
    /\ UNCHANGED <<landingVars, bronze, layerVars, forced, pending, reportVars>>

-----------------------------------------------------------------------------
OwnerStep ==
    \/ \E c \in Content : Upload(c)
    \/ \E o \in Placeable : Place(o)
    \/ \E o \in landing : Delete(o)

\* What Airflow does on its own once a run is queued.
RunStep(r) ==
    \/ StartRun(r)
    \/ Scan(r)
    \/ IngestObject(r) \/ IngestRaises(r) \/ FinishIngest(r)
    \/ Gate(r) \/ Validate(r)
    \/ BuildSilver(r) \/ SnapshotDim(r) \/ BuildMarts(r)
    \/ RunTests(r) \/ CheckFreshness(r)

Next ==
    \/ Tick
    \/ OwnerStep
    \/ \E r \in Run : (\E f \in BOOLEAN : Trigger(r, f)) \/ RunStep(r) \/ Fault(r)

Spec == Init /\ [][Next]_vars

\* The scheduler keeps running what it has queued: the containers restart
\* unless stopped, and execution_timeout ends a task that hangs.  The owner,
\* the clock, the triggers and the faults owe nothing.
FairSpec == Spec /\ \A r \in Run : WF_vars(RunStep(r))

-----------------------------------------------------------------------------
(***************************************************************************)
(* What Bronze promises.                                                   *)
(***************************************************************************)

\* No content is ever in Bronze twice, however often it was uploaded, listed
\* by overlapping runs or retried after a failure (ingest_object).
ExactlyOnce ==
    \A i, j \in DOMAIN bronze : bronze[i].content = bronze[j].content => i = j

\* Every batch has a parseable content whose hash is the one its key claims, so
\* no object put in the bucket under a foreign name is ever ingested.
BronzeIsGenuine ==
    \A i \in DOMAIN bronze : HashMatchesKey(bronze[i]) /\ bronze[i].content \notin Malformed

\* A run that got past its ingest task passed over nothing its scan had found:
\* the content each pending key names is in Bronze, or it had no row.
AccountedFor(k) == \E c \in IngestedHashes \cup Empty : Hash8[c] = k.hash8

PastIngest == {"gate", "validate", "silver", "snapshot", "marts", "tests",
               "freshness", "noop", "success"}

NothingPassedOver ==
    \A r \in Run : stage[r] \in PastIngest =>
        \A k \in pending[r] : AccountedFor(k)

\* The ingest task passes over an object of its list only if its very content is in
\* Bronze, or has no row: "the authoritative check happens after download against the
\* full MD5" (select_candidate_objects).  Of two exports of one list whose short hashes
\* are the same, both are ingested; the scan itself never lists the second of them
\* once the first is in Bronze.
FullHashDecides ==
    [][\A r \in Run : \A o \in landing :
        o.key \in todo[r] /\ o.key \notin todo'[r] =>
            o.content \in IngestedHashes' \cup Empty]_vars

\* The contents of Bronze in the order of their commits, and the marts, are a
\* dataset of record: each content recorded once, none lost, and the marts always
\* rebuilt from the whole record.
Record == [i \in 1 .. Len(bronze) |-> bronze[i].content]

Dataset == INSTANCE DatasetOfRecord WITH record <- Record, published <- marts

ImplementsDataset == Dataset!Spec

(***************************************************************************)
(* What the layers promise.                                                *)
(***************************************************************************)

\* No layer shows a batch that the layer below it does not have, whatever
\* failed or was retried in between.
LayersInOrder == marts <= dim /\ dim <= silver /\ silver <= Len(bronze)

\* A run that ends in success leaves every layer built from all of Bronze: no
\* ingestion has slipped in since its dbt tasks ran (max_active_runs=1).
SuccessIsCurrent ==
    [][\A r \in Run : stage'[r] = "success" /\ stage[r] # "success" =>
        marts' = Len(bronze') /\ dim' = Len(bronze') /\ silver' = Len(bronze')]_vars

\* The newest snapshot in Silver, which is the only one dim_connection is fed,
\* is one the checkpoint could accept.
NewestInSilverPassed ==
    silver > 0 => CheckpointMayPass(LatestContents(silver))

\* A run that ends in success vouches for the whole history: no snapshot of
\* Bronze, however old, is one that an error-severity dbt test rejects.
SuccessVouchesForHistory ==
    [][\A r \in Run : stage'[r] = "success" /\ stage[r] # "success" =>
        TestsMayPass(Len(bronze))]_vars

\* "If the landed data does not look like a LinkedIn export any more, the
\* transformation layer should never see it" (common/data_quality.py): no snapshot of
\* Silver that is of one export only is one that the checkpoint rejects.
OnlyCheckedReachesSilver ==
    \A i \in 1 .. silver :
        AloneAtItsSecond(i, silver) => bronze[i].content \notin FailsCheckpoint

\* A run that is a no-op had nothing to do: what is in Bronze is in the marts
\* ("a redundant trigger is a safe no-op", the DAG's has_new_data).
NoopHadNothingToDo ==
    [][\A r \in Run : stage'[r] = "noop" /\ stage[r] # "noop" => marts = Len(bronze)]_vars

\* Every run that is queued ends: no task is tried for ever, no run starves
\* behind the others.
RunsEnd == \A r \in Run : stage[r] = "queued" ~> stage[r] \in EndStage
=============================================================================
