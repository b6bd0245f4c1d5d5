------------------------------ MODULE UploadPage ------------------------------
(***************************************************************************)
(* The Upload page (streamlit_app/pages/1_Upload.py).  Every interaction   *)
(* runs the script again from the top: it probes the warehouse, says       *)
(* whether the chosen file is known, uploads it if that button was the     *)
(* click, lists the bucket, labels what it lists and deletes the chosen    *)
(* object if that was the click.  The DAG goes on in between.  The landing *)
(* zone is one minio_status reaches: where it does not, the page stops.    *)
(***************************************************************************)
EXTENDS WarehouseReads, Naturals, FiniteSets

CONSTANTS
    MaxUploads,   \* bound on the uploads; the n-th one has snapshot_ts n
    NoFile,       \* nothing in the file uploader
    NoTarget      \* no object to choose from

Object == [ts : 1 .. MaxUploads, content : Content]

\* What a line of the selectbox says: the object, and whether it is in Bronze.
Label == [object : Object, known : BOOLEAN]

ASSUME PageAssumption ==
    /\ MaxUploads \in Nat
    /\ NoFile \notin Content
    /\ NoTarget \notin Label

VARIABLES
    landing,     \* the objects of the landing zone
    uploads,     \* how many there have been
    step,        \* where the script is: "idle" when the page is rendered
    click,       \* the button that made the script run
    file,        \* widget: the content in the file uploader
    target,      \* widget: the line chosen in the selectbox "delete_target"
    confirmed,   \* widget: the checkbox "delete_confirmed"
    busy,        \* what warehouse_status said in this run of the script
    verdict,     \* what the page says of the chosen file
    message,     \* what it says of the upload just made
    listed,      \* the objects it lists
    known        \* those it lists as in Bronze

bucketVars == <<landing, uploads>>
widgetVars == <<file, target, confirmed>>
saidVars   == <<verdict, message>>
pageVars   == <<landing, uploads, step, click, file, target, confirmed, busy,
                verdict, message, listed, known>>
vars == <<bronze, marts, writer, cache, landing, uploads, step, click, file,
          target, confirmed, busy, verdict, message, listed, known>>

\* What the page says of a content.
Saying == [content : Content \cup {NoFile}, says : {"nothing", "unchecked", "duplicate", "new"}]

Nothing == [content |-> NoFile, says |-> "nothing"]

TypeOK ==
    /\ ReadsTypeOK
    /\ landing \subseteq Object
    /\ uploads \in 0 .. MaxUploads
    /\ step \in {"idle", "start", "probed", "upload", "list", "label"}
    /\ click \in {"none", "upload", "delete"}
    /\ file \in Content \cup {NoFile}
    /\ target \in Label \cup {NoTarget}
    /\ confirmed \in BOOLEAN
    /\ busy \in BOOLEAN
    /\ verdict \in Saying
    /\ message \in Saying
    /\ listed \subseteq Object
    /\ known \subseteq Object

Init ==
    /\ ReadsInit
    /\ landing = {} /\ uploads = 0
    /\ step = "start" /\ click = "none"
    /\ file = NoFile /\ target = NoTarget /\ confirmed = FALSE
    /\ busy = FALSE
    /\ verdict = Nothing /\ message = Nothing
    /\ listed = {} /\ known = {}

-----------------------------------------------------------------------------
\* What the owner does with a rendered page.

Rerun(button) ==
    /\ step = "idle"
    /\ step' = "start"
    /\ click' = button
    /\ UNCHANGED <<readVars, bucketVars, busy, saidVars, listed, known>>

ChooseFile(c) == file' = c /\ UNCHANGED <<target, confirmed>> /\ Rerun("none")

ChooseTarget(o) ==
    /\ o \in listed
    /\ target' = [object |-> o, known |-> o \in known]
    /\ UNCHANGED <<file, confirmed>>
    /\ Rerun("none")

ToggleConfirmed ==
    /\ target # NoTarget
    /\ confirmed' = ~confirmed
    /\ UNCHANGED <<file, target>>
    /\ Rerun("none")

\* Any other interaction, such as opening an expander of the page.
Touch == UNCHANGED widgetVars /\ Rerun("none")

ClickUpload == file # NoFile /\ UNCHANGED widgetVars /\ Rerun("upload")

ClickDelete == confirmed /\ target # NoTarget /\ UNCHANGED widgetVars /\ Rerun("delete")

-----------------------------------------------------------------------------
\* The script, from the top.

\* Faulty: the probe is cached like the queries are, and for good.
ProbeOnce ==
    /\ step = "start"
    /\ busy' = (IF verdict = Nothing THEN writer ELSE busy)
    /\ message' = Nothing
    /\ step' = "probed"
    /\ UNCHANGED <<readVars, bucketVars, click, widgetVars, verdict, listed, known>>

\* What an earlier run of the script said of an upload is not on the page any more.
Probe ==
    /\ step = "start"
    /\ busy' = writer
    /\ message' = Nothing
    /\ step' = "probed"
    /\ UNCHANGED <<readVars, bucketVars, click, widgetVars, verdict, listed, known>>

\* is_hash_in_bronze, and what is said of the answer.
Looked(c) ==
    [content |-> c,
     says |-> IF c \in Read("bronze_file_hashes") THEN "duplicate" ELSE "new"]

\* The question is not asked when the probe said busy.
ShowVerdict ==
    /\ step = "probed"
    /\ \/ /\ file = NoFile
          /\ verdict' = Nothing
          /\ UNCHANGED cache
       \/ /\ file # NoFile /\ busy
          /\ verdict' = [content |-> file, says |-> "unchecked"]
          /\ UNCHANGED cache
       \/ /\ file # NoFile /\ ~busy
          /\ verdict' = Looked(file)
          /\ cache' = Cached("bronze_file_hashes")
    /\ step' = IF click = "upload" THEN "upload" ELSE "list"
    /\ UNCHANGED <<warehouseVars, bucketVars, click, widgetVars, busy, message, listed, known>>

\* perform_upload asks is_hash_in_bronze whether the warehouse is busy or not.
\* put_export may fail, and then the page keeps the answer and the cache.
PerformUpload ==
    /\ step = "upload"
    /\ \/ /\ uploads < MaxUploads
          /\ uploads' = uploads + 1
          /\ landing' = landing \cup {[ts |-> uploads', content |-> file]}
          /\ message' = Looked(file)
          /\ cache' = Cleared
       \/ /\ cache' = Cached("bronze_file_hashes")
          /\ UNCHANGED <<bucketVars, message>>
    /\ step' = "list"
    /\ click' = "none"
    /\ UNCHANGED <<warehouseVars, widgetVars, busy, verdict, listed, known>>

\* A bucket that cannot be listed is shown as an empty one.
ListObjects ==
    /\ step = "list"
    /\ listed' \in {landing, {}}
    /\ step' = "label"
    /\ UNCHANGED <<readVars, bucketVars, click, widgetVars, busy, saidVars, known>>

Known(objects) ==
    {o \in objects : Hash8[o.content] \in ShortHashes(Read("bronze_file_hashes"))}

Options(objects) == {[object |-> o, known |-> o \in Known(objects)] : o \in objects}

\* The newest object is the first line.
FirstOption(objects) ==
    {l \in Options(objects) : \A o \in objects : o.ts <= l.object.ts}

\* The choice is kept as long as its line is among the options; a line contains
\* what the page says of the object, so it changes when that does.
Chosen(objects, chosen) ==
    IF objects = {} THEN chosen = NoTarget
    ELSE IF target \in Options(objects) THEN chosen = target
           ELSE chosen \in FirstOption(objects)

\* The labels, the choice and, if that was the click, the deletion of what is
\* chosen now.  A deletion clears the caches and runs the script again.  The
\* checkbox is lost when nothing is listed, and stays as it is otherwise.
LabelObjects ==
    /\ step = "label"
    /\ known' = Known(listed)
    /\ Chosen(listed, target')
    /\ confirmed' = (confirmed /\ listed # {})
    /\ \/ /\ click = "delete" /\ confirmed' /\ target' # NoTarget
          /\ landing' = landing \ {target'.object}
          /\ cache' = Cleared
          /\ step' = "start"
       \/ /\ cache' = Cached("bronze_file_hashes")
          /\ step' = "idle"
          /\ UNCHANGED landing
          \* no deletion was asked for, or delete_object failed
    /\ click' = "none"
    /\ UNCHANGED <<warehouseVars, uploads, file, busy, saidVars, listed>>

-----------------------------------------------------------------------------
OwnerStep ==
    \/ \E c \in Content : ChooseFile(c)
    \/ \E o \in listed : ChooseTarget(o)
    \/ ToggleConfirmed \/ Touch \/ ClickUpload \/ ClickDelete

ScriptStep == Probe \/ ShowVerdict \/ PerformUpload \/ ListObjects \/ LabelObjects

\* The DAG ingests what is in the landing zone.
DagStep ==
    /\ \/ OpenForWriting \/ RebuildMarts \/ Close
       \/ \E o \in landing : CommitBatch(o.content)
    /\ UNCHANGED pageVars

CacheStep == (TriggerRun \/ \E q \in Query : Expire(q)) /\ UNCHANGED pageVars

Next == OwnerStep \/ ScriptStep \/ DagStep \/ CacheStep

Spec == Init /\ [][Next]_vars

\* A script that has started runs to its end, and an entry expires by the clock.
FairSpec ==
    /\ Spec
    /\ WF_vars(ScriptStep)
    /\ \A q \in Query : WF_vars(Expire(q) /\ UNCHANGED pageVars)

-----------------------------------------------------------------------------
\* Whatever the page says is in Bronze is there: the chosen file it calls a
\* duplicate, the upload it called one and, up to the 8 characters their keys have
\* of the hash, the objects it lists as ingested.  With a warehouse it cannot read,
\* "it over-warns before a deletion rather than under-warning" (1_Upload.py).
InBronzeIsTrue ==
    /\ verdict.says = "duplicate" => verdict.content \in bronze
    /\ message.says = "duplicate" => message.content \in bronze
    /\ \A o \in known : \E c \in bronze : Hash8[c] = Hash8[o.content]

\* If from some time on no task writes and the chosen file is in Bronze, and the
\* owner keeps using the page, it ends up calling the file a duplicate and goes
\* on doing so, in spite of the answers cached before.
DuplicateIsRecognised ==
    \A c \in Content :
        <>[](~writer /\ file = c /\ c \in bronze) /\ []<><<Touch>>_vars
            => <>[](verdict = [content |-> c, says |-> "duplicate"])

\* "If it has not [been ingested], the export is lost for good and the warning
\* says so" (architecture_decisions.md): an object that is deleted and is not in
\* Bronze is the one the page had on display, as never ingested, at the click.
LossIsWarnedOf ==
    [][\A o \in landing \ landing' : o.content \notin bronze =>
        target = [object |-> o, known |-> FALSE]]_vars
=============================================================================
