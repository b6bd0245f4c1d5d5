--------------------------- MODULE UploadPageProofs ---------------------------
(***************************************************************************)
(* Proofs about the Upload page: its widgets and what is uploaded have     *)
(* their types, and what it says is in Bronze is in Bronze.                *)
(***************************************************************************)
EXTENDS UploadPage, WarehouseReadsProofs

PageInv == CacheIsTrue /\ InBronzeIsTrue

\* A batch in Bronze is there for good: no step takes away what the page said.
LEMMA BronzeGrows ==
    ASSUME CacheIsTrue, [Next]_vars
    PROVE  bronze \subseteq bronze'
  <1>1. CASE DagStep
    BY <1>1 DEF DagStep, OpenForWriting, CommitBatch, RebuildMarts, Close
  <1>2. CASE CacheStep
    BY <1>2 DEF CacheStep, TriggerRun, Expire, warehouseVars
  <1>3. CASE OwnerStep
    BY <1>3 DEF OwnerStep, ChooseFile, ChooseTarget, ToggleConfirmed, Touch, ClickUpload,
                ClickDelete, Rerun, readVars
  <1>4. CASE ScriptStep
    BY <1>4 DEF ScriptStep, Probe, ShowVerdict, PerformUpload, ListObjects, LabelObjects,
                readVars, warehouseVars
  <1>5. CASE UNCHANGED vars
    BY <1>5 DEF vars
  <1> QED BY <1>1, <1>2, <1>3, <1>4, <1>5 DEF Next

\* What is_hash_in_bronze says yes to is in Bronze.
LEMMA LookedIsTrue ==
    ASSUME CacheIsTrue, NEW c
    PROVE  /\ Looked(c).content = c
           /\ Looked(c).says = "duplicate" => c \in bronze
  <1>1. Read("bronze_file_hashes") \subseteq bronze
    BY ReadIsTrue
  <1> QED BY <1>1 DEF Looked

LEMMA CacheStaysTrue ==
    ASSUME CacheIsTrue, [Next]_vars
    PROVE  CacheIsTrue'
  <1>1. CASE DagStep
    BY <1>1, WarehouseStep DEF DagStep
  <1>2. CASE CacheStep
    BY <1>2, WarehouseStep DEF CacheStep
  <1>3. CASE OwnerStep
    BY <1>3 DEF OwnerStep, ChooseFile, ChooseTarget, ToggleConfirmed, Touch, ClickUpload,
                ClickDelete, Rerun, readVars, CacheIsTrue
  <1>4. CASE ScriptStep
    <2>1. UNCHANGED warehouseVars
      BY <1>4 DEF ScriptStep, Probe, ShowVerdict, PerformUpload, ListObjects, LabelObjects,
                  readVars, warehouseVars
    <2>2. cache' = Cached("bronze_file_hashes") \/ cache' = Cleared \/ UNCHANGED cache
      BY <1>4 DEF ScriptStep, Probe, ShowVerdict, PerformUpload, ListObjects, LabelObjects,
                  readVars
    <2> QED BY <2>1, <2>2, PageStep
  <1>5. CASE UNCHANGED vars
    BY <1>5 DEF vars, CacheIsTrue
  <1> QED BY <1>1, <1>2, <1>3, <1>4, <1>5 DEF Next

LEMMA SayingsStayTrue ==
    ASSUME PageInv, [Next]_vars
    PROVE  InBronzeIsTrue'
  <1>g. bronze \subseteq bronze'
    BY BronzeGrows DEF PageInv
  <1>c. CacheIsTrue
    BY DEF PageInv
  <1>1. CASE UNCHANGED <<verdict, message, known>>
    BY <1>1, <1>g DEF PageInv, InBronzeIsTrue
  <1>2. CASE DagStep \/ CacheStep \/ OwnerStep \/ UNCHANGED vars \/ ListObjects
    <2>1. UNCHANGED <<verdict, message, known>>
      BY <1>2 DEF DagStep, CacheStep, OwnerStep, ChooseFile, ChooseTarget, ToggleConfirmed,
                  Touch, ClickUpload, ClickDelete, Rerun, ListObjects, pageVars, saidVars, vars
    <2> QED BY <2>1, <1>1
  <1>3. CASE Probe
    BY <1>3, <1>g DEF Probe, Nothing, PageInv, InBronzeIsTrue
  <1>4. CASE ShowVerdict
    <2>1. UNCHANGED <<message, known>>
      BY <1>4 DEF ShowVerdict
    <2>2. verdict' = Nothing \/ verdict' = [content |-> file, says |-> "unchecked"]
             \/ verdict' = Looked(file)
      BY <1>4 DEF ShowVerdict
    <2>3. verdict'.says = "duplicate" => verdict'.content \in bronze
      BY <2>2, <1>c, LookedIsTrue DEF Nothing
    <2> QED BY <2>1, <2>3, <1>g DEF PageInv, InBronzeIsTrue
  <1>5. CASE PerformUpload
    <2>1. UNCHANGED <<verdict, known>>
      BY <1>5 DEF PerformUpload
    <2>2. UNCHANGED message \/ message' = Looked(file)
      BY <1>5 DEF PerformUpload
    <2> QED BY <2>1, <2>2, <1>c, <1>g, LookedIsTrue DEF PageInv, InBronzeIsTrue
  <1>6. CASE LabelObjects
    <2>1. UNCHANGED <<verdict, message>> /\ known' = Known(listed)
      BY <1>6 DEF LabelObjects, saidVars
    <2>2. \A o \in Known(listed) : \E c \in bronze : Hash8[c] = Hash8[o.content]
      <3>1. Read("bronze_file_hashes") \subseteq bronze
        BY <1>c, ReadIsTrue
      <3> QED BY <3>1 DEF Known, ShortHashes
    <2> QED BY <2>1, <2>2, <1>g DEF PageInv, InBronzeIsTrue
  <1> QED BY <1>2, <1>3, <1>4, <1>5, <1>6 DEF Next, ScriptStep

\* What the Upload page says is in Bronze is there, by its short hash if it is a line
\* of the list, for any exports, hashes and number of uploads, whatever was refused,
\* cached or ingested between two reads.
THEOREM SayingsAreTrue == Spec => []InBronzeIsTrue
  <1>1. Init => PageInv
    BY CacheIsTrueInit DEF Init, PageInv, InBronzeIsTrue, Nothing
  <1>2. PageInv /\ [Next]_vars => PageInv'
    BY CacheStaysTrue, SayingsStayTrue DEF PageInv
  <1>3. PageInv => InBronzeIsTrue
    BY DEF PageInv
  <1> QED BY <1>1, <1>2, <1>3, PTL DEF Spec
-----------------------------------------------------------------------------
\* An answer holds contents and nothing else.
LEMMA ReadIsContents ==
    ASSUME ReadsTypeOK, NEW q
    PROVE  Read(q) \subseteq Content
  <1>1. CASE q \in DOMAIN cache
    <2>1. PICK qs \in SUBSET Query : cache \in [qs -> SUBSET Content]
      BY DEF ReadsTypeOK
    <2> QED BY <1>1, <2>1 DEF Read
  <1>2. CASE q \notin DOMAIN cache
    BY <1>2 DEF Read, Answer, ReadsTypeOK
  <1> QED BY <1>1, <1>2

LEMMA CachedTyped ==
    ASSUME ReadsTypeOK, NEW q \in Query
    PROVE  /\ Cached(q) \in UNION {[qs -> SUBSET Content] : qs \in SUBSET Query}
           /\ Cleared \in UNION {[qs -> SUBSET Content] : qs \in SUBSET Query}
  <1>1. DOMAIN cache \subseteq Query
    <2>1. PICK qs \in SUBSET Query : cache \in [qs -> SUBSET Content]
      BY DEF ReadsTypeOK
    <2> QED BY <2>1
  <1>2. Cached(q) \in [DOMAIN cache \cup {q} -> SUBSET Content]
    BY ReadIsContents DEF Cached
  <1>3. Cleared \in [{} -> SUBSET Content]
    BY DEF Cleared
  <1> QED BY <1>1, <1>2, <1>3

\* An upload runs with a file: its button needs one, and choosing another file is
\* another run of the script.
HasFile == (click = "upload" \/ step = "upload") => file # NoFile

LEMMA ReadsStayTyped ==
    ASSUME TypeOK, [Next]_vars
    PROVE  ReadsTypeOK'
  <1>t. ReadsTypeOK
    BY DEF TypeOK
  <1>1. CASE DagStep
    <2>1. CASE OpenForWriting \/ RebuildMarts \/ Close
      BY <1>t, <2>1 DEF OpenForWriting, RebuildMarts, Close, ReadsTypeOK
    <2>2. CASE \E o \in landing : CommitBatch(o.content)
      BY <1>t, <2>2 DEF CommitBatch, ReadsTypeOK, TypeOK, Object
    <2> QED BY <1>1, <2>1, <2>2 DEF DagStep
  <1>2. CASE CacheStep
    <2>1. CASE TriggerRun
      BY <1>t, <2>1, CachedTyped DEF TriggerRun, warehouseVars, ReadsTypeOK, Query
    <2>2. ASSUME NEW q \in Query, Expire(q)
          PROVE  ReadsTypeOK'
      <3>1. PICK qs \in SUBSET Query : cache \in [qs -> SUBSET Content]
        BY <1>t DEF ReadsTypeOK
      <3>2. cache' \in [qs \ {q} -> SUBSET Content]
        BY <2>2, <3>1 DEF Expire
      <3>3. qs \ {q} \in SUBSET Query
        OBVIOUS
      <3> QED BY <1>t, <2>2, <3>2, <3>3 DEF Expire, warehouseVars, ReadsTypeOK
    <2> QED BY <1>2, <2>1, <2>2 DEF CacheStep
  <1>3. CASE OwnerStep \/ UNCHANGED vars
    <2>1. UNCHANGED readVars
      BY <1>3 DEF OwnerStep, ChooseFile, ChooseTarget, ToggleConfirmed, Touch, ClickUpload,
                  ClickDelete, Rerun, readVars, vars
    <2> QED BY <1>t, <2>1 DEF readVars, ReadsTypeOK
  <1>4. CASE ScriptStep
    <2>1. UNCHANGED warehouseVars
      BY <1>4 DEF ScriptStep, Probe, ShowVerdict, PerformUpload, ListObjects, LabelObjects,
                  readVars, warehouseVars
    <2>2. cache' = Cached("bronze_file_hashes") \/ cache' = Cleared \/ UNCHANGED cache
      BY <1>4 DEF ScriptStep, Probe, ShowVerdict, PerformUpload, ListObjects, LabelObjects,
                  readVars
    <2> QED BY <1>t, <2>1, <2>2, CachedTyped DEF warehouseVars, ReadsTypeOK, Query
  <1> QED BY <1>1, <1>2, <1>3, <1>4 DEF Next

LEMMA LookedTyped ==
    ASSUME NEW c \in Content \cup {NoFile}
    PROVE  Looked(c) \in Saying
  BY DEF Looked, Saying

LEMMA PageStaysTyped ==
    ASSUME TypeOK, HasFile, [Next]_vars
    PROVE  TypeOK'
  <1> USE PageAssumption
  <1>r. ReadsTypeOK'
    BY ReadsStayTyped
  <1>1. CASE DagStep \/ CacheStep \/ UNCHANGED vars
    <2>1. UNCHANGED pageVars
      BY <1>1 DEF DagStep, CacheStep, vars, pageVars
    <2> QED BY <1>r, <2>1 DEF pageVars, TypeOK
  <1>2. CASE OwnerStep
    <2>1. UNCHANGED <<landing, uploads, busy, verdict, message, listed, known>>
      BY <1>2 DEF OwnerStep, ChooseFile, ChooseTarget, ToggleConfirmed, Touch, ClickUpload,
                  ClickDelete, Rerun, bucketVars, saidVars
    <2>2. step' = "start" /\ click' \in {"none", "upload", "delete"}
      BY <1>2 DEF OwnerStep, ChooseFile, ChooseTarget, ToggleConfirmed, Touch, ClickUpload,
                  ClickDelete, Rerun
    <2>3. file' \in Content \cup {NoFile} /\ confirmed' \in BOOLEAN
      BY <1>2 DEF OwnerStep, ChooseFile, ChooseTarget, ToggleConfirmed, Touch, ClickUpload,
                  ClickDelete, widgetVars, TypeOK
    <2>4. target' \in Label \cup {NoTarget}
      <3>1. CASE \E o \in listed : ChooseTarget(o)
        BY <3>1 DEF ChooseTarget, TypeOK, Label
      <3>2. CASE UNCHANGED target
        BY <3>2 DEF TypeOK
      <3> QED BY <1>2, <3>1, <3>2 DEF OwnerStep, ChooseFile, ToggleConfirmed, Touch,
                                      ClickUpload, ClickDelete, widgetVars
    <2>5. step' \in {"idle", "start", "probed", "upload", "list", "label"}
      BY <2>2
    <2>6. TypeOK
      OBVIOUS
    <2> QED BY <1>r, <2>1, <2>2, <2>3, <2>4, <2>5, <2>6 DEF TypeOK
  <1>3. CASE Probe
    BY <1>3, <1>r DEF Probe, TypeOK, ReadsTypeOK, Nothing, Saying, bucketVars, widgetVars
  <1>4. CASE ShowVerdict
    <2>1. verdict' \in Saying
      BY <1>4, LookedTyped DEF ShowVerdict, TypeOK, Nothing, Saying
    <2>2. step' \in {"upload", "list"}
      BY <1>4 DEF ShowVerdict
    <2> QED BY <1>4, <1>r, <2>1, <2>2 DEF ShowVerdict, TypeOK, bucketVars, widgetVars
  <1>5. CASE PerformUpload
    <2>1. ASSUME uploads < MaxUploads, uploads' = uploads + 1
          PROVE  /\ uploads' \in 0 .. MaxUploads
                 /\ [ts |-> uploads', content |-> file] \in Object
      <3>1. file \in Content
        BY <1>5 DEF PerformUpload, HasFile, TypeOK
      <3>2. uploads' \in 1 .. MaxUploads
        BY <2>1 DEF TypeOK
      <3> QED BY <3>1, <3>2 DEF Object
    <2>2. uploads' \in 0 .. MaxUploads /\ landing' \subseteq Object
      BY <1>5, <2>1 DEF PerformUpload, TypeOK, bucketVars
    <2>3. message' \in Saying
      BY <1>5, LookedTyped DEF PerformUpload, TypeOK
    <2> QED BY <1>5, <1>r, <2>2, <2>3 DEF PerformUpload, TypeOK, widgetVars
  <1>6. CASE ListObjects
    <2>1. listed' \subseteq Object
      BY <1>6 DEF ListObjects, TypeOK
    <2> QED BY <1>6, <1>r, <2>1 DEF ListObjects, TypeOK, bucketVars, widgetVars, saidVars
  <1>7. CASE LabelObjects
    <2>1. Known(listed) \subseteq Object /\ Options(listed) \subseteq Label
      <3>1. listed \subseteq Object
        BY DEF TypeOK
      <3>2. ASSUME NEW o \in listed
            PROVE  [object |-> o, known |-> o \in Known(listed)] \in Label
        <4>1. (o \in Known(listed)) \in BOOLEAN
          OBVIOUS
        <4> QED BY <3>1, <4>1, Zenon DEF Label
      <3> QED BY <3>1, <3>2 DEF Known, Options
    <2>2. target' \in Label \cup {NoTarget}
      <3>1. Chosen(listed, target')
        BY <1>7 DEF LabelObjects
      <3>2. FirstOption(listed) \subseteq Options(listed)
        BY DEF FirstOption
      <3>3. target \in Options(listed) => target \in Label
        BY <2>1
      <3> QED BY <2>1, <3>1, <3>2, <3>3 DEF Chosen
    <2> QED BY <1>7, <1>r, <2>1, <2>2 DEF LabelObjects, TypeOK, saidVars
  <1> QED BY <1>1, <1>2, <1>3, <1>4, <1>5, <1>6, <1>7 DEF Next, ScriptStep

LEMMA StillHasFile ==
    ASSUME HasFile, [Next]_vars
    PROVE  HasFile'
  <1>1. CASE OwnerStep
    BY <1>1 DEF OwnerStep, ChooseFile, ChooseTarget, ToggleConfirmed, Touch, ClickUpload,
                ClickDelete, Rerun, widgetVars, HasFile
  <1>2. CASE ScriptStep
    BY <1>2 DEF ScriptStep, Probe, ShowVerdict, PerformUpload, ListObjects, LabelObjects,
                widgetVars, HasFile
  <1>3. CASE DagStep \/ CacheStep \/ UNCHANGED vars
    BY <1>3 DEF DagStep, CacheStep, pageVars, vars, HasFile
  <1> QED BY <1>1, <1>2, <1>3 DEF Next

\* Uploads, widgets and cached answers have their types, for any exports and any
\* number of uploads: only an export is ever put in the bucket.
THEOREM TypeCorrect == Spec => []TypeOK
  <1>1. Init => TypeOK /\ HasFile
    <2>1. ASSUME ReadsInit PROVE ReadsTypeOK
      <3>1. Cleared \in [{} -> SUBSET Content]
        BY DEF Cleared
      <3> QED BY <2>1, <3>1 DEF ReadsInit, ReadsTypeOK
    <2>2. 0 \in 0 .. MaxUploads /\ Nothing \in Saying
      BY PageAssumption DEF Nothing, Saying
    <2> QED BY <2>1, <2>2 DEF Init, TypeOK, HasFile
  <1>2. TypeOK /\ HasFile /\ [Next]_vars => TypeOK' /\ HasFile'
    BY PageStaysTyped, StillHasFile
  <1> QED BY <1>1, <1>2, PTL DEF Spec
=============================================================================
