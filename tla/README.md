# Connection Lens: TLA+ models and proofs

Connection Lens is a personal analytics application: its owner uploads the
`Connections.csv` that LinkedIn exports, a pipeline keeps every export and
rebuilds a small warehouse from them, and a Streamlit app shows who is in the
network, who moved, and who could refer the owner to a company. This directory
holds TLA+ models of that system, TLC configurations that check them on small
instances, and TLAPS proofs of the safety properties for instances of any size.

    tlc -workers 2 -config Ingestion_core.cfg IngestionMC
    tlapm IngestionProofs.tla

## 1. The system

### 1.1 Components

**Landing zone** (`common/minio_client.py`, `common/naming.py`,
`common/hashing.py`). State: the objects of one MinIO bucket, keyed
`raw/linkedin_connections/<snapshot_ts>_<hash8>.csv`, where `snapshot_ts` is the
upload time truncated to seconds and `hash8` the first eight characters of the
MD5 of the bytes. Operations: `put_export`, `list_landing_objects`,
`get_object_bytes`, `delete_object` (all versions of one key). What makes it
right: an object's name says what is in it, a deletion removes one object and
nothing of Bronze.

**Bronze ingestion** (`common/bronze.py`, `common/duckdb_io.py`). State: the
append-only table `bronze.raw_connections`, one batch of rows per ingested file.
Operations: `scan_landing_zone` (list, drop the keys whose `hash8` is known),
`ingest_object` (download, check the hash against the name, skip what Bronze has,
parse, one INSERT), and the report of what one try did. What makes it right: a
content enters Bronze exactly once, only genuine and parseable contents do, and
nothing that was scanned is passed over.

**Airflow DAG** (`dags/ingest_connections_dag.py`). State: runs, their tasks and
tries, XComs. Operations: eleven tasks in a chain, two of which only log; a short
circuit when nothing was ingested, retries, `max_active_runs=1`, the parameter
`force_transform`. What
makes it right: a run that succeeds leaves every layer current, a run that does
nothing had nothing to do, every queued run ends.

**Quality checkpoint** (`common/data_quality.py`, `great_expectations/`). No
state: it reads the newest snapshot of Bronze and lets dbt run or not. What makes
it right: what it would reject never becomes the current network.

**dbt project** (`dbt_project/`). State: `silver.stg_connections` (a table over
all of Bronze), `gold.dim_connection` (an SCD2 snapshot, the only incremental
table), `gold.fct_connection_snapshot` and the marts. Operations: rebuild Silver,
merge the newest snapshot into the dimension, rebuild the marts, run the tests.
What makes it right: one current row per connection, versions that do not
overlap, history that is not rewritten, growth figures that add up.

**Warehouse reads of the app** (`streamlit_app/db.py`). State: `st.cache_data`
entries shared by all sessions. Operations: a probe whether the warehouse can be
opened, cached queries, `clear_caches`. Hard: a DAG task holds the only lock of
the DuckDB file, so any read may find it busy, at any moment between two reads of
one page.

**Overview page** (`streamlit_app/app.py`, `ui.py`). No state but what it shows:
busy, onboarding or the headline numbers. What makes it right: numbers are those of
the marts, and a busy moment does not leave the page wrong for good.

**Upload page** (`streamlit_app/pages/1_Upload.py`,
`streamlit_app/upload_service.py`). Operations: preview of the chosen file, check
whether its content is in Bronze, upload, deletion behind a confirmation. State: the
widgets' session state. Hard: what the page says and what the click does are two
reruns of the script, with the world moving between them.

**Job Management page** (`streamlit_app/pages/5_Job_Management.py`). Pending
objects, trigger, unpause, run history and logs. The one page that goes on while the
warehouse is busy. What makes it right: what it calls done is done.

**Network Stats and Companies pages** (`pages/2_Network_Stats.py`,
`pages/4_Companies.py`). No state: they show the marts and the current connections.
What makes them right: an employer and a person counted on one are counted on the
other.

**Airflow client and event listener** (`common/airflow_client.py`,
`services/minio_event_listener/main.py`). State: a JWT per client. Operations:
fetch a token (three attempts on a server error), one retry of a request that was
answered 401 or 403, trigger a run. The listener turns a bucket notification into
a trigger. Hard: an answer may be lost after the run was created, notifications
are lost or carry several records.

**Referral scoring** (`streamlit_app/scoring.py`, `tagging.py`, `companies.py`).
Pure functions over the current connections: tag a title, find the best path to
a target role, score, rank, aggregate per company. **Job Search page**
(`pages/3_Job_Search.py`): the same over what its filters leave. What makes them
right: a filter decides who is listed and never what they score, and the pages agree
on who can refer the owner where.

**Export schema** (`common/csv_schema.py`). Pure: find the header line, check the
columns, parse the rows.

**Login** (`streamlit_app/auth.py`), **settings, errors, deployment**, **charts and
theme**, **CI scripts**: see section 6.

### 1.2 How they interact

    owner --upload/delete--> landing zone --event--> listener --REST--+
    owner --Job Management / Airflow UI ------------------------REST--+-> DAG run
    DAG run: scan -> ingest (Bronze) -> gate -> checkpoint -> Silver
             -> dim_connection -> marts -> dbt tests -> freshness
    app pages --read-only, refused while a task writes--> warehouse

The tasks of a run share state with nobody but through the bucket and the DuckDB
file, and no state of theirs is in memory between two tasks except XComs. That is
why the models have one action per task, one per model where a dbt command builds
several, and none inside a dbt model.

### 1.3 What is hard in it

Interleaving of the owner with a run (a list computed in one task is used by
another), retries of a task whose effects are committed, failures between the
layers, three ways to create runs, exports that arrive in any order of time or in
one second, a dimension that is the only table not rebuilt from nothing, a
read path that is refused at any moment and caches what it saw, and answers lost
between services. `PROJECT.json` lists each such hazard at its line with the
property that watches it.

## 2. The plan

The most important promise of the system is that no export is lost or counted
twice on its way to the marts, so the pipeline comes first; then the dimension,
the only table that cannot be rebuilt from Bronze; then the pages and services
around them. One module per component, composed where they interact:

| Module | Stands on | Status |
| --- | --- | --- |
| `Ingestion` | landing zone, Bronze, the DAG, the layers | modelled, checked, proved |
| `DatasetOfRecord` | abstract specification that `Ingestion` implements | checked, proved |
| `ExportSchema`, `ExportIngestion` | the lines of an export; `Ingestion` over exports given by their lines | modelled, checked, proved |
| `ConnectionHistory` | Silver, SCD2 dimension, fact table, growth figures | modelled, checked, proved |
| `NetworkMarts` | the models of the marts one by one, and what the tabs count; implements `ConnectionHistory` | checked, proved |
| `WarehouseReads` | the DuckDB file as the app sees it: refusals, cache | used by the next four |
| `UploadPage` | `WarehouseReads`, the bucket and the script of the page | modelled, checked, proved |
| `OverviewPage`, `JobManagementPage`, `AppPages` | two scripts, and both over one `WarehouseReads` | modelled, checked, proved |
| `AirflowTrigger` | bucket event, listener, REST client, queued runs | modelled, checked, proved |
| `ReferralScoring`, `JobSearch` | pure scoring; the network, the filters and cards of two pages over it | modelled, checked, proved |

The theorems are in `IngestionProofs`, `ConnectionHistoryProofs`, `NetworkMartsProofs`,
`AirflowTriggerProofs`, `AppPagesProofs`, `UploadPageProofs` and `JobSearchProofs`; the
pages' two share `WarehouseReadsProofs`.

What is left, in this order:

1. That Bronze as `Ingestion` fills it is one of those `ConnectionHistory` starts from, as
   a refinement between the two.
2. Rows without a profile URL in `ConnectionHistory` itself, with their share, which
   the dbt test of the same name bounds (`NetworkMarts` has only their number).
3. The breakdowns by position and by month, and the reach tab of Network Stats.

## 3. The modules and the code

### `Ingestion`

One action per task of the DAG, and one per object inside the ingest task, since
each `INSERT` commits by itself and a crash can fall between two of them. `stage`
is the task a run is at, `tries` Airflow's try number, `pending` the XCom of
`scan_landing_zone`, `todo` and `ingested` the loop and the report of
`ingest_pending_objects`. `Bronze` is the sequence of committed batches. `silver`,
`dim` and `marts` record from how many of those batches each layer was built, which
is all that ordering and staleness are about; the contents of the layers are in
`ConnectionHistory`.

- A *content* is what one MD5 identifies. What the program computes from the bytes
  is given by constants: `Hash8` (which may collide), `Malformed`, `Empty`,
  `FailsCheckpoint`, `FailsTests`. The scan compares `Hash8` (`bronze.py:40`), the
  ingest task whole contents; `FullHashDecides` is about the second, section 6 has what
  the first does to it.
- `log_trigger_source` is the start of a run (`StartRun`); `log_ingestion_summary`, which
  runs at the end whatever happened and only logs, has no action.
- The owner's actions are `Upload` (`prepare_upload` has refused what does not
  parse), `Place` (the MinIO console) and `Delete`; `Trigger` is any of the three
  ways to create a run, which differ only in what is logged.
- `Fault` ends the current try of any task before its effect, and
  `SucceedOrFail` after it: a crash, a timeout, MinIO out of reach, a locked
  DuckDB file.
- Two batches of one second: the checkpoint and the tests may accept or refuse
  the mixture, because which rows survive depends on a tie.

`DatasetOfRecord` is the abstract specification: a record of contents that grows by
one new content at a time, and a published view that jumps to all of the record.
The mapping is `record <- ` the contents of Bronze, `published <- marts`.

### `ExportSchema`, `ExportIngestion`

An export is a sequence of lines and a line the sequence of its texts. `stripped` is a
text without its outer spaces, which is how every cell is stored (`csv_schema.py:185`),
and `folded` that in lower case, for headings. `detect_header_line_index`,
`missing_columns`, `unexpected_columns` (which passes over a blank heading) and
`is_valid` are the functions of `csv_schema.py`; what `pandas.read_csv` does with blank
lines, with rows that are shorter or wider than their header and with headings that are
missing or repeated is external, modelled as it behaves with the arguments
`parse_export` gives it. `BronzeRows` is what `append_bronze_batch` stores.
`ExportIngestion` gives every content of `Ingestion` its lines: `FileAssumption` says that
`Malformed` are the contents that do not parse and `Empty` those that leave no row, and
`raw_connections` is the table behind the abstract sequence `bronze`.

`BronzeHoldsTheExport` is said of every export that parses, with the losses the code
allows: what stands under a blank heading is dropped, a first row that is wider than the
header moves all rows to the left, of two headings that fold to one column either may be
the one that is stored, and a note that begins like the header is taken for it.
`Holds` says it line by line, with none of the operators by which `BronzeRows` reads.

### `ConnectionHistory`

One export is a function from connections to what the export says of them
(a pair of company and position, or `Absent`). `BuildSilver` keeps one row per
connection and second: where two batches have the same `snapshot_ts` any of their
rows may be kept, since `stg_connections.sql` orders the tie by
`source_row_number` alone. `SnapshotDim` is dbt's `check` strategy with
`hard_deletes='invalidate'`: outdated rows are closed at the time of the run, changed,
new and returning ones opened. `GiveUp` ends a run between any two dbt tasks.
`RecentChanges`, `CurrentConnections`, `new_connections` and `lost_connections`
are the queries of `db.py` and of `mart_network_stats.sql`.

### `NetworkMarts`

`ConnectionHistory` rebuilds the marts in one step; `dbt run` builds them with four
threads, each model after those it `ref()`s and each in one commit. `NetworkMarts`
has an action per model, `built` is the set of models the command has committed, and
`GiveUpRun` leaves those as they are. An attribute carries a label (the spelling of
an employer), a label has a key (case and spaces folded), and the companies in `Blank`
have the label `(unknown)`. An employer may be spelled like that label too, exactly or
but for case (`Lookalike`): `stg_connections.sql` gives it the same key and
`mart_network_stats.sql:37` then counts it or not by its label. A run ends only if the
dbt test on company counts passes (`CompanyCountsTestPasses`). `StatsOf`, `ByCompany`
and `CompaniesOf` are the three models,
with their different ways to choose a spelling: the majority of a snapshot in the
breakdown, the newest snapshot's in `dim_company`. `RestrictedRows` is the number of rows
of a second that Silver keeps and Gold does not, all without a company.
`load_breakdown`, `load_undisclosed`, `company_name`, `Reachable`, `employer_sizes` and
`Departed` are what the Network Stats and Companies tabs read. `History` maps the
state to `ConnectionHistory`: a run is past the marts task there as soon as the fact
table is built here.

### `WarehouseReads`, the pages

`writer` is the lock a DAG task holds. `Answer` is `safe_query`: a refused
connection gives an empty frame. `cache` is `st.cache_data`, shared by all sessions,
which keeps empty answers too; `Expire` is its 30 seconds, `Cleared` is
`clear_caches`. The DAG here is free to open, write and close as it likes.

A page is a script that runs from its top at every interaction, with the DAG
between any two of its steps. The duplicate check compares whole hashes; the lists of
both pages have only the eight characters an object's key carries (`1_Upload.py:165`,
`5_Job_Management.py:115`), which is `ShortHashes`, for any function `Hash8`.

- `UploadPage` has all of the steps of `1_Upload.py` in their order, the widgets kept
  from run to run (`file`, `target`, `confirmed`), and the two clicks. The selectbox's
  options are texts, so the choice survives a rerun only while its text is among
  them; the text says whether the object is in Bronze.
- `OverviewPage` has the probe and the panel it leads to.
- `JobManagementPage` has the script of `5_Job_Management.py`. Each call of Airflow
  and MinIO may fail as the code provides: with a stop, a message, or an uncaught
  exception (`Unpause`). A click starts the script anew and takes effect when
  the script reaches its button, if that is still drawn. Everything else `Stop`s
  with the buttons drawn so far.
- `AppPages` has the landing page and Job Management in two sessions, over one cache.

### `AirflowTrigger`

`HandleEvent` is `handle_minio_event`, `PressButton` the button of Job Management,
whose client has fetched its token for the health check. `FetchToken` and `Post`
are the two requests of `AirflowClient`, in the order of `_request`; Airflow and
MinIO are modelled by what they may answer, the answer lost after the run was
created included. `epoch` counts the changes of Airflow's signing secret.

### `ReferralScoring`, `JobSearch`

`ReferralScoring` has no state. A title is the sequence of its words, and the
keyword tables are cut down to a vocabulary in which every kind of rule survives:
one word and two, several tags on one word, the words of C-level titles, a family two
rules claim, a rule that takes what a later one wants.
Its functions are those of `tagging.py`, `scoring.py` and `companies.py`.

`JobSearch` lets people join, move, leave and come back while days pass, and applies
the filters and computes the cards of `3_Job_Search.py` and `4_Companies.py`. A company is
a spelling with a key; `company_name` picks the name `dim_company` has for an employer,
and `found_by` says in which spellings a typed text is contained (the page folds case
and accents and nothing else). A range of dates is as the page sets it up, from the
earliest to the latest, empty where no date parsed; half a range is no filter, as in the
code, and a range lets nobody through who has no date. Both pages have the default
families. The calendar is compressed: one day of the model stands for half a year, so
warmth has three values and `RecentMoveDays` is 0. `dbt_valid_from` carries a time of
day and the page compares it with a midnight, so the age of a move is one day less than
the dates say, and -1 on the day itself.

## 4. What is checked

Runs that must pass:

| Run | Question | Instance |
| --- | --- | --- |
| `ingestion_core` | Does Bronze stay duplicate-free although short hashes collide, has every cell of an export its heading in Bronze, do the layers stay in order, is success always current and vouched for, does the pipeline implement the dataset of record? | 3 contents in 3 layouts (two of them with one short hash, one rejected), 2 runs, 2 tries, 2 seconds, 2 objects |
| `ingestion_placed` | The same bucket with misnamed and malformed objects: is anything false ingested, anything passed over, and does every run end? | a good export, one without rows, one that does not parse, two objects placed by hand, 2 runs, 2 tries, fairness |
| `history_core` | Is there one current row per connection, do versions not overlap, is history kept, do the figures add up? | 2 people, 2 attributes, 3 batches at 3 times in any order, 3 dbt runs |
| `marts_core` | Do the tabs agree on employers, people and leavers however labels are spelled, and is the finer run a run of `ConnectionHistory`? | 2 people; an employer in 2 spellings, one spelled "(Unknown)", a blank company; 2 batches at 2 times, 2 dbt runs |
| `pages_core` | Are the numbers of the landing page and the "nothing new" of Job Management true, and does what either shows of a busy moment pass? | 1 content, two sessions, fairness |
| `upload_core` | Is what the Upload page says to be in Bronze there, and is a duplicate recognised in the end? | 3 contents, two of them with one short hash, 2 uploads, fairness |
| `trigger_core` | How many runs does a call leave, is an expired token hidden, does a call end, is what was notified seen? | 1 event call, 1 button call, 2 objects, 3 token attempts, 2 changes of secret, fairness |
| `jobsearch_core` | Are scores on their scale, do the two pages agree, do filters leave scores alone, do scores only fade? | 2 people, 3 employers in 4 spellings, 7 titles, 3 half-years, 2 versions each |

Runs in which the code does not do what one of its texts says:

| Run | What TLC shows |
| --- | --- |
| `ingestion_noop` | A run that fails after its ingest task leaves Bronze ahead of the marts; every later run without a new export short-circuits, although the marts are stale ("a redundant trigger is a safe no-op"). |
| `ingestion_unchecked` | The checkpoint judges the newest snapshot only: an export it would reject, uploaded a second before a good one and ingested by the same run, reaches Silver unjudged. |
| `history_moves` | A connection that left and came back unchanged is listed as a recent change of job. |
| `upload_loss` | The label of the chosen object changes, the choice falls back to the newest object while the confirmation stays ticked, and the click deletes that one. |

### The bounds

Each hazard needs few actors: two runs are enough for a list that is stale when it
is used and for starving behind another run; two tries for a failure after an
effect, or in the middle of the ingest task, and its repetition; two seconds for
order and for a tie, two objects for an interrupted loop. A dimension needs a
connection that is present, absent and present again (three dbt runs) and a second
one that stays. The marts need one employer with two spellings, a blank one and one
that takes the label of the blank ones; two people tie or outvote each other over a
spelling; and two runs are enough for models of different generations. An employer
spelled "(unknown)" to the letter would be a fifth attribute, for which five minutes are
not enough: that case of `EmployersAgree` rests on its proof. For the
landing page and Job Management one content is enough, since each asks only
whether a set is empty or contains another; colliding short hashes on Job Management are
left to the proof, and checked on the Upload page. A tag, a path and a reach row are
decided by one title and by
whether somebody else at the employer does data work, so two people are enough.
Two changes of secret are the fewest with which an authorised call can end as
unauthorised, which `ExpiryIsHidden` allows. The runs use symmetry only where they
check safety.

### The fairness

- `RunStep(r)`: the scheduler goes on with what it has queued. The containers are
  `restart: unless-stopped`, and `execution_timeout` ends a task that hangs. Faults
  get no fairness and are bounded by the tries.
- The steps of a page's script, which is straight-line code, and the expiry of
  cache entries, which is a clock (`CACHE_TTL_SECONDS`). What the *owner* does is
  never assumed fair: that they keep reloading is an antecedent of the property.
- The steps of a call, because every request has a timeout, and the start of what
  is queued. `ReportedIsSeen` has the DAG unpaused for good as an antecedent.

Deadlock is not checked: the bounds on clock, runs, uploads and calls let every
model stop.

## 5. What is proved

Every safety property of the runs that must pass is stated by a theorem.

`IngestionProofs`, for any contents, runs, tries and bounds, under
`IngestionAssumption` (the types of the constants).

The properties are not inductive by themselves. The invariant `IInv` adds to
`TypeOK` that at most one run is active (`max_active_runs=1`), and `Settled`: a run
past one of the dbt tasks has the layer of that task built from all of Bronze.
The second follows from the first, because Bronze grows only in the ingest task of
the active run. From `IInv`:

- `TypeCorrect`, `BronzeExactlyOnce`, `BronzeGenuine`, `LayersStayInOrder`;
- `SuccessLeavesLayersCurrent`: the last task ends a run with all layers built from
  all of Bronze;
- `Refinement`: `Spec` implements `DatasetOfRecord`, where a step of `Ingestion` adds
  one new content, publishes everything, or stutters.

Its second part adds what a run remembers between its tasks:

- `NothingIsPassedOver`: what was pending is either still in `todo` or accounted
  for, across retries, which put everything back in `todo`;
- `NewestIsChecked`: a run past the checkpoint has a newest snapshot the checkpoint
  could accept, and Bronze does not move under it;
- `SuccessVouches`: the same for the dbt tests, over all of Bronze;
- `ListIsWorkedOff`: the ingest task takes an object off its list only if Bronze has
  its very content or it has no row, for any collisions of short hashes. That the scan
  drops by eight characters before is part of the model and limits what is claimed:
  the list is what the task is held to, not the bucket.

Its third part is about the lines of an export, under `SchemaAssumption` and
`FileAssumption`. `BronzeHoldsExports` has no hypothesis on the layout. `Rows` is a
recursive function that reads line after line, and the proof takes the first line at which
reading would have lost or moved a row (`ReadKeepsOrder`): there is none, so the row of a
line that is not blank is found at its rank among those lines, and `Cell` finds each of
its cells where the header says, moved by as much as the first row is too wide.

Its last part is what safety has to say of `RunsEnd`. `RunsComeCloser`: each step of a
run, and each end of one of its tries, takes it down a lexicographic order of tasks
left, tries left and objects left in the list, and no step of the owner or of
another run takes it up. A new try of the ingest task begins with the whole list again,
which is why the tries come before the objects; lists are finite because the bucket
is. The lemma `DescentEnds` says that this order is well-founded. What remains for TLC is that a
queued run can always take its next step, which is `ENABLED` and fairness.

`ConnectionHistoryProofs`, under `HistoryAssumption` (of which it uses that times are
numbers, that `Absent` is no attribute and that there are finitely many
people). `DimInv` adds to `TypeOK` that
Silver has one batch per second, so that the newest snapshot says one thing of
each person; that a closed version ends after it begins and no version begins or ends
after the last run (`Timely`); and, of the promises themselves, that versions do
not overlap and that after dbt snapshot the current rows are the newest export's.
The merge is the only step that matters: two versions that come from old ones
inherit the order of those, and a version that is opened now comes after every
closed one and cannot meet an open one, because the row it comes from is not
among the open rows and the source has one row per person. From `DimInv` follow
`NoOverlap`, `OneCurrentRow` and `CurrentRowsAreLatest`; `HistoryStays` follows from
the merge alone. `LayerInv` adds how far each layer
is in each phase: Silver is Bronze where no two exports share a second, the facts are
Silver once the marts are built, and facts that have caught up with Bronze agree with
the open rows. From it follow `FactsAgree`, `RebuildIsNeutral` (a dimension that is
as new as Silver is its own merge) and `GrowthAddsUp`, which counts: who is in a
snapshot is who was in the previous one, less the lost, plus the new.

`NetworkMartsProofs`, under `HistoryAssumption`: `MartsImplementHistory`. Every action of
`NetworkMarts` is one of `ConnectionHistory` under the mapping, or a stutter; the
invariant it needs is that a model is built only in the marts task (`BuiltInMarts`).
So what is proved of `ConnectionHistory` holds for any order of the models:
`CoarseLayers` carries `LayerInv` over, and `DepartedStayAbsent` follows from
`FactsAgree`. The counts also rest on `LabelAssumption` (a blank company has the label
"(unknown)", and alphabetical order tells labels apart; what else is spelled so is left
open) and on
`MartsInv`: from the commit of a model until the next run its table is what the model
makes of the layers below. `CountsAgree` and `TabsAgree` then come down to one
argument: the spelling the chart chooses for an employer, and the one `dim_company`
chooses, each exist and carry the employer's key (`DisplayLabelOfKey`,
`LatestLabelOfKey`), so employers and names correspond one to one and the two sets
have one size (`SameSize`). With an employer that shares the key of the undisclosed one
bar may be missing from one side, and then it is exactly one (`LookalikeCounts`, `OneMore`):
both statements say when. `ChartCountsEverybody` sums over a set of rows: that the sum
does not depend on the order of the fold is `SumIsUnique`, by a smallest set on which two
ways to sum would differ, and then the bars and the undisclosed count disjoint sets of
people that together are the snapshot (`CountsOfDisjointSets`). `MartsTyped` is the type
invariant.

`AirflowTriggerProofs`, under `TriggerAssumption`. `OneRun` needs that a call which is
still fetching or posting has created nothing; `ExpiryStaysHidden` needs the ages of
tokens: a token in hand is as young as the call, and one change of the secret
younger once the request is being repeated, so a second rejection takes a second
change. `CallsComeCloser` counts the requests a call may yet make: each of its steps
leaves it fewer, and there are never more than twice the attempts at a token and the
request itself. What this leaves of `CallsEnd` to TLC is that its requests time out.

`AppPagesProofs` and `UploadPageProofs` rest on `CacheIsTrue`
(`WarehouseReadsProofs`): a cached answer is a subset of what the warehouse holds,
because Bronze and the marts only grow and a refused read is empty, and so are its
short hashes. That is why
`NumbersStayReal`, `NothingNewStaysTrue` and `SayingsAreTrue` hold at any interleaving
with the DAG and with the other session: old answers may say too little and never
too much. `TypeCorrect` of `UploadPageProofs` needs one invariant more, that the steps
after the choice of a file have one. `PagesTypeCorrect` of `AppPagesProofs` rests on
`WarehouseKeepsType`: a page's read leaves the shared cache with answers of the shape
its query has, whichever session stored them.

`JobSearchProofs`, under `JobSearchAssumption` and `ReferralAssumption` (numbers for weights,
a warmth that falls with age and is never more than its weight) and `SpellingAssumption`
(alphabetical order tells labels apart and has "(unknown)" after its spellings with
capitals, a text contains itself). `NetInv` says that
nobody's row is dated after today and that the people are finitely many.

- `TypeCorrect` has the hypothesis `SeniorityFits`: each base that seniority may be added to
  leaves room for it below the best one. The default weights have it (`DefaultsFit` in
  `JobSearchMC`); `ReferralWeights` does not require it, and without it the statement is
  false.
- `ScoresFade`, for all weights: base and seniority do not depend on the day, warmth and
  the points for a recent move fall with it.
- `RoutesAreCounted`, `EmployersAreListed` and `FiltersOnlyNarrow` compare the two pages. The
  route of a person is one of the counts of their employer, because both are decided
  by whether somebody there does data work (`TeamsHaveData`), and this is computed
  before any filter; a filter leaves a subset of the people with the same scores, and
  the cards of a subset are no better (`FilterNarrows`, `BestIsGreatest`).
  `EmployersAreListed` has no premise on dates or spellings: who is at an employer is
  listed for its name or is one of the `Lost`, who have no date in a network with
  dates, or whose spelling does not contain the name (`ListedOrLost`), and the two counts
  of employers differ by those where everybody is without a date.

Where these proofs need an induction (over lines, over sets of rows, over the size of a
set) they take a least counterexample, which exists because the order of the natural
numbers is well-founded, and refute it.

Only model-checked: liveness (`RunsEnd`, `NothingLatches`, `PendingSettles`,
`DuplicateIsRecognised`, `CallsEnd`, `ReportedIsSeen`), which the prover cannot treat
under fairness. Type invariants that a run does not list are proved
(`ConnectionHistory`, `AirflowTrigger`, `UploadPage`), as is `OneOpenVersion`, which
`VersionsDoNotOverlap` contains.

## 6. What is not modelled

- Login, settings, error classes, container wiring, the charts and the theme: no state
  and no decision of their own. The CI scripts, whose assertions are properties of
  `ConnectionHistory`.
- Decoding of an export, which cannot fail; quotes that span lines.
- The listener's comparison of its bearer token; MinIO out of reach when the Upload
  page begins (the page stops there, `1_Upload.py:43`, and what becomes of its widgets is
  Streamlit's affair); Streamlit dropping the state of widgets when the owner leaves a
  page; the list of ingested snapshots at the end of it.
- On the Upload page, two uploads in one second: the page identifies an object by its
  second and its content.
- Rows without a profile URL, which have no identity and reach neither the dimension
  nor the facts: only their number is in `NetworkMarts`. `dim_date`, the breakdowns by
  position and by month, the dates and `connections_ever` of `dim_company`.
- Network Stats beyond its headline, its company chart and its employers; on
  Companies, other than the default families and the people behind an employer.
- Sorting, reason texts and the counts of signals. How the box for names and titles
  matches is left open: it stands for any set of people.
- The task logs and the table of runs on Job Management.
- MinIO sends a notification once, without a queue (`docker-compose.yml`), so a lost
  one is a step of the model and nothing is promised about it.

### Observed while modelling

None of these is the subject of a run that fails; the notes of the hazards in
`PROJECT.json` have the lines. The first six are texts of the repository the code does not
keep: the properties state what the code does instead, exceptions included, so that the
runs and the proofs show how far the text is right.

- `bronze.py:7` says that idempotency is decided "**only** by the MD5 of the object's bytes"
  and `bronze.py:47` that a scan returns the "objects whose content is not yet in
  Bronze". The filter at `bronze.py:40` compares eight characters: an export that collides
  with an ingested one is never a candidate, and both pages show it as in Bronze. In
  `ingestion_core` two contents collide; `FullHashDecides` and `ListIsWorkedOff` are about
  what the scan has listed, and `InBronzeIsTrue` and `NothingNewIsTrue` about short hashes.
- `csv_schema.py:164` says that values stay untouched strings; line 185 strips every
  cell. `BronzeHoldsTheExport` compares with the stripped text.
- `csv_schema.py:9` promises never to "silently coerce or drop columns": a column under a
  blank heading is dropped by `unexpected_columns` (`:146`) and with it its cells, and a
  first row with one cell too many makes pandas take the first column for an index,
  so that all cells move to the left and nothing fails. Both are exceptions in
  `BronzeHoldsTheExport`. A later row that is too wide raises `ParserError`, which the
  Upload page does not catch.
- The help of "With a front door" (`4_Companies.py:127`, `:220`) and `companies.py:16` speak
  of an in-house recruiter; `companies.py:174` counts every recruiter at the employer, and
  `scoring.py:350` calls one without a data team beside them an outside recruiter.
  `PathsAgreeWithReach` therefore has `row.recruiters > 0` for both routes and lets the
  number of data people tell them apart; that the door belongs to somebody in-house is
  not claimed.
- "… filter by a company name to see who to approach there" (`4_Companies.py:227`): the text
  is compared with the company as exported, so the name of an employer does not find
  who is spelled with another number of spaces or letters, and it finds the
  employers whose names contain it; nor does it find who has no date, because of the
  default range. `EmployersLeadToPeople` counts what is lost this way.
- An employer spelled "(Unknown)" shares the key of the undisclosed, so it is counted
  among the "Companies" and, where the undisclosed win the spelling of their bar, has
  no bar; `assert_company_counts_agree` then fails in this and every later run. One
  spelled "(unknown)" to the letter is nobody on every tab but Composition.
- Two exports uploaded in one second make `assert_one_bronze_batch_per_snapshot_ts`
  fail at every later run.
- An export that is not the newest when dbt runs never gets a version in the
  dimension. A network that goes from A to B and back to A is exported byte for byte
  as before, skipped as a duplicate (`bronze.py:81`), and the marts keep showing B;
  this is what the documentation says of duplicates.
- The summary of a run does not count what an earlier try of it committed.
- A page read while the warehouse is busy may greet the owner as a newcomer for half a
  minute, and a known file may be announced as new.
- Job Management says "Nothing new in the landing zone" below the message that it could
  not read the landing zone, and calls Airflow healthy without its scheduler.
- After a run that failed between the dimension and `dim_company`, the Companies tab
  leaves out who joined at an employer it does not know yet.
- An employer may be spelled differently on Network Stats (majority of the snapshot)
  and on Companies (newest snapshot, then alphabetical order). The list of
  strongholds of Network Stats groups by the raw text.
- "Email coverage" counts the fact table, "Reachable by email" the dimension, whose
  `check_cols` do not include the address.
- `STRONG_SCORE_THRESHOLD` is meant to exclude "a warm acquaintance somewhere adjacent"
  (`3_Job_Search.py:52`); a leader of an adjacent team who connected this month and
  an agency recruiter reach it.
- `ReferralWeights.maximum` is computed "so retuning a weight cannot leave the progress bars
  lying about their scale" (`scoring.py:163`), from the best base without seniority. With
  `field_peer` as high as `field_leader` a senior peer, met recently, who has just moved
  scores above it.
