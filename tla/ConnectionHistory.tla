-------------------------- MODULE ConnectionHistory --------------------------
(***************************************************************************)
(* What dbt makes of the exports in Bronze: Silver, the SCD2 dimension     *)
(* gold.dim_connection, the fact table gold.fct_connection_snapshot and    *)
(* the queries the app asks of them.                                       *)
(*                                                                         *)
(* An Attribute stands for a (company, position) pair, the check_cols of   *)
(* the snapshot, and blanks are values like others.  Rows without a        *)
(* profile URL have no identity and reach nothing modelled here.           *)
(***************************************************************************)
EXTENDS Naturals, FiniteSets

CONSTANTS
    Connection,   \* connection_id: the profile URLs
    Attribute,    \* what one export says of one connection
    Absent,       \* ... when it does not list the connection
    MaxTs,        \* bound on snapshot_ts
    MaxClock,     \* bound on the dbt snapshot runs
    MaxBatches    \* bound on the batches of Bronze

Ts == 1 .. MaxTs

Export == [Connection -> Attribute \cup {Absent}]
Batch  == [ts : Ts, rows : Export]

\* dbt_valid_to of a row that is current.
Null == 0

Version == [id : Connection, attr : Attribute, from : Nat, to : Nat]

ASSUME HistoryAssumption ==
    /\ IsFiniteSet(Connection)
    /\ Absent \notin Attribute
    /\ MaxTs \in Nat \ {0}
    /\ MaxClock \in Nat
    /\ MaxBatches \in Nat

VARIABLES
    bronze,   \* the batches of bronze.raw_connections
    silver,   \* stg_connections: one batch per snapshot_ts, people listed once
    dim,      \* the rows of gold.dim_connection
    facts,    \* the Silver that fct_connection_snapshot was built from
    clock,    \* when dbt snapshot last ran
    phase     \* the dbt task that is next, or "idle" between two runs

vars == <<bronze, silver, dim, facts, clock, phase>>

Phase == {"idle", "silver", "snapshot", "marts", "tests"}

TypeOK ==
    /\ bronze \subseteq Batch
    /\ silver \subseteq Batch
    /\ dim \subseteq Version
    /\ facts \subseteq Batch
    /\ clock \in Nat
    /\ phase \in Phase

Init ==
    /\ bronze = {} /\ silver = {} /\ dim = {} /\ facts = {}
    /\ clock = 0
    /\ phase = "idle"

-----------------------------------------------------------------------------
\* An export enters Bronze, in any order of snapshot_ts and maybe in the second of
\* another one, while no run is at its dbt tasks (max_active_runs=1).
Ingest(batch) ==
    /\ phase = "idle"
    /\ Cardinality(bronze) < MaxBatches
    /\ batch \notin bronze
    /\ bronze' = bronze \cup {batch}
    /\ UNCHANGED <<silver, dim, facts, clock, phase>>

Newest(s) == {x \in s : \A y \in s : y.ts <= x.ts}

Present(b) == {c \in Connection : b.rows[c] # Absent}

\* Faulty: dbt runs whatever the checkpoint says.
StartTransformUnchecked ==
    /\ phase = "idle"
    /\ phase' = "silver"
    /\ UNCHANGED <<bronze, silver, dim, facts, clock>>

\* The checkpoint wants profile URLs in nine rows out of ten of the newest
\* snapshot, so that snapshot lists somebody; older ones it does not look at.
StartTransform ==
    /\ phase = "idle"
    /\ \E b \in Newest(bronze) : Present(b) # {}
    /\ phase' = "silver"
    /\ UNCHANGED <<bronze, silver, dim, facts, clock>>

\* Every task may fail for good, before its effect or after it: the layers below
\* are then newer than the ones above, until a later run.
GiveUp ==
    /\ phase # "idle"
    /\ phase' = "idle"
    /\ UNCHANGED <<bronze, silver, dim, facts, clock>>

\* What the files of one second say of a connection.  Where two of them list it,
\* row_number orders by source_row_number alone and either row may be kept.
Readings(t, c) ==
    LET said == {b.rows[c] : b \in {x \in bronze : x.ts = t}} \ {Absent}
    IN  IF said = {} THEN {Absent} ELSE said

BuildSilver ==
    /\ phase = "silver"
    /\ \E kept \in [{b.ts : b \in bronze} -> Export] :
        /\ \A t \in DOMAIN kept : \A c \in Connection : kept[t][c] \in Readings(t, c)
        /\ silver' = {[ts |-> t, rows |-> kept[t]] : t \in DOMAIN kept}
    /\ phase' = "snapshot"
    /\ UNCHANGED <<bronze, dim, facts, clock>>

-----------------------------------------------------------------------------
\* dbt snapshot

\* Faulty: the whole of Silver instead of its newest snapshot.
WholeSilver(s) == {<<c, b.rows[c]>> : c \in Connection, b \in s}

\* The rows of the newest snapshot, <<connection, attributes>>.
LatestRows(s) == {<<c, b.rows[c]>> : c \in Connection, b \in Newest(s)}

Source == {row \in LatestRows(silver) : row[2] # Absent}

IsOpen(v) == v.to = Null

OpenRows == {<<v.id, v.attr>> : v \in {w \in dim : IsOpen(w)}}

\* Faulty: hard_deletes left at its default, so that departures are ignored.
OutdatedByChange ==
    {v \in dim : /\ IsOpen(v)
                 /\ <<v.id, v.attr>> \notin Source
                 /\ \E row \in Source : row[1] = v.id}

\* Open rows whose company or position changed, and, by hard_deletes
\* 'invalidate', those the newest export does not list any more.
Outdated == {v \in dim : IsOpen(v) /\ <<v.id, v.attr>> \notin Source}

Closed(v, t) == [v EXCEPT !.to = t]

Opened(row, t) == [id |-> row[1], attr |-> row[2], from |-> t, to |-> Null]

\* Faulty: check_cols is 'all', and the time of the build is a column.
MergedOnAllColumns(t) ==
    {v \in dim : ~IsOpen(v)}
        \cup {Closed(v, t) : v \in {w \in dim : IsOpen(w)}}
        \cup {Opened(row, t) : row \in Source}

\* Faulty: the closed row is overwritten in place of being kept.
MergedInPlace(t) == (dim \ Outdated) \cup {Opened(row, t) : row \in Source \ OpenRows}

\* One merge: outdated rows are closed, changed, new and returning ones opened.
Merged(t) ==
    (dim \ Outdated)
        \cup {Closed(v, t) : v \in Outdated}
        \cup {Opened(row, t) : row \in Source \ OpenRows}

SnapshotDim ==
    /\ phase = "snapshot"
    /\ clock < MaxClock
    /\ clock' = clock + 1
    /\ dim' = Merged(clock')
    /\ phase' = "marts"
    /\ UNCHANGED <<bronze, silver, facts>>

BuildMarts ==
    /\ phase = "marts"
    /\ facts' = silver
    /\ phase' = "tests"
    /\ UNCHANGED <<bronze, silver, dim, clock>>

\* The dbt tests write nothing.
Finish ==
    /\ phase = "tests"
    /\ phase' = "idle"
    /\ UNCHANGED <<bronze, silver, dim, facts, clock>>

Next ==
    \/ \E batch \in Batch : Ingest(batch)
    \/ StartTransform \/ BuildSilver \/ SnapshotDim \/ BuildMarts \/ Finish
    \/ GiveUp

Spec == Init /\ [][Next]_vars

-----------------------------------------------------------------------------
(***************************************************************************)
(* What the fact table, mart_network_stats and the app's queries compute.  *)
(***************************************************************************)

\* A snapshot in which no row is identifiable has no row in the fact table.
FactSnapshots == {b \in facts : Present(b) # {}}

Before(b) == {x \in FactSnapshots : x.ts < b.ts}

\* previous_snapshot_ts: lag over the snapshots that have identifiable rows.
PreviousSnapshot(b) == {x \in Before(b) : \A y \in Before(b) : y.ts <= x.ts}

PreviouslyPresent(b) == UNION {Present(x) : x \in PreviousSnapshot(b)}

total_connections(b) == Cardinality(Present(b))

\* Faulty: new means never seen before.
NeverSeenBefore(b) ==
    IF PreviousSnapshot(b) = {} THEN 0
    ELSE Cardinality(Present(b) \ UNION {Present(x) : x \in Before(b)})

new_connections(b) ==
    IF PreviousSnapshot(b) = {} THEN 0 ELSE Cardinality(Present(b) \ PreviouslyPresent(b))

lost_connections(b) == Cardinality(PreviouslyPresent(b) \ Present(b))

\* load_current_connections.
CurrentConnections == {v.id : v \in {w \in dim : IsOpen(w)}}

\* load_recent_changes: pairs of an open version and the version of that connection ranked before it.
RecentChanges ==
    {pair \in dim \X dim :
        LET w == pair[1]
            v == pair[2]
        IN  /\ IsOpen(v) /\ w.id = v.id /\ w.from < v.from
            /\ ~\E x \in dim : x.id = v.id /\ w.from < x.from /\ x.from < v.from}

-----------------------------------------------------------------------------
(***************************************************************************)
(* Properties.                                                             *)
(***************************************************************************)

\* A connection never has two current rows (assert_one_current_row_per_connection).
OneOpenVersion ==
    \A v, w \in dim : IsOpen(v) /\ IsOpen(w) /\ v.id = w.id => v = w

\* Two versions of one connection never hold at the same time: a history query
\* (load_connection_history) can order them by dbt_valid_from.
VersionsDoNotOverlap ==
    \A v, w \in dim : v.id = w.id /\ v # w =>
        \/ ~IsOpen(v) /\ v.to <= w.from
        \/ ~IsOpen(w) /\ w.to <= v.from

\* Once dbt snapshot has run, the current rows are those of the newest export:
\* joiners are in, departed connections are out, whatever the order in which
\* exports were ingested and whichever runs failed half-way.
CurrentIsLatest == phase \in {"marts", "tests"} => OpenRows = Source

\* History is never rewritten: a row stays as it is, or is closed now.
HistoryIsKept ==
    [][\A v \in dim : v \in dim' \/ (IsOpen(v) /\ Closed(v, clock') \in dim')]_vars

\* A run over a Bronze with nothing new in it (force_transform) leaves the
\* dimension as it is, also after runs that failed half-way.
RebuildChangesNothing ==
    [][phase = "snapshot" /\ phase' = "marts" /\ facts = bronze => dim' = dim]_vars

\* When the tests run, the fact table's newest snapshot and the current rows of
\* the dimension list the same people.
FactsAgreeWithDimension ==
    phase = "tests" =>
        CurrentConnections = UNION {Present(b) : b \in Newest(FactSnapshots)}

\* The growth chart adds up: a snapshot has as many people as the one before it,
\* plus the new ones, less the lost ones.
StatsAddUp ==
    \A b \in FactSnapshots : \A p \in PreviousSnapshot(b) :
        total_connections(b) + lost_connections(b)
            = total_connections(p) + new_connections(b)

\* "Connections whose company/title changed most recently" (load_recent_changes):
\* the two versions it puts side by side differ.
RecentChangesAreMoves == \A pair \in RecentChanges : pair[1].attr # pair[2].attr
=============================================================================
