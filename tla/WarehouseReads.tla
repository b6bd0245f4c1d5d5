---------------------------- MODULE WarehouseReads ----------------------------
(***************************************************************************)
(* The DuckDB file as the Streamlit app sees it.  A DAG task that writes   *)
(* holds the file for itself and every connection of the app is refused;   *)
(* the app turns the refusal into an empty answer, and st.cache_data keeps *)
(* the answers, empty ones included, for 30 seconds and for all sessions.  *)
(*                                                                         *)
(* A Content is an export file, as one MD5 identifies it.                  *)
(***************************************************************************)
CONSTANTS
    Content,   \* the exports there can be
    Hash8      \* the first 8 characters of the MD5 of each, and all a key has of it

ASSUME HashAssumption == DOMAIN Hash8 = Content

VARIABLES
    bronze,   \* the contents in bronze.raw_connections
    marts,    \* the contents mart_network_stats was built from
    writer,   \* whether a DAG task has the file open
    cache     \* the entries of st.cache_data, per query that has one

warehouseVars == <<bronze, marts, writer>>
readVars      == <<bronze, marts, writer, cache>>

Query == {"bronze_file_hashes", "load_network_stats"}

\* clear_caches drops the entries of every function and every session.
Cleared == [q \in {} |-> {}]

ReadsTypeOK ==
    /\ bronze \subseteq Content
    /\ marts \subseteq Content
    /\ writer \in BOOLEAN
    /\ cache \in UNION {[qs -> SUBSET Content] : qs \in SUBSET Query}

ReadsInit ==
    /\ bronze = {} /\ marts = {}
    /\ writer = FALSE
    /\ cache = Cleared

\* By these the pages tell whether a listed object is in Bronze; contents that
\* share one are told apart by the duplicate check alone.
ShortHashes(contents) == {Hash8[c] : c \in contents}

-----------------------------------------------------------------------------
\* The DAG, which the model lets do what it likes in its turn with the file.

OpenForWriting ==
    /\ ~writer
    /\ writer' = TRUE
    /\ UNCHANGED <<bronze, marts, cache>>

CommitBatch(c) ==
    /\ writer
    /\ bronze' = bronze \cup {c}
    /\ UNCHANGED <<marts, writer, cache>>

RebuildMarts ==
    /\ writer
    /\ marts' = bronze
    /\ UNCHANGED <<bronze, writer, cache>>

Close ==
    /\ writer
    /\ writer' = FALSE
    /\ UNCHANGED <<bronze, marts, cache>>

-----------------------------------------------------------------------------
\* Faulty: a content that cannot be looked up counts as known.
AnswerKnownWhenBusy(q) ==
    IF writer THEN Content ELSE IF q = "load_network_stats" THEN marts ELSE bronze

\* safe_query: a refused connection is an empty frame, like a missing relation.
Answer(q) ==
    IF writer THEN {} ELSE IF q = "load_network_stats" THEN marts ELSE bronze

\* What a cached function returns, and the entry it leaves behind.
Read(q) == IF q \in DOMAIN cache THEN cache[q] ELSE Answer(q)

Cached(q) == [x \in DOMAIN cache \cup {q} |-> Read(x)]

\* Faulty: cache_data without its ttl.
ExpireNever(q) ==
    /\ q \in DOMAIN cache
    /\ FALSE
    /\ UNCHANGED readVars

Expire(q) ==
    /\ q \in DOMAIN cache
    /\ cache' = [x \in DOMAIN cache \ {q} |-> cache[x]]
    /\ UNCHANGED warehouseVars

\* Job Management clears the caches once Airflow has accepted a run, which is
\* before that run writes anything.
TriggerRun ==
    /\ cache' = Cleared
    /\ UNCHANGED warehouseVars
=============================================================================
