------------------------- MODULE WarehouseReadsProofs -------------------------
(***************************************************************************)
(* What the app can have been told of the warehouse: never more than it    *)
(* holds.  Used by the proofs about the pages.                             *)
(***************************************************************************)
EXTENDS WarehouseReads, TLAPS

\* Bronze and the marts only grow, so an old answer says nothing false.
CacheIsTrue ==
    /\ marts \subseteq bronze
    /\ \A q \in DOMAIN cache :
        cache[q] \subseteq IF q = "load_network_stats" THEN marts ELSE bronze

LEMMA ReadIsTrue ==
    ASSUME CacheIsTrue, NEW q
    PROVE  Read(q) \subseteq IF q = "load_network_stats" THEN marts ELSE bronze
  BY DEF CacheIsTrue, Read, Answer

LEMMA CacheIsTrueInit == ReadsInit => CacheIsTrue
  BY DEF ReadsInit, CacheIsTrue, Cleared

\* Neither the DAG, nor the clearing or the expiry of entries makes one false.
LEMMA WarehouseStep ==
    ASSUME CacheIsTrue,
           \/ OpenForWriting
           \/ \E c : CommitBatch(c)
           \/ RebuildMarts
           \/ Close
           \/ \E q \in Query : Expire(q)
           \/ TriggerRun
    PROVE  CacheIsTrue'
  <1>1. CASE OpenForWriting \/ Close
    BY <1>1 DEF OpenForWriting, Close, CacheIsTrue
  <1>2. CASE \E c : CommitBatch(c)
    BY <1>2 DEF CommitBatch, CacheIsTrue
  <1>3. CASE RebuildMarts
    BY <1>3 DEF RebuildMarts, CacheIsTrue
  <1>4. CASE \E q \in Query : Expire(q)
    BY <1>4 DEF Expire, CacheIsTrue, warehouseVars
  <1>5. CASE TriggerRun
    BY <1>5 DEF TriggerRun, Cleared, CacheIsTrue, warehouseVars
  <1> QED BY <1>1, <1>2, <1>3, <1>4, <1>5

\* Nor does a page that reads, or clears what was read.
LEMMA PageStep ==
    ASSUME CacheIsTrue, UNCHANGED warehouseVars, NEW q,
           cache' = Cached(q) \/ cache' = Cleared \/ UNCHANGED cache
    PROVE  CacheIsTrue'
  <1>1. CASE cache' = Cached(q)
    <2>1. DOMAIN cache' = DOMAIN cache \cup {q}
      BY <1>1 DEF Cached
    <2>2. \A x \in DOMAIN cache' : cache'[x] = Read(x)
      BY <1>1 DEF Cached
    <2> QED BY <2>1, <2>2, ReadIsTrue DEF CacheIsTrue, warehouseVars
  <1>2. CASE cache' = Cleared
    BY <1>2 DEF Cleared, CacheIsTrue, warehouseVars
  <1>3. CASE UNCHANGED cache
    BY <1>3 DEF CacheIsTrue, warehouseVars
  <1> QED BY <1>1, <1>2, <1>3

\* A cache has entries of some of the queries, each a set of contents.
Entries(f) ==
    /\ DOMAIN f \subseteq Query
    /\ f = [q \in DOMAIN f |-> f[q]]
    /\ \A q \in DOMAIN f : f[q] \subseteq Content

LEMMA EntriesType ==
    ASSUME NEW f
    PROVE  f \in UNION {[qs -> SUBSET Content] : qs \in SUBSET Query} <=> Entries(f)
  <1>1. ASSUME Entries(f)
        PROVE  f \in UNION {[qs -> SUBSET Content] : qs \in SUBSET Query}
    <2>1. f \in [DOMAIN f -> SUBSET Content] /\ DOMAIN f \in SUBSET Query
      BY <1>1 DEF Entries
    <2> QED BY <2>1
  <1>2. ASSUME f \in UNION {[qs -> SUBSET Content] : qs \in SUBSET Query}
        PROVE  Entries(f)
    <2>1. PICK qs \in SUBSET Query : f \in [qs -> SUBSET Content]
      BY <1>2
    <2> QED BY <2>1 DEF Entries
  <1> QED BY <1>1, <1>2

\* What a page reads has its type, and so has what it leaves in the cache.
LEMMA ReadsKeepType ==
    ASSUME ReadsTypeOK, UNCHANGED warehouseVars, NEW q \in Query,
           cache' = Cached(q) \/ cache' = Cleared \/ UNCHANGED cache
    PROVE  ReadsTypeOK'
  <1>1. Entries(cache)
    BY EntriesType DEF ReadsTypeOK
  <1>2. \A x \in Query : Read(x) \subseteq Content
    BY <1>1 DEF Read, Answer, ReadsTypeOK, Entries
  <1>3. Entries(Cached(q)) /\ Entries(Cleared)
    BY <1>1, <1>2 DEF Entries, Cached, Cleared
  <1>4. cache' \in UNION {[qs -> SUBSET Content] : qs \in SUBSET Query}
    BY <1>1, <1>3, EntriesType
  <1> QED BY <1>4 DEF ReadsTypeOK, warehouseVars

LEMMA WarehouseKeepsType ==
    ASSUME ReadsTypeOK,
           \/ OpenForWriting
           \/ \E c \in Content : CommitBatch(c)
           \/ RebuildMarts
           \/ Close
           \/ \E q \in Query : Expire(q)
    PROVE  ReadsTypeOK'
  <1>1. CASE OpenForWriting \/ RebuildMarts \/ Close \/ \E c \in Content : CommitBatch(c)
    BY <1>1 DEF OpenForWriting, RebuildMarts, Close, CommitBatch, ReadsTypeOK
  <1>2. CASE \E q \in Query : Expire(q)
    <2>1. PICK q \in Query : Expire(q)
      BY <1>2
    <2>2. cache' = [x \in DOMAIN cache \ {q} |-> cache[x]] /\ Entries(cache)
      BY <2>1, EntriesType DEF Expire, ReadsTypeOK
    <2>3. Entries(cache')
      BY <2>2 DEF Entries
    <2> QED BY <2>1, <2>3, EntriesType DEF Expire, ReadsTypeOK, warehouseVars
  <1> QED BY <1>1, <1>2
=============================================================================
