----------------------- MODULE ConnectionHistoryProofs -----------------------
(***************************************************************************)
(* Proofs about the dimension that dbt snapshot keeps, for any people,     *)
(* attributes, exports and number of runs.                                 *)
(***************************************************************************)
EXTENDS ConnectionHistory, FiniteSetTheorems, TLAPS

USE DEF vars

\* A row of the snapshot's source is a person the newest export lists.
LEMMA SourceType ==
    ASSUME TypeOK, NEW row \in Source
    PROVE  /\ row[1] \in Connection /\ row[2] \in Attribute
           /\ row = <<row[1], row[2]>>
           /\ \E b \in Newest(silver) : b.rows[row[1]] = row[2]
  <1>1. PICK c \in Connection, b \in Newest(silver) : row = <<c, b.rows[c]>>
    BY DEF Source, LatestRows
  <1>2. b \in Batch /\ row[2] # Absent
    BY DEF Newest, TypeOK, Source
  <1> QED BY <1>1, <1>2 DEF Batch, Export

LEMMA MergedType ==
    ASSUME TypeOK, NEW t \in Nat
    PROVE  Merged(t) \subseteq Version
  <1>1. \A v \in Outdated : Closed(v, t) \in Version
    BY DEF Outdated, Closed, TypeOK, Version
  <1>2. \A row \in Source : Opened(row, t) \in Version
    BY SourceType DEF Opened, Version, Null
  <1> QED BY <1>1, <1>2 DEF Merged, TypeOK

LEMMA SilverType ==
    ASSUME TypeOK, BuildSilver
    PROVE  silver' \subseteq Batch
  <1>1. PICK kept \in [{b.ts : b \in bronze} -> Export] :
            silver' = {[ts |-> t, rows |-> kept[t]] : t \in DOMAIN kept}
    BY DEF BuildSilver
  <1>2. \A b \in bronze : b.ts \in Ts
    BY DEF TypeOK, Batch
  <1> QED BY <1>1, <1>2 DEF Batch

LEMMA TypeInit == Init => TypeOK
  BY DEF Init, TypeOK, Phase

LEMMA TypeStep == TypeOK /\ [Next]_vars => TypeOK'
  <1> SUFFICES ASSUME TypeOK, [Next]_vars PROVE TypeOK'
    OBVIOUS
  <1>1. ASSUME NEW batch \in Batch, Ingest(batch) PROVE TypeOK'
    BY <1>1 DEF Ingest, TypeOK
  <1>2. CASE StartTransform \/ Finish \/ GiveUp \/ BuildMarts
    BY <1>2 DEF StartTransform, Finish, GiveUp, BuildMarts, TypeOK, Phase
  <1>3. CASE BuildSilver
    BY <1>3, SilverType DEF BuildSilver, TypeOK, Phase
  <1>4. CASE SnapshotDim
    <2>1. clock' \in Nat /\ dim' = Merged(clock')
      BY <1>4 DEF SnapshotDim, TypeOK
    <2> QED BY <1>4, <2>1, MergedType DEF SnapshotDim, TypeOK, Phase
  <1>5. CASE UNCHANGED vars
    BY <1>5 DEF TypeOK
  <1> QED BY <1>1, <1>2, <1>3, <1>4, <1>5 DEF Next

\* Type correctness of Silver, the dimension and the facts.
THEOREM TypeCorrect == Spec => []TypeOK
  <1> QED BY TypeInit, TypeStep, PTL DEF Spec

-----------------------------------------------------------------------------
\* Silver has one batch per second, so the newest one is one export and says one
\* thing of each person.
OnePerSecond(s) == \A x, y \in s : x.ts = y.ts => x = y

LEMMA SilverUnique ==
    ASSUME TypeOK, BuildSilver
    PROVE  OnePerSecond(silver')
  BY DEF BuildSilver, OnePerSecond

LEMMA NewestIsOne ==
    ASSUME NEW s \in SUBSET Batch, OnePerSecond(s), NEW x \in Newest(s), NEW y \in Newest(s)
    PROVE  x = y
  <1>1. x.ts \in Nat /\ y.ts \in Nat
    BY HistoryAssumption DEF Newest, Batch, Ts
  <1>2. x.ts <= y.ts /\ y.ts <= x.ts
    BY DEF Newest
  <1> QED BY <1>1, <1>2 DEF Newest, OnePerSecond

LEMMA SourceIsFunction ==
    ASSUME TypeOK, OnePerSecond(silver), NEW r \in Source, NEW s \in Source, r[1] = s[1]
    PROVE  r = s
  <1>1. PICK b \in Newest(silver) : b.rows[r[1]] = r[2]
    BY SourceType
  <1>2. PICK d \in Newest(silver) : d.rows[s[1]] = s[2]
    BY SourceType
  <1>3. b = d
    BY NewestIsOne DEF TypeOK
  <1> QED BY <1>1, <1>2, <1>3, SourceType

-----------------------------------------------------------------------------
\* A version begins at a run and, once closed, ends at a later one.
Timely ==
    \A v \in dim :
        /\ 1 <= v.from /\ v.from <= clock
        /\ v.to <= clock
        /\ ~IsOpen(v) => v.from < v.to

DimInv == TypeOK /\ OnePerSecond(silver) /\ Timely /\ VersionsDoNotOverlap /\ CurrentIsLatest

\* What is in the dimension after a run: an old version as it was, an old one closed
\* now, or a new one.
LEMMA MergedCases ==
    ASSUME NEW t, NEW v \in Merged(t)
    PROVE  \/ v \in dim /\ v \notin Outdated
           \/ \E o \in Outdated : v = Closed(o, t)
           \/ \E row \in Source : row \notin OpenRows /\ v = Opened(row, t)
  BY DEF Merged

LEMMA TimelyStep == DimInv /\ [Next]_vars => Timely'
  <1> SUFFICES ASSUME DimInv, [Next]_vars PROVE Timely'
    OBVIOUS
  <1>1. CASE UNCHANGED <<dim, clock>>
    BY <1>1 DEF DimInv, Timely, IsOpen
  <1>2. CASE SnapshotDim
    <2>1. clock \in Nat /\ clock' = clock + 1 /\ dim' = Merged(clock')
      BY <1>2 DEF SnapshotDim, DimInv, TypeOK
    <2>2. ASSUME NEW v \in dim'
          PROVE  /\ 1 <= v.from /\ v.from <= clock' /\ v.to <= clock'
                 /\ v.to # Null => v.from < v.to
      <3>1. ASSUME NEW o \in dim
            PROVE  /\ o.from \in Nat /\ o.to \in Nat /\ 1 <= o.from /\ o.from <= clock
                   /\ o.to <= clock
                   /\ o.to # Null => o.from < o.to
        BY DEF DimInv, TypeOK, Version, Timely, IsOpen
      <3>2. CASE v \in dim
        BY <3>1, <3>2, <2>1
      <3>3. ASSUME NEW o \in Outdated, v = Closed(o, clock')
            PROVE  1 <= v.from /\ v.from <= clock' /\ v.to <= clock' /\ v.from < v.to
        <4>1. o \in dim /\ o \in Version
          BY DEF Outdated, DimInv, TypeOK
        <4>2. v.from = o.from /\ v.to = clock'
          BY <3>3, <4>1 DEF Closed, Version
        <4> QED BY <4>1, <4>2, <3>1, <2>1
      <3>4. ASSUME NEW row \in Source, v = Opened(row, clock')
            PROVE  1 <= v.from /\ v.from <= clock' /\ v.to <= clock' /\ v.to = Null
        BY <3>4, <2>1 DEF Opened, Null
      <3> QED BY <3>2, <3>3, <3>4, <2>1, MergedCases
    <2> QED BY <2>2 DEF Timely, IsOpen
  <1> QED BY <1>1, <1>2 DEF Next, Ingest, StartTransform, BuildSilver, BuildMarts, Finish, GiveUp

\* Two different versions of a person: an old pair, of which one was closed before
\* the other began, or an old one that this run or an earlier one closed, and the
\* one this run opens.
LEMMA OverlapStep == DimInv /\ [Next]_vars => VersionsDoNotOverlap'
  <1> SUFFICES ASSUME DimInv, [Next]_vars PROVE VersionsDoNotOverlap'
    OBVIOUS
  <1>1. CASE UNCHANGED dim
    BY <1>1 DEF DimInv, VersionsDoNotOverlap, IsOpen
  <1>2. CASE SnapshotDim
    <2> DEFINE t == clock + 1
               Before0(v, w) == v.to # Null /\ v.to <= w.from
               Was(v, o) == o \in dim /\ v = IF o \in Outdated THEN Closed(o, t) ELSE o
               New(v, row) == row \in Source /\ row \notin OpenRows /\ v = Opened(row, t)
    <2>1. clock \in Nat /\ t \in Nat /\ t # Null /\ dim' = Merged(t) /\ OnePerSecond(silver) /\ TypeOK
      BY <1>2 DEF SnapshotDim, DimInv, TypeOK, Null
    <2>2. \A v \in dim' : (\E o \in dim : Was(v, o)) \/ (\E row \in Source : New(v, row))
      BY <2>1, MergedCases DEF Outdated
    <2>3. \A v, o : Was(v, o) =>
              /\ o \in dim /\ v.id = o.id /\ v.from = o.from /\ v.from \in Nat
              /\ v.from < t
              /\ o \in Outdated => v.to = t
              /\ o \notin Outdated => v.to = o.to
      <3> SUFFICES ASSUME NEW v, NEW o, Was(v, o)
                   PROVE  /\ o \in dim /\ v.id = o.id /\ v.from = o.from /\ v.from \in Nat
                          /\ v.from < t
                          /\ o \in Outdated => v.to = t
                          /\ o \notin Outdated => v.to = o.to
        OBVIOUS
      <3>1. o \in Version /\ o.from <= clock
        BY DEF DimInv, TypeOK, Timely
      <3>2. o.from \in Nat
        BY <3>1 DEF Version
      <3>3. v.id = o.id /\ v.from = o.from /\ (o \in Outdated => v.to = t)
        BY <3>1 DEF Closed, Version
      <3> QED BY <2>1, <3>1, <3>2, <3>3
    <2>4. ASSUME NEW v, NEW w, NEW o, NEW p, Was(v, o), Was(w, p), v.id = w.id, v # w
          PROVE  Before0(v, w) \/ Before0(w, v)
      <3>1. o # p /\ o.id = p.id /\ o \in dim /\ p \in dim
        BY <2>3, <2>4
      <3>2. (~IsOpen(o) /\ o.to <= p.from) \/ (~IsOpen(p) /\ p.to <= o.from)
        BY <3>1 DEF DimInv, VersionsDoNotOverlap
      <3>3. \A x \in Outdated : IsOpen(x)
        BY DEF Outdated
      <3> QED BY <2>3, <2>4, <3>2, <3>3 DEF IsOpen
    <2>5. ASSUME NEW v, NEW w, NEW o, NEW row, Was(v, o), New(w, row), v.id = w.id
          PROVE  Before0(v, w)
      <3>1. w.from = t /\ row[1] = o.id
        BY <2>3, <2>5 DEF Opened
      <3>2. CASE o \in Outdated
        BY <2>1, <2>3, <2>5, <3>1, <3>2
      <3>3. CASE IsOpen(o) /\ o \notin Outdated
        <4>1. <<o.id, o.attr>> \in Source /\ <<o.id, o.attr>> \in OpenRows
          BY <2>5, <3>3 DEF Outdated, OpenRows
        <4>2. row = <<o.id, o.attr>>
          BY <2>1, <2>5, <3>1, <4>1, SourceIsFunction
        <4> QED BY <2>5, <4>1, <4>2
      <3>4. CASE ~IsOpen(o) /\ o \notin Outdated
        <4>1. o.to <= clock /\ o.to \in Nat /\ o.to # Null
          BY <2>5, <3>4 DEF DimInv, TypeOK, Version, Timely, IsOpen
        <4> QED BY <2>1, <2>3, <2>5, <3>1, <3>4, <4>1
      <3> QED BY <3>2, <3>3, <3>4
    <2>6. ASSUME NEW v, NEW w, NEW r, NEW s, New(v, r), New(w, s), v.id = w.id
          PROVE  v = w
      <3>1. r[1] = s[1]
        BY <2>6 DEF Opened
      <3> QED BY <2>1, <2>6, <3>1, SourceIsFunction
    <2> HIDE DEF Was, New, Before0
    <2>7. \A v, w \in dim' : v.id = w.id /\ v # w => Before0(v, w) \/ Before0(w, v)
      BY <2>2, <2>4, <2>5, <2>6
    <2> QED BY <2>7 DEF Before0, VersionsDoNotOverlap, IsOpen
  <1> QED BY <1>1, <1>2 DEF Next, Ingest, StartTransform, BuildSilver, BuildMarts, Finish, GiveUp

\* After the merge, what is open is what was open and still holds, and what was opened.
LEMMA CurrentStep == DimInv /\ [Next]_vars => CurrentIsLatest'
  <1> SUFFICES ASSUME DimInv, [Next]_vars PROVE CurrentIsLatest'
    OBVIOUS
  <1>1. CASE SnapshotDim
    <2> DEFINE t == clock + 1
    <2>1. t # Null /\ dim' = Merged(t) /\ silver' = silver /\ TypeOK
      BY <1>1 DEF SnapshotDim, DimInv, TypeOK, Null
    <2>2. Source' = Source
      BY <2>1 DEF Source, LatestRows, Newest
    <2>3. OpenRows' = {<<v.id, v.attr>> : v \in {w \in Merged(t) : IsOpen(w)}}
      BY <2>1 DEF OpenRows
    <2>4. ASSUME NEW v \in Merged(t), IsOpen(v) PROVE <<v.id, v.attr>> \in Source
      <3>1. CASE v \in dim /\ v \notin Outdated
        BY <2>4, <3>1 DEF Outdated
      <3>2. ASSUME NEW o \in Outdated, v = Closed(o, t) PROVE FALSE
        <4>1. o \in Version
          BY DEF Outdated, DimInv, TypeOK
        <4> QED BY <2>1, <2>4, <3>2, <4>1 DEF Closed, IsOpen, Version
      <3>3. ASSUME NEW row \in Source, v = Opened(row, t) PROVE <<v.id, v.attr>> \in Source
        BY <2>1, <3>3, SourceType DEF Opened
      <3> QED BY <3>1, <3>2, <3>3, MergedCases
    <2>5. ASSUME NEW row \in Source
          PROVE  \E v \in Merged(t) : IsOpen(v) /\ row = <<v.id, v.attr>>
      <3>1. CASE row \in OpenRows
        <4>1. PICK v \in dim : IsOpen(v) /\ row = <<v.id, v.attr>>
          BY <3>1 DEF OpenRows
        <4>2. v \in Merged(t)
          BY <4>1 DEF Outdated, Merged
        <4> QED BY <4>1, <4>2
      <3>2. CASE row \notin OpenRows
        <4>1. Opened(row, t) \in Merged(t)
          BY <3>2 DEF Merged
        <4>2. IsOpen(Opened(row, t)) /\ row = <<Opened(row, t).id, Opened(row, t).attr>>
          BY <2>1, SourceType DEF Opened, IsOpen
        <4> QED BY <4>1, <4>2
      <3> QED BY <3>1, <3>2
    <2> HIDE DEF t
    <2>6. OpenRows' = Source
      BY <2>3, <2>4, <2>5
    <2> QED BY <2>2, <2>6 DEF CurrentIsLatest
  <1>2. CASE BuildMarts \/ UNCHANGED vars
    <2>1. UNCHANGED <<dim, silver>> /\ (phase' \in {"marts", "tests"} => phase \in {"marts", "tests"})
      BY <1>2 DEF BuildMarts
    <2> QED BY <2>1 DEF DimInv, CurrentIsLatest, OpenRows, Source, LatestRows, Newest, IsOpen
  <1>3. CASE phase' \notin {"marts", "tests"}
    BY <1>3 DEF CurrentIsLatest
  <1> QED BY <1>1, <1>2, <1>3
          DEF Next, Ingest, StartTransform, BuildSilver, Finish, GiveUp

LEMMA UniqueStep == DimInv /\ [Next]_vars => OnePerSecond(silver')
  <1> SUFFICES ASSUME DimInv, [Next]_vars PROVE OnePerSecond(silver')
    OBVIOUS
  <1>1. CASE BuildSilver
    BY <1>1, SilverUnique DEF DimInv
  <1>2. CASE UNCHANGED silver
    BY <1>2 DEF DimInv, OnePerSecond
  <1> QED BY <1>1, <1>2 DEF Next, Ingest, StartTransform, SnapshotDim, BuildMarts, Finish, GiveUp

\* The inductive invariant of the dimension.
THEOREM DimInductive == Spec => []DimInv
  <1>1. Init => DimInv
    <2>1. Init => Timely /\ OnePerSecond(silver) /\ VersionsDoNotOverlap /\ CurrentIsLatest
      BY DEF Init, Timely, OnePerSecond, VersionsDoNotOverlap, CurrentIsLatest
    <2> QED BY <2>1, TypeInit DEF DimInv
  <1>2. DimInv /\ [Next]_vars => DimInv'
    BY TypeStep, UniqueStep, TimelyStep, OverlapStep, CurrentStep DEF DimInv, OnePerSecond
  <1> QED BY <1>1, <1>2, PTL DEF Spec

\* No two versions of a person hold at the same time, for any exports in any order
\* of their times and any runs that fail half-way.
THEOREM NoOverlap == Spec => []VersionsDoNotOverlap
  <1>1. DimInv => VersionsDoNotOverlap
    BY DEF DimInv
  <1> QED BY <1>1, DimInductive, PTL

\* Nobody has two current rows (assert_one_current_row_per_connection).
THEOREM OneCurrentRow == Spec => []OneOpenVersion
  <1>1. DimInv => OneOpenVersion
    BY DEF DimInv, VersionsDoNotOverlap, OneOpenVersion
  <1> QED BY <1>1, DimInductive, PTL

\* Once dbt snapshot has run, the current rows are exactly the newest export's.
THEOREM CurrentRowsAreLatest == Spec => []CurrentIsLatest
  <1>1. DimInv => CurrentIsLatest
    BY DEF DimInv
  <1> QED BY <1>1, DimInductive, PTL

\* No step rewrites history: a version stays as it is, or is open and closed now.
THEOREM HistoryStays == Spec => HistoryIsKept
  <1>1. ASSUME [Next]_vars, NEW v \in dim
        PROVE  v \in dim' \/ (IsOpen(v) /\ Closed(v, clock') \in dim')
    <2>1. CASE SnapshotDim
      <3>1. dim' = Merged(clock')
        BY <2>1 DEF SnapshotDim
      <3> QED BY <3>1 DEF Merged, Outdated
    <2>2. CASE UNCHANGED dim
      BY <2>2
    <2> QED BY <1>1, <2>1, <2>2
            DEF Next, Ingest, StartTransform, BuildSilver, BuildMarts, Finish, GiveUp
  <1>2. [Next]_vars => [\A v \in dim : v \in dim' \/ (IsOpen(v) /\ Closed(v, clock') \in dim')]_vars
    BY <1>1
  <1> QED BY <1>2, PTL DEF Spec, HistoryIsKept

-----------------------------------------------------------------------------
(***************************************************************************)
(* How Silver, the facts and the dimension of a run relate.                *)
(***************************************************************************)

SourceOf(s) == {row \in LatestRows(s) : row[2] # Absent}

\* The newest batch lists somebody: what the checkpoint saw in Bronze is still so in Silver.
ListsSomebody(s) == \E b \in Newest(s) : Present(b) # {}

LayerInv ==
    /\ DimInv
    /\ OnePerSecond(facts)
    /\ \A b \in silver \cup facts : \E x \in bronze : x.ts = b.ts
    /\ phase = "silver" => ListsSomebody(bronze)
    /\ phase \in {"snapshot", "marts", "tests"} =>
          /\ ListsSomebody(silver)
          /\ OnePerSecond(bronze) => silver = bronze
    /\ phase = "tests" => facts = silver
    /\ facts = bronze => OpenRows = SourceOf(facts)

\* What dbt makes of Bronze has its seconds, keeps whoever is listed in one of
\* them, and is Bronze itself where no two files share a second.
LEMMA SilverOfBronze ==
    ASSUME TypeOK, BuildSilver
    PROVE  /\ \A b \in silver' : \E x \in bronze : x.ts = b.ts
           /\ ListsSomebody(bronze) => ListsSomebody(silver')
           /\ OnePerSecond(bronze) => silver' = bronze
  <1>1. PICK kept \in [{b.ts : b \in bronze} -> Export] :
            /\ \A t \in DOMAIN kept : \A c \in Connection : kept[t][c] \in Readings(t, c)
            /\ silver' = {[ts |-> t, rows |-> kept[t]] : t \in DOMAIN kept}
    BY DEF BuildSilver
  <1>2. ASSUME NEW b \in bronze
        PROVE  /\ [ts |-> b.ts, rows |-> kept[b.ts]] \in silver'
               /\ \A c \in Connection : kept[b.ts][c] \in Readings(b.ts, c)
    BY <1>1
  <1>3. \A b \in silver' : \E x \in bronze : x.ts = b.ts
    BY <1>1
  <1>4. ASSUME ListsSomebody(bronze) PROVE ListsSomebody(silver')
    <2>1. PICK b \in Newest(bronze) : Present(b) # {}
      BY <1>4 DEF ListsSomebody
    <2>2. PICK c \in Connection : b.rows[c] # Absent
      BY <2>1 DEF Present
    <2>3. b \in bronze
      BY <2>1 DEF Newest
    <2> DEFINE k == [ts |-> b.ts, rows |-> kept[b.ts]]
    <2>4. k \in silver' /\ kept[b.ts][c] \in Readings(b.ts, c)
      BY <1>2, <2>3
    <2>5. kept[b.ts][c] # Absent
      BY <2>2, <2>3, <2>4 DEF Readings
    <2>6. k \in Newest(silver')
      BY <1>3, <2>1, <2>4 DEF Newest
    <2>7. c \in Present(k)
      BY <2>2, <2>5 DEF Present
    <2> QED BY <2>6, <2>7 DEF ListsSomebody
  <1>5. ASSUME OnePerSecond(bronze) PROVE silver' = bronze
    <2>1. ASSUME NEW b \in bronze PROVE [ts |-> b.ts, rows |-> kept[b.ts]] = b
      <3>1. b \in Batch /\ kept[b.ts] \in Export /\ b.rows \in Export
        BY DEF TypeOK, Batch
      <3>2. {x \in bronze : x.ts = b.ts} = {b}
        BY <1>5 DEF OnePerSecond
      <3>3. ASSUME NEW c \in Connection PROVE kept[b.ts][c] = b.rows[c]
        <4>1. kept[b.ts][c] \in Readings(b.ts, c)
          BY <1>2
        <4> QED BY <3>2, <4>1 DEF Readings
      <3>4. kept[b.ts] = b.rows
        BY <3>1, <3>3 DEF Export
      <3> QED BY <3>1, <3>4 DEF Batch
    <2> QED BY <1>1, <2>1
  <1> QED BY <1>3, <1>4, <1>5

LEMMA LayerInit == Init => LayerInv
  <1> SUFFICES ASSUME Init PROVE LayerInv
    OBVIOUS
  <1>1. DimInv
    BY TypeInit DEF Init, DimInv, Timely, OnePerSecond, VersionsDoNotOverlap, CurrentIsLatest
  <1> QED BY <1>1 DEF Init, LayerInv, OnePerSecond, OpenRows, SourceOf, LatestRows, Newest

\* Bronze gets a batch only between runs, and then it differs from the facts, which
\* have no batch in a second that Bronze did not have.
LEMMA LayerIngest ==
    ASSUME LayerInv, DimInv', NEW batch \in Batch, Ingest(batch)
    PROVE  LayerInv'
  <1>1. UNCHANGED <<silver, dim, facts, phase>> /\ phase = "idle" /\ bronze' = bronze \cup {batch}
    BY DEF Ingest
  <1>2. facts # bronze'
    <2> SUFFICES ASSUME facts = bronze' PROVE FALSE
      OBVIOUS
    <2>1. batch \in facts /\ batch \notin bronze
      BY <1>1 DEF Ingest
    <2>2. PICK x \in bronze : x.ts = batch.ts
      BY <2>1 DEF LayerInv
    <2> QED BY <1>1, <2>1, <2>2 DEF LayerInv, OnePerSecond
  <1>3. \A b \in silver' \cup facts' : \E x \in bronze' : x.ts = b.ts
    BY <1>1 DEF LayerInv
  <1>4. OnePerSecond(facts)'
    BY <1>1 DEF LayerInv, OnePerSecond
  <1> QED BY <1>1, <1>2, <1>3, <1>4 DEF LayerInv

LEMMA LayerSilver ==
    ASSUME LayerInv, DimInv', BuildSilver
    PROVE  LayerInv'
  <1>1. /\ phase = "silver" /\ phase' = "snapshot"
        /\ UNCHANGED <<bronze, dim, facts>>
    BY DEF BuildSilver
  <1>2. TypeOK /\ ListsSomebody(bronze)
    BY <1>1 DEF LayerInv, DimInv
  <1>3. /\ \A b \in silver' : \E x \in bronze : x.ts = b.ts
        /\ ListsSomebody(silver')
        /\ OnePerSecond(bronze) => silver' = bronze
    BY <1>2, SilverOfBronze
  <1>4. OnePerSecond(facts)' /\ (OnePerSecond(bronze)' => silver' = bronze')
    BY <1>1, <1>3 DEF LayerInv, OnePerSecond
  <1>5. \A b \in silver' \cup facts' : \E x \in bronze' : x.ts = b.ts
    BY <1>1, <1>3 DEF LayerInv
  <1>6. (facts = bronze => OpenRows = SourceOf(facts))'
    BY <1>1 DEF LayerInv, OpenRows, SourceOf, LatestRows, Newest, IsOpen
  <1>7. ListsSomebody(silver)'
    BY <1>3 DEF ListsSomebody, Newest, Present
  <1> QED BY <1>1, <1>4, <1>5, <1>6, <1>7 DEF LayerInv

LEMMA SourceOfSilver == Source = SourceOf(silver)
  BY DEF Source, SourceOf

LEMMA LayerSnapshot ==
    ASSUME LayerInv, DimInv', SnapshotDim
    PROVE  LayerInv'
  <1>1. /\ phase = "snapshot" /\ phase' = "marts"
        /\ UNCHANGED <<bronze, silver, facts>>
    BY DEF SnapshotDim
  <1>2. OpenRows' = Source'
    BY <1>1 DEF DimInv, CurrentIsLatest
  <1>3. Source' = SourceOf(silver)
    BY <1>1 DEF Source, SourceOf, LatestRows, Newest
  <1>4. facts = bronze => silver = facts
    BY <1>1 DEF LayerInv
  <1>5. (facts = bronze => OpenRows = SourceOf(facts))'
    BY <1>1, <1>2, <1>3, <1>4 DEF SourceOf, LatestRows, Newest
  <1>6. /\ OnePerSecond(facts)'
        /\ \A b \in silver' \cup facts' : \E x \in bronze' : x.ts = b.ts
        /\ ListsSomebody(silver)'
        /\ (OnePerSecond(bronze) => silver = bronze)'
    BY <1>1 DEF LayerInv, OnePerSecond, ListsSomebody, Newest, Present
  <1> QED BY <1>1, <1>5, <1>6 DEF LayerInv

LEMMA LayerMarts ==
    ASSUME LayerInv, DimInv', BuildMarts
    PROVE  LayerInv'
  <1>1. /\ phase = "marts" /\ phase' = "tests" /\ facts' = silver
        /\ UNCHANGED <<bronze, silver, dim>>
    BY DEF BuildMarts
  <1>2. OpenRows = SourceOf(silver) /\ OnePerSecond(silver)
    BY <1>1, SourceOfSilver DEF LayerInv, DimInv, CurrentIsLatest
  <1>3. (facts = bronze => OpenRows = SourceOf(facts))'
    BY <1>1, <1>2 DEF OpenRows, SourceOf, LatestRows, Newest, IsOpen
  <1>4. /\ OnePerSecond(facts)'
        /\ \A b \in silver' \cup facts' : \E x \in bronze' : x.ts = b.ts
        /\ ListsSomebody(silver)'
        /\ (OnePerSecond(bronze) => silver = bronze)'
    BY <1>1, <1>2 DEF LayerInv, OnePerSecond, ListsSomebody, Newest, Present
  <1> QED BY <1>1, <1>3, <1>4 DEF LayerInv

\* The steps that change no layer: what a phase needs, the one before it had.
LEMMA LayerPhase ==
    ASSUME LayerInv, DimInv', UNCHANGED <<bronze, silver, dim, facts>>,
           \/ phase' = "idle"
           \/ phase' = "silver" /\ ListsSomebody(bronze)
           \/ UNCHANGED phase
    PROVE  LayerInv'
  <1>1. /\ OnePerSecond(facts)'
        /\ \A b \in silver' \cup facts' : \E x \in bronze' : x.ts = b.ts
        /\ (facts = bronze => OpenRows = SourceOf(facts))'
    BY DEF LayerInv, OnePerSecond, OpenRows, SourceOf, LatestRows, Newest, IsOpen
  <1>2. CASE UNCHANGED phase
    BY <1>1, <1>2 DEF LayerInv, OnePerSecond, ListsSomebody, Newest, Present
  <1>3. CASE phase' = "idle"
    BY <1>1, <1>3 DEF LayerInv
  <1>4. CASE phase' = "silver" /\ ListsSomebody(bronze)
    BY <1>1, <1>4 DEF LayerInv, ListsSomebody, Newest, Present
  <1> QED BY <1>2, <1>3, <1>4

LEMMA DimStep == DimInv /\ [Next]_vars => DimInv'
  BY TypeStep, UniqueStep, TimelyStep, OverlapStep, CurrentStep DEF DimInv, OnePerSecond

LEMMA LayerStep == LayerInv /\ [Next]_vars => LayerInv'
  <1> SUFFICES ASSUME LayerInv, [Next]_vars PROVE LayerInv'
    OBVIOUS
  <1>1. DimInv'
    BY DimStep DEF LayerInv
  <1>2. ASSUME NEW batch \in Batch, Ingest(batch) PROVE LayerInv'
    BY <1>1, <1>2, LayerIngest
  <1>3. CASE BuildSilver
    BY <1>1, <1>3, LayerSilver
  <1>4. CASE SnapshotDim
    BY <1>1, <1>4, LayerSnapshot
  <1>5. CASE BuildMarts
    BY <1>1, <1>5, LayerMarts
  <1>6. CASE StartTransform
    BY <1>1, <1>6, LayerPhase DEF StartTransform, ListsSomebody
  <1>7. CASE Finish \/ GiveUp \/ UNCHANGED vars
    BY <1>1, <1>7, LayerPhase DEF Finish, GiveUp
  <1> QED BY <1>2, <1>3, <1>4, <1>5, <1>6, <1>7 DEF Next

\* The inductive invariant of the layers.
THEOREM LayersInductive == Spec => []LayerInv
  <1> QED BY LayerInit, LayerStep, PTL DEF Spec

\* When the tests run, the newest snapshot of the fact table and the current rows
\* list the same people (assert_current_fact_rows_have_dim_connection, and back).
THEOREM FactsAgree == Spec => []FactsAgreeWithDimension
  <1>1. LayerInv => FactsAgreeWithDimension
    <2> SUFFICES ASSUME LayerInv, phase = "tests"
                 PROVE  CurrentConnections = UNION {Present(b) : b \in Newest(FactSnapshots)}
      BY DEF FactsAgreeWithDimension
    <2>1. facts = silver /\ OpenRows = Source /\ OnePerSecond(silver) /\ silver \subseteq Batch
      BY DEF LayerInv, DimInv, CurrentIsLatest, TypeOK
    <2>2. PICK b \in Newest(silver) : Present(b) # {}
      BY DEF LayerInv, ListsSomebody
    <2>3. Newest(silver) = {b}
      BY <2>1, NewestIsOne
    <2>4. b \in FactSnapshots /\ FactSnapshots \subseteq silver
      BY <2>1, <2>2 DEF FactSnapshots, Newest
    <2>5. Newest(FactSnapshots) = {b}
      <3>1. b \in Newest(FactSnapshots)
        BY <2>3, <2>4 DEF Newest
      <3>2. OnePerSecond(FactSnapshots)
        BY <2>1, <2>4 DEF OnePerSecond
      <3> QED BY <2>1, <2>4, <3>1, <3>2, NewestIsOne
    <2>6. Source = {<<c, b.rows[c]>> : c \in Present(b)}
      BY <2>3 DEF Source, LatestRows, Present
    <2>7. ASSUME NEW c PROVE c \in CurrentConnections <=> \E a : <<c, a>> \in OpenRows
      BY DEF CurrentConnections, OpenRows
    <2>8. ASSUME NEW c PROVE c \in CurrentConnections <=> c \in Present(b)
      <3>1. c \in Present(b) <=> \E a : <<c, a>> \in Source
        BY <2>6
      <3> QED BY <2>1, <2>7, <3>1
    <2> QED BY <2>5, <2>8
  <1> QED BY <1>1, LayersInductive, PTL

\* A run over a Bronze with nothing new in it leaves the dimension as it is, also
\* after runs that failed half-way.
THEOREM RebuildIsNeutral == Spec => RebuildChangesNothing
  <1>1. ASSUME LayerInv, [Next]_vars, phase = "snapshot", phase' = "marts", facts = bronze
        PROVE  dim' = dim
    <2>1. dim' = Merged(clock')
      BY <1>1 DEF Next, Ingest, StartTransform, BuildSilver, SnapshotDim, BuildMarts, Finish, GiveUp
    <2>2. silver = facts /\ OpenRows = Source
      BY <1>1, SourceOfSilver DEF LayerInv
    <2>3. Outdated = {}
      BY <2>2 DEF Outdated, OpenRows
    <2> QED BY <2>1, <2>2, <2>3 DEF Merged
  <1>2. LayerInv /\ [Next]_vars
            => [phase = "snapshot" /\ phase' = "marts" /\ facts = bronze => dim' = dim]_vars
    BY <1>1
  <1> QED BY <1>2, LayersInductive, PTL DEF Spec, RebuildChangesNothing

\* The growth chart adds up from one snapshot to the next.
THEOREM GrowthAddsUp == Spec => []StatsAddUp
  <1>1. LayerInv => StatsAddUp
    <2> SUFFICES ASSUME LayerInv, NEW b \in FactSnapshots, NEW p \in PreviousSnapshot(b)
                 PROVE  total_connections(b) + lost_connections(b)
                            = total_connections(p) + new_connections(b)
      BY DEF StatsAddUp
    <2> DEFINE A == Present(b)
               B == Present(p)
    <2>1. PreviousSnapshot(b) = {p}
      <3>1. facts \subseteq Batch /\ OnePerSecond(facts)
        BY DEF LayerInv, DimInv, TypeOK
      <3>2. PreviousSnapshot(b) = Newest(Before(b)) /\ Before(b) \subseteq facts
        BY DEF PreviousSnapshot, Newest, Before, FactSnapshots
      <3>3. OnePerSecond(Before(b)) /\ Before(b) \in SUBSET Batch
        BY <3>1, <3>2 DEF OnePerSecond
      <3> QED BY <3>2, <3>3, NewestIsOne
    <2>2. PreviouslyPresent(b) = B
      BY <2>1 DEF PreviouslyPresent
    <2>3. IsFiniteSet(A) /\ IsFiniteSet(B)
      BY HistoryAssumption, FS_Subset DEF Present
    <2>4. /\ Cardinality(A \ B) = Cardinality(A) - Cardinality(A \cap B)
          /\ Cardinality(B \ A) = Cardinality(B) - Cardinality(A \cap B)
          /\ Cardinality(A) \in Nat /\ Cardinality(B) \in Nat /\ Cardinality(A \cap B) \in Nat
      <3>1. A \cap B = B \cap A /\ IsFiniteSet(A \cap B)
        BY <2>3, FS_Subset
      <3> QED BY <2>3, <3>1, FS_Difference, FS_CardinalityType
    <2>5. /\ total_connections(b) = Cardinality(A) /\ total_connections(p) = Cardinality(B)
          /\ lost_connections(b) = Cardinality(B \ A)
          /\ new_connections(b) = Cardinality(A \ B)
      BY <2>1, <2>2 DEF total_connections, lost_connections, new_connections
    <2> QED BY <2>4, <2>5
  <1> QED BY <1>1, LayersInductive, PTL

=============================================================================
