-------------------------- MODULE NetworkMartsProofs --------------------------
(***************************************************************************)
(* Proofs that the models built one by one are a run of ConnectionHistory, *)
(* and that the counts of employers agree, for any people, spellings and   *)
(* exports.                                                                *)
(***************************************************************************)
EXTENDS NetworkMarts, ConnectionHistoryProofs

Coarse == INSTANCE ConnectionHistoryProofs
            WITH phase <- IF phase = "marts" /\ "fct" \in built THEN "tests" ELSE phase

LEMMA RefineInit == MartsInit => History!Init
  BY DEF MartsInit, Init, History!Init

\* What is built, is built in a marts task.
BuiltInMarts == phase # "marts" => built = {}

LEMMA BuiltStep == BuiltInMarts /\ [MartsNext]_allVars => BuiltInMarts'
  <1> SUFFICES ASSUME BuiltInMarts, [MartsNext]_allVars PROVE BuiltInMarts'
    OBVIOUS
  <1>1. ASSUME UNCHANGED built, phase # "marts" PROVE BuiltInMarts'
    BY <1>1 DEF BuiltInMarts
  <1>2. CASE MartsDone \/ GiveUpRun
    BY <1>2 DEF MartsDone, GiveUpRun, BuiltInMarts
  <1>3. CASE BuildFct \/ BuildStats \/ BuildBreakdown \/ BuildCompanies
    BY <1>3 DEF BuildFct, BuildStats, BuildBreakdown, BuildCompanies, BuiltInMarts, vars
  <1>4. CASE UNCHANGED allVars
    BY <1>4 DEF allVars, BuiltInMarts
  <1>5. ASSUME \/ \E batch \in Batch : Ingest(batch)
               \/ StartTransform \/ BuildSilver \/ SnapshotDim \/ Finish,
               UNCHANGED martVars
        PROVE  BuiltInMarts'
    <2>1. phase # "marts"
      BY <1>5 DEF Ingest, StartTransform, BuildSilver, SnapshotDim, Finish
    <2> QED BY <1>1, <1>5, <2>1 DEF martVars
  <1> QED BY <1>2, <1>3, <1>4, <1>5 DEF MartsNext

\* The operators that do not mention the phase are the same.
LEMMA SameOperators ==
    /\ History!Batch = Batch /\ History!Export = Export
    /\ \A t, c : History!Readings(t, c) = Readings(t, c)
    /\ History!Source = Source /\ History!OpenRows = OpenRows /\ History!Outdated = Outdated
    /\ \A t : History!Merged(t) = Merged(t)
  <1>1. History!Batch = Batch /\ History!Export = Export
    BY DEF History!Batch, History!Export, History!Ts, Batch, Export, Ts
  <1>2. \A t, c : History!Readings(t, c) = Readings(t, c)
    BY DEF History!Readings, Readings
  <1>3. \A s : History!Newest(s) = Newest(s)
    BY DEF History!Newest, Newest
  <1>4. \A s : History!LatestRows(s) = LatestRows(s)
    BY <1>3 DEF History!LatestRows, LatestRows
  <1>5. History!Source = Source
    BY <1>4 DEF History!Source, Source
  <1>6. \A v : History!IsOpen(v) <=> IsOpen(v)
    BY DEF History!IsOpen, IsOpen, History!Null, Null
  <1>7. History!OpenRows = OpenRows
    BY <1>6 DEF History!OpenRows, OpenRows
  <1>8. History!Outdated = Outdated
    BY <1>5, <1>6 DEF History!Outdated, Outdated
  <1>9. \A t : History!Merged(t) = Merged(t)
    BY <1>5, <1>7, <1>8
       DEF History!Merged, Merged, History!Closed, Closed, History!Opened, Opened,
           History!Null, Null
  <1> QED BY <1>1, <1>2, <1>5, <1>7, <1>8, <1>9

LEMMA RefineStep ==
    BuiltInMarts /\ [MartsNext]_allVars => [History!Next]_(History!vars)
  <1> SUFFICES ASSUME BuiltInMarts, [MartsNext]_allVars
               PROVE  [History!Next]_(History!vars)
    OBVIOUS
  <1> USE DEF BuiltInMarts
  <1>1. ASSUME NEW batch \in Batch, Ingest(batch), UNCHANGED martVars
        PROVE  History!Next
    <2>1. History!Ingest(batch)
      BY <1>1 DEF Ingest, History!Ingest, martVars, Cardinality, History!Cardinality
    <2> QED BY <2>1, SameOperators DEF History!Next
  <1>2. CASE StartTransform /\ UNCHANGED martVars
    BY <1>2 DEF StartTransform, History!StartTransform, martVars, History!Next, Newest,
               Present, History!Newest, History!Present
  <1>3. CASE BuildSilver /\ UNCHANGED martVars
    BY <1>3, SameOperators DEF BuildSilver, History!BuildSilver, martVars, History!Next
  <1>4. CASE SnapshotDim /\ UNCHANGED martVars
    BY <1>4, SameOperators DEF SnapshotDim, History!SnapshotDim, martVars, History!Next
  <1>5. CASE Finish /\ UNCHANGED martVars
    BY <1>5 DEF Finish, History!Finish, martVars, History!Next
  <1>6. CASE BuildFct
    BY <1>6 DEF BuildFct, History!BuildMarts, History!Next
  <1>7. CASE BuildStats \/ BuildBreakdown \/ BuildCompanies \/ MartsDone
    BY <1>7 DEF BuildStats, BuildBreakdown, BuildCompanies, MartsDone, Model, vars, History!vars
  <1>8. CASE GiveUpRun
    BY <1>8 DEF GiveUpRun, GiveUp, History!GiveUp, History!Next
  <1>9. CASE UNCHANGED allVars
    BY <1>9 DEF allVars, History!vars
  <1> QED BY <1>1, <1>2, <1>3, <1>4, <1>5, <1>6, <1>7, <1>8, <1>9 DEF MartsNext

\* dbt building the models of the marts one by one, and failing between any two of
\* them, is a run of ConnectionHistory, where they are built at once.
THEOREM MartsImplementHistory == MartsSpec => ImplementsHistory
  <1>1. MartsInit => BuiltInMarts
    BY DEF MartsInit, BuiltInMarts
  <1> QED BY <1>1, RefineInit, BuiltStep, RefineStep, PTL
          DEF MartsSpec, ImplementsHistory, History!Spec

-----------------------------------------------------------------------------
(***************************************************************************)
(* What is proved of ConnectionHistory holds of the models, once the two   *)
(* instances of it, with its proofs and without, are seen to be the same.  *)
(***************************************************************************)

LEMMA SameSpec == History!Spec => Coarse!Spec
  <1>1. Coarse!Init <=> History!Init
    BY DEF Coarse!Init, History!Init
  <1>2. ASSUME NEW batch PROVE Coarse!Ingest(batch) <=> History!Ingest(batch)
    BY DEF Coarse!Ingest, History!Ingest, Coarse!Cardinality, History!Cardinality
  <1>3. Coarse!StartTransform <=> History!StartTransform
    BY DEF Coarse!StartTransform, History!StartTransform, Coarse!Newest, History!Newest,
           Coarse!Present, History!Present
  <1>4. /\ Coarse!Batch = History!Batch
        /\ Coarse!BuildSilver <=> History!BuildSilver
    <2>1. Coarse!Export = History!Export
      BY DEF Coarse!Export, History!Export
    <2>2. \A t, c : Coarse!Readings(t, c) = History!Readings(t, c)
      BY DEF Coarse!Readings, History!Readings
    <2>3. Coarse!Batch = History!Batch
      BY <2>1 DEF Coarse!Batch, History!Batch, Coarse!Ts, History!Ts
    <2> QED BY <2>1, <2>2, <2>3 DEF Coarse!BuildSilver, History!BuildSilver
  <1>5. Coarse!SnapshotDim <=> History!SnapshotDim
    <2>1. \A s : Coarse!LatestRows(s) = History!LatestRows(s)
      BY DEF Coarse!LatestRows, History!LatestRows, Coarse!Newest, History!Newest
    <2>2. Coarse!Source = History!Source
      BY <2>1 DEF Coarse!Source, History!Source
    <2>3. Coarse!OpenRows = History!OpenRows /\ Coarse!Outdated = History!Outdated
      BY <2>2 DEF Coarse!OpenRows, History!OpenRows, Coarse!Outdated, History!Outdated,
                 Coarse!IsOpen, History!IsOpen, Coarse!Null, History!Null
    <2>4. \A t : Coarse!Merged(t) = History!Merged(t)
      BY <2>2, <2>3 DEF Coarse!Merged, History!Merged, Coarse!Closed, History!Closed,
                 Coarse!Opened, History!Opened, Coarse!Null, History!Null
    <2> QED BY <2>4 DEF Coarse!SnapshotDim, History!SnapshotDim
  <1>6. /\ Coarse!BuildMarts <=> History!BuildMarts
        /\ Coarse!Finish <=> History!Finish
        /\ Coarse!GiveUp <=> History!GiveUp
    BY DEF Coarse!BuildMarts, History!BuildMarts, Coarse!Finish, History!Finish,
           Coarse!GiveUp, History!GiveUp
  <1>7. [History!Next]_(History!vars) => [Coarse!Next]_(Coarse!vars)
    BY <1>2, <1>3, <1>4, <1>5, <1>6
       DEF Coarse!Next, History!Next, Coarse!vars, History!vars
  <1> QED BY <1>1, <1>7, PTL DEF History!Spec, Coarse!Spec

LEMMA CoarseLayers == MartsSpec => []Coarse!LayerInv
  <1>1. Coarse!HistoryAssumption
    BY HistoryAssumption DEF HistoryAssumption, Coarse!HistoryAssumption, IsFiniteSet,
       Coarse!IsFiniteSet
  <1>2. Coarse!Spec => []Coarse!LayerInv
    BY <1>1, Coarse!LayersInductive
  <1> QED BY <1>2, SameSpec, MartsImplementHistory, PTL DEF ImplementsHistory

-----------------------------------------------------------------------------
(***************************************************************************)
(* The marts are what their models make of the layers below, from the      *)
(* commit of a model until the next run.                                   *)
(***************************************************************************)

MartsInv ==
    /\ BuiltInMarts
    /\ built \cap {"stats", "breakdown"} # {} => "fct" \in built
    /\ "stats" \in built \/ phase = "tests" => stats = StatsOf(facts)
    /\ "breakdown" \in built \/ phase = "tests" => breakdown = ByCompany(facts)
    /\ "companies" \in built \/ phase = "tests" => companies = CompaniesOf(silver)

LEMMA MartsOfSame ==
    /\ UNCHANGED facts => StatsOf(facts)' = StatsOf(facts) /\ ByCompany(facts)' = ByCompany(facts)
    /\ UNCHANGED <<silver, dim>> => CompaniesOf(silver)' = CompaniesOf(silver)
  <1>1. UNCHANGED facts => StatsOf(facts)' = StatsOf(facts)
    BY DEF StatsOf
  <1>2. UNCHANGED facts => ByCompany(facts)' = ByCompany(facts)
    BY DEF ByCompany
  <1>3. UNCHANGED <<silver, dim>> => CompaniesOf(silver)' = CompaniesOf(silver)
    <2> SUFFICES ASSUME UNCHANGED <<silver, dim>> PROVE CompaniesOf(silver)' = CompaniesOf(silver)
      OBVIOUS
    <2>1. ASSUME NEW k PROVE CurrentAt(k)' = CurrentAt(k)
      BY DEF CurrentAt, OpenRows, IsOpen
    <2> QED BY <2>1 DEF CompaniesOf
  <1> QED BY <1>1, <1>2, <1>3

LEMMA MartsInvStep == MartsInv /\ [MartsNext]_allVars => MartsInv'
  <1> SUFFICES ASSUME MartsInv, [MartsNext]_allVars PROVE MartsInv'
    OBVIOUS
  <1>0. BuiltInMarts'
    BY BuiltStep DEF MartsInv
  <1>1. CASE BuildFct
    <2>1. built \cap {"stats", "breakdown"} = {} /\ phase = "marts"
      BY <1>1 DEF BuildFct, MartsInv
    <2>2. CompaniesOf(silver)' = CompaniesOf(silver)
      BY <1>1, MartsOfSame DEF BuildFct
    <2> QED BY <1>0, <1>1, <2>1, <2>2 DEF BuildFct, MartsInv
  <1>2. CASE BuildStats \/ BuildBreakdown \/ BuildCompanies \/ MartsDone
    <2>1. UNCHANGED <<silver, dim, facts>>
      BY <1>2 DEF BuildStats, BuildBreakdown, BuildCompanies, MartsDone, vars
    <2>2. CASE BuildStats
      BY <1>0, <2>1, <2>2, MartsOfSame DEF BuildStats, MartsInv, vars
    <2>3. CASE BuildBreakdown
      BY <1>0, <2>1, <2>3, MartsOfSame DEF BuildBreakdown, MartsInv, vars
    <2>4. CASE BuildCompanies
      BY <1>0, <2>1, <2>4, MartsOfSame DEF BuildCompanies, MartsInv, vars
    <2>5. CASE MartsDone
      BY <1>0, <2>1, <2>5, MartsOfSame DEF MartsDone, MartsInv, Model
    <2> QED BY <1>2, <2>2, <2>3, <2>4, <2>5
  <1>3. CASE GiveUpRun
    BY <1>0, <1>3 DEF GiveUpRun, GiveUp, MartsInv
  <1>4. CASE UNCHANGED allVars
    BY <1>0, <1>4, MartsOfSame DEF allVars, MartsInv
  <1>5. ASSUME \/ \E batch \in Batch : Ingest(batch)
               \/ StartTransform \/ BuildSilver \/ SnapshotDim \/ Finish,
               UNCHANGED martVars
        PROVE  MartsInv'
    <2>1. built = {} /\ built' = {} /\ phase' # "tests"
      BY <1>5 DEF Ingest, StartTransform, BuildSilver, SnapshotDim, Finish, MartsInv,
                 BuiltInMarts, martVars
    <2> QED BY <1>0, <2>1 DEF MartsInv
  <1> QED BY <1>1, <1>2, <1>3, <1>4, <1>5 DEF MartsNext

LEMMA MartsInvariant == MartsSpec => []MartsInv
  <1>1. MartsInit => MartsInv
    BY DEF MartsInit, Init, MartsInv, BuiltInMarts
  <1> QED BY <1>1, MartsInvStep, PTL DEF MartsSpec

\* What the invariants of the layers say, without the mapping.
LEMMA PlainLayers ==
    ASSUME Coarse!LayerInv
    PROVE  /\ facts \subseteq Batch /\ silver \subseteq Batch
           /\ OnePerSecond(facts) /\ OnePerSecond(silver)
           /\ phase = "tests" =>
                /\ facts = silver
                /\ ListsSomebody(silver)
                /\ OpenRows = Source
  <1>1. Coarse!Batch = Batch
    BY DEF Coarse!Batch, Batch, Coarse!Export, Export, Coarse!Ts, Ts
  <1>2. facts \subseteq Batch /\ silver \subseteq Batch
    BY <1>1 DEF Coarse!LayerInv, Coarse!DimInv, Coarse!TypeOK
  <1>3. OnePerSecond(facts) /\ OnePerSecond(silver)
    BY DEF Coarse!LayerInv, Coarse!DimInv, Coarse!OnePerSecond, OnePerSecond
  <1>4. ASSUME phase = "tests" PROVE facts = silver /\ ListsSomebody(silver)
    BY <1>4 DEF Coarse!LayerInv, Coarse!ListsSomebody, ListsSomebody, Coarse!Newest, Newest,
               Coarse!Present, Present
  <1>5. Coarse!OpenRows = OpenRows
    BY DEF Coarse!OpenRows, OpenRows, Coarse!IsOpen, IsOpen, Coarse!Null, Null
  <1>6. Coarse!Source = Source
    BY DEF Coarse!Source, Source, Coarse!LatestRows, LatestRows, Coarse!Newest, Newest
  <1>7. ASSUME phase = "tests" PROVE OpenRows = Source
    BY <1>5, <1>6, <1>7 DEF Coarse!LayerInv, Coarse!DimInv, Coarse!CurrentIsLatest
  <1> QED BY <1>2, <1>3, <1>4, <1>7

-----------------------------------------------------------------------------
(***************************************************************************)
(* The spelling chosen for an employer is one of its own, so that          *)
(* different employers have different ones.                                *)
(***************************************************************************)

LEMMA LeastNatural ==
    ASSUME NEW T \in SUBSET Nat, T # {}
    PROVE  \E n \in T : \A m \in T : n <= m
  <1>1. PICK n \in T : \A m \in T : ~(<<m, n>> \in OpToRel(<, Nat))
    BY NatLessThanWellFounded, WFMin, Zenon
  <1>2. \A m \in T : m \in Nat /\ n \in Nat /\ ~(m < n)
    BY <1>1 DEF OpToRel
  <1> QED BY <1>2

\* The first of some labels in alphabetical order.
LEMMA FirstLabel ==
    ASSUME NEW L \in SUBSET Label, L # {}
    PROVE  \E l \in L : \A m \in L :
                alphabetical[l] <= alphabetical[m] /\ (m # l => alphabetical[l] < alphabetical[m])
  <1> DEFINE T == {alphabetical[l] : l \in L}
  <1>1. T \in SUBSET Nat /\ T # {}
    BY LabelAssumption
  <1>2. PICK n \in T : \A m \in T : n <= m
    BY <1>1, LeastNatural
  <1>3. PICK l \in L : n = alphabetical[l]
    OBVIOUS
  <1>4. ASSUME NEW m \in L
        PROVE  alphabetical[l] <= alphabetical[m] /\ (m # l => alphabetical[l] < alphabetical[m])
    <2>1. alphabetical[l] <= alphabetical[m] /\ alphabetical[l] \in Nat /\ alphabetical[m] \in Nat
      BY <1>1, <1>2, <1>3
    <2>2. m # l => alphabetical[l] # alphabetical[m]
      BY LabelAssumption
    <2> QED BY <2>1, <2>2
  <1> QED BY <1>4

LEMMA LabelsType ==
    ASSUME NEW b \in Batch
    PROVE  /\ Labels(b) \subseteq Label
           /\ \A c \in Present(b) : b.rows[c] \in Attribute
  <1>1. \A c \in Present(b) : b.rows[c] \in Attribute
    BY DEF Present, Batch, Export
  <1> QED BY <1>1, LabelAssumption DEF Labels, LabelOf

\* A snapshot's most frequent spelling of an employer exists.
LEMMA DisplayLabelOfKey ==
    ASSUME NEW b \in Batch, NEW k \in Employers(b)
    PROVE  DisplayLabel(b, k) \in Labels(b) /\ company_key[DisplayLabel(b, k)] = k
  <1> DEFINE L == {l \in Labels(b) : company_key[l] = k}
             n == Cardinality(Connection)
             rarer(l) == n - Cardinality(Spelling(b, l))
  <1>1. L \in SUBSET Label /\ L # {}
    BY LabelsType DEF Employers
  <1>2. ASSUME NEW l PROVE Cardinality(Spelling(b, l)) \in Nat /\ rarer(l) \in Nat
    <2>1. Spelling(b, l) \in SUBSET Connection
      BY DEF Spelling, Present
    <2>2. /\ IsFiniteSet(Spelling(b, l))
          /\ Cardinality(Spelling(b, l)) <= n
      BY <2>1, HistoryAssumption, FS_Subset
    <2> QED BY <2>2, HistoryAssumption, FS_CardinalityType
  <1> DEFINE T == {rarer(l) : l \in L}
  <1>3. PICK t \in T : \A u \in T : t <= u
    <2>1. T \in SUBSET Nat
      BY <1>2
    <2>2. T # {}
      BY <1>1
    <2> HIDE DEF T
    <2> QED BY <2>1, <2>2, LeastNatural
  <1> DEFINE M == {l \in L : rarer(l) = t}
  <1>4. M \in SUBSET Label /\ M # {}
    BY <1>1
  <1>5. PICK l \in M : \A m \in M :
            alphabetical[l] <= alphabetical[m] /\ (m # l => alphabetical[l] < alphabetical[m])
    BY <1>4, FirstLabel
  <1>6. ASSUME NEW m \in L, m # l
        PROVE  \/ Cardinality(Spelling(b, m)) < Cardinality(Spelling(b, l))
               \/ /\ Cardinality(Spelling(b, m)) = Cardinality(Spelling(b, l))
                  /\ alphabetical[l] < alphabetical[m]
    <2>1. n \in Nat
      BY HistoryAssumption, FS_CardinalityType
    <2>2. rarer(l) <= rarer(m) /\ rarer(l) = t
      BY <1>3
    <2>3. CASE rarer(m) = rarer(l)
      <3>1. alphabetical[l] < alphabetical[m]
        BY <1>5, <1>6, <2>2, <2>3
      <3>2. Cardinality(Spelling(b, m)) = Cardinality(Spelling(b, l))
        BY <1>2, <2>1, <2>3
      <3> QED BY <3>1, <3>2
    <2>4. CASE rarer(m) # rarer(l)
      BY <1>2, <2>1, <2>2, <2>4
    <2> QED BY <2>3, <2>4
  <1>7. \E x \in Labels(b) :
            /\ company_key[x] = k
            /\ \A m \in Labels(b) : company_key[m] = k /\ m # x =>
                \/ Cardinality(Spelling(b, m)) < Cardinality(Spelling(b, x))
                \/ /\ Cardinality(Spelling(b, m)) = Cardinality(Spelling(b, x))
                   /\ alphabetical[x] < alphabetical[m]
    BY <1>6
  <1> QED BY <1>7 DEF DisplayLabel

\* The newest snapshot's spelling of an employer exists.
LEMMA LatestLabelOfKey ==
    ASSUME NEW s \in SUBSET Batch, NEW d \in s, NEW k \in Employers(d)
    PROVE  /\ LatestLabel(s, k) \in Label /\ company_key[LatestLabel(s, k)] = k
           /\ \E b \in Newest({e \in s : k \in Employers(e)}) : LatestLabel(s, k) \in Labels(b)
  <1> DEFINE spelled == {b \in s : k \in Employers(b)}
             newest  == UNION {Labels(b) : b \in Newest(spelled)}
             T == {MaxTs - b.ts : b \in spelled}
             L == {l \in newest : company_key[l] = k}
  <1>1. \A b \in s : b.ts \in Nat /\ MaxTs - b.ts \in Nat /\ MaxTs \in Nat
    BY HistoryAssumption DEF Batch, Ts
  <1>2. PICK t \in T : \A u \in T : t <= u
    <2>1. T \in SUBSET Nat /\ T # {}
      BY <1>1
    <2> HIDE DEF T
    <2> QED BY <2>1, LeastNatural
  <1>3. PICK b \in spelled : t = MaxTs - b.ts
    OBVIOUS
  <1>4. b \in Newest(spelled)
    <2>1. ASSUME NEW x \in spelled PROVE x.ts <= b.ts
      <3>1. MaxTs - b.ts <= MaxTs - x.ts
        BY <1>2, <1>3
      <3> QED BY <1>1, <3>1
    <2> QED BY <2>1 DEF Newest
  <1>5. L \in SUBSET Label /\ L # {}
    <2>1. \A x \in Newest(spelled) : x \in Batch
      BY DEF Newest
    <2>2. newest \in SUBSET Label
      BY <2>1, LabelsType
    <2>3. \E l \in Labels(b) : company_key[l] = k
      BY DEF Employers
    <2> QED BY <1>4, <2>2, <2>3
  <1>6. PICK l \in L : \A m \in L :
            alphabetical[l] <= alphabetical[m] /\ (m # l => alphabetical[l] < alphabetical[m])
    BY <1>5, FirstLabel
  <1>7. \E x \in newest :
            /\ company_key[x] = k
            /\ \A m \in newest : company_key[m] = k => alphabetical[x] <= alphabetical[m]
    BY <1>6
  <1>8. LatestLabel(s, k) \in newest /\ company_key[LatestLabel(s, k)] = k
    BY <1>7 DEF LatestLabel
  <1> QED BY <1>5, <1>8

\* An employer that is counted and not shown makes one of difference.
LEMMA OneMore ==
    ASSUME NEW N, IsFiniteSet(N), NEW K \in SUBSET N, NEW x, N \ K \subseteq {x}
    PROVE  Cardinality(N) = Cardinality(K) + (IF x \in N /\ x \notin K THEN 1 ELSE 0)
  <1>1. IsFiniteSet(K) /\ Cardinality(K) \in Nat
    BY FS_Subset, FS_CardinalityType
  <1>2. CASE x \in N /\ x \notin K
    <2>1. N = K \cup {x}
      BY <1>2
    <2>2. Cardinality(K \cup {x}) = Cardinality(K) + 1
      BY <1>1, <1>2, FS_AddElement
    <2> QED BY <1>2, <2>1, <2>2
  <1>3. CASE ~(x \in N /\ x \notin K)
    <2>1. N = K
      BY <1>3
    <2> QED BY <1>1, <1>3, <2>1
  <1> QED BY <1>2, <1>3

\* A second has a lookalike of the undisclosed just when their key counts as an employer.
LEMMA LookalikeCounts ==
    ASSUME OnePerSecond(facts), NEW b \in facts
    PROVE  Lookalike(b.ts) <=> company_key[Unknown] \in NamedEmployers(b)
  <1>1. \A d \in facts : d.ts = b.ts => d = b
    BY DEF OnePerSecond
  <1> QED BY <1>1 DEF Lookalike, NamedEmployers

-----------------------------------------------------------------------------
(***************************************************************************)
(* What the tabs count agrees.                                             *)
(***************************************************************************)

\* Two sets of which one names the elements of the other, each by another name,
\* are of one size.
LEMMA SameSize ==
    ASSUME NEW S, IsFiniteSet(S), NEW f, DOMAIN f = S, f = [x \in S |-> f[x]],
           \A x, y \in S : f[x] = f[y] => x = y
    PROVE  Cardinality({f[x] : x \in S}) = Cardinality(S)
  <1> DEFINE T == {f[x] : x \in S}
  <1>1. f \in Bijection(S, T)
    BY DEF Bijection, Injection, Surjection, IsInjective
  <1> QED BY <1>1, FS_Bijection DEF ExistsBijection

LEMMA EmployersFinite ==
    ASSUME NEW b
    PROVE  IsFiniteSet(Employers(b))
  <1> DEFINE f == [c \in Present(b) |-> KeyOf(b.rows[c])]
  <1>1. IsFiniteSet(Present(b))
    BY HistoryAssumption, FS_Subset DEF Present
  <1>2. Employers(b) = {KeyOf(b.rows[c]) : c \in Present(b)}
    BY DEF Employers, Labels, KeyOf
  <1>3. f \in Surjection(Present(b), Employers(b))
    BY <1>2 DEF Surjection
  <1> QED BY <1>1, <1>3, FS_Surjection

LEMMA NamedFinite ==
    ASSUME NEW b
    PROVE  IsFiniteSet(NamedEmployers(b))
  <1>1. NamedEmployers(b) \in SUBSET Employers(b)
    BY DEF NamedEmployers, Employers
  <1> QED BY <1>1, EmployersFinite, FS_Subset

\* The "Companies" metric and the bars of "Top companies" are as many, in every
\* snapshot and however employers are spelled, but for one that takes the name of the
\* undisclosed.
THEOREM CountsAgree == MartsSpec => []CompanyCountsAgree
  <1>1. MartsInv /\ Coarse!LayerInv => CompanyCountsAgree
    <2> DEFINE Names(t) == {x.value : x \in {y \in breakdown : y.ts = t}}
    <2> SUFFICES ASSUME MartsInv, Coarse!LayerInv, phase = "tests", NEW r \in stats
                 PROVE  r.distinct_companies
                            = Cardinality(NamedBars(r.ts)) + Hidden(r.ts, Names(r.ts))
      BY DEF CompanyCountsAgree
    <2>1. /\ stats = StatsOf(facts) /\ breakdown = ByCompany(facts)
          /\ facts \subseteq Batch /\ OnePerSecond(facts)
      BY PlainLayers DEF MartsInv
    <2>2. PICK b \in facts : /\ r.ts = b.ts
                             /\ r.distinct_companies = Cardinality(NamedEmployers(b))
      BY <2>1 DEF StatsOf
    <2> DEFINE Bar(k) == [ts |-> b.ts, value |-> DisplayLabel(b, k),
                          count |-> Cardinality(AtEmployer(b, k))]
               K == {k \in Employers(b) : DisplayLabel(b, k) # Unknown}
               f == [k \in K |-> Bar(k)]
               none == company_key[Unknown]
    <2>3. ASSUME NEW k \in Employers(b)
          PROVE  DisplayLabel(b, k) \in Labels(b) /\ company_key[DisplayLabel(b, k)] = k
      BY <2>1, DisplayLabelOfKey
    <2>4. ASSUME NEW x
          PROVE  x \in breakdown /\ x.ts = r.ts <=> \E k \in Employers(b) : x = Bar(k)
      <3>1. ASSUME x \in breakdown, x.ts = r.ts PROVE \E k \in Employers(b) : x = Bar(k)
        <4>1. PICK d \in facts :
                \E k \in Employers(d) :
                    x = [ts |-> d.ts, value |-> DisplayLabel(d, k),
                         count |-> Cardinality(AtEmployer(d, k))]
          BY <2>1, <3>1 DEF ByCompany
        <4>2. d = b
          BY <2>1, <2>2, <3>1, <4>1 DEF OnePerSecond
        <4> QED BY <4>1, <4>2
      <3>2. ASSUME NEW k \in Employers(b), x = Bar(k) PROVE x \in breakdown /\ x.ts = r.ts
        BY <2>1, <2>2, <3>2 DEF ByCompany
      <3> QED BY <3>1, <3>2
    <2>5. NamedBars(r.ts) = {f[k] : k \in K}
      <3>1. ASSUME NEW x
            PROVE  x \in NamedBars(r.ts) <=> \E k \in K : x = Bar(k)
        <4>1. \A k : Bar(k).value = DisplayLabel(b, k)
          OBVIOUS
        <4> HIDE DEF Bar
        <4> QED BY <2>4, <4>1 DEF NamedBars
      <3>2. \A k \in K : f[k] = Bar(k)
        OBVIOUS
      <3> HIDE DEF K, f, Bar
      <3> QED BY <3>1, <3>2
    <2>6. Cardinality({f[k] : k \in K}) = Cardinality(K)
      <3>1. \A k, m \in K : f[k] = f[m] => k = m
        <4> SUFFICES ASSUME NEW k \in K, NEW m \in K, f[k] = f[m] PROVE k = m
          OBVIOUS
        <4>1. f[k].value = DisplayLabel(b, k) /\ f[m].value = DisplayLabel(b, m)
          OBVIOUS
        <4> QED BY <2>3, <4>1
      <3>2. IsFiniteSet(K)
        BY EmployersFinite, FS_Subset
      <3>3. DOMAIN f = K /\ f = [k \in K |-> f[k]]
        OBVIOUS
      <3> HIDE DEF K, f
      <3> QED BY <3>1, <3>2, <3>3, SameSize
    <2>7. K \in SUBSET NamedEmployers(b) /\ NamedEmployers(b) \ K \subseteq {none}
      <3>1. NamedEmployers(b) \in SUBSET Employers(b)
        BY DEF NamedEmployers, Employers
      <3> QED BY <2>3, <3>1 DEF NamedEmployers
    <2>8. none \in NamedEmployers(b) /\ none \notin K
            <=> Lookalike(r.ts) /\ Unknown \in Names(r.ts)
      <3>1. Lookalike(r.ts) <=> none \in NamedEmployers(b)
        BY <2>1, <2>2, LookalikeCounts
      <3>2. none \in NamedEmployers(b) => none \in Employers(b)
        BY DEF NamedEmployers, Employers
      <3>3. Unknown \in Names(r.ts) <=> \E k \in Employers(b) : DisplayLabel(b, k) = Unknown
        <4>1. \A k : Bar(k).value = DisplayLabel(b, k)
          OBVIOUS
        <4> HIDE DEF Bar
        <4> QED BY <2>4, <4>1
      <3>4. \A k \in Employers(b) : DisplayLabel(b, k) = Unknown => k = none
        BY <2>3
      <3> HIDE DEF Names, none
      <3> QED BY <3>1, <3>2, <3>3, <3>4
    <2>9. Cardinality(NamedEmployers(b)) =
            Cardinality(K) + (IF none \in NamedEmployers(b) /\ none \notin K THEN 1 ELSE 0)
      <3>1. IsFiniteSet(NamedEmployers(b))
        BY NamedFinite
      <3> HIDE DEF K, none
      <3> QED BY <2>7, <3>1, OneMore
    <2> HIDE DEF K, f, none, Names
    <2> QED BY <2>2, <2>5, <2>6, <2>8, <2>9 DEF Hidden
  <1> QED BY <1>1, MartsInvariant, CoarseLayers, PTL

\* The newest export is what history and the tabs have as current.
LEMMA CurrentRows ==
    ASSUME Coarse!LayerInv, phase = "tests"
    PROVE  \E b \in silver :
                /\ b \in Batch /\ Present(b) # {}
                /\ \A d \in silver : d.ts <= b.ts /\ (d.ts = b.ts => d = b)
                /\ OpenRows = {<<c, b.rows[c]>> : c \in Present(b)}
  <1>1. /\ silver \subseteq Batch /\ OnePerSecond(silver)
        /\ ListsSomebody(silver) /\ OpenRows = Source
    BY PlainLayers
  <1>2. PICK b \in Newest(silver) : Present(b) # {}
    BY <1>1 DEF ListsSomebody
  <1>3. b \in silver /\ b \in Batch /\ \A d \in silver : d.ts <= b.ts
    BY <1>1 DEF Newest
  <1>4. \A d \in silver : d.ts = b.ts => d = b
    BY <1>1, <1>3 DEF OnePerSecond
  <1>5. Newest(silver) = {b}
    BY <1>1, <1>2, NewestIsOne
  <1>6. Source = {<<c, b.rows[c]>> : c \in Present(b)}
    BY <1>5 DEF Source, LatestRows, Present
  <1> QED BY <1>1, <1>2, <1>3, <1>4, <1>6

\* dim_company has one row for each employer of an export, with a name of its own.
LEMMA OneCompany ==
    ASSUME silver \subseteq Batch, companies = CompaniesOf(silver)
    PROVE  /\ \A x \in companies :
                /\ x.name = LatestLabel(silver, x.key)
                /\ x.current = Cardinality(CurrentAt(x.key))
                /\ company_key[x.name] = x.key
           /\ \A d \in silver : \A k \in Employers(d) :
                /\ \E x \in companies : x.key = k
                /\ LatestLabel(silver, k) \in Label
                /\ company_key[LatestLabel(silver, k)] = k
  <1>1. ASSUME NEW d \in silver, NEW k \in Employers(d)
        PROVE  /\ \E x \in companies : x.key = k
               /\ LatestLabel(silver, k) \in Label
               /\ company_key[LatestLabel(silver, k)] = k
    <2>1. k \in UNION {Employers(e) : e \in silver}
      OBVIOUS
    <2> DEFINE x == [key |-> k, name |-> LatestLabel(silver, k),
                     current |-> Cardinality(CurrentAt(k))]
    <2>2. x \in companies /\ x.key = k
      BY <2>1 DEF CompaniesOf
    <2> QED BY <2>2, LatestLabelOfKey
  <1>2. ASSUME NEW x \in companies
        PROVE  /\ x.name = LatestLabel(silver, x.key)
               /\ x.current = Cardinality(CurrentAt(x.key))
               /\ company_key[x.name] = x.key
    <2>1. PICK k \in UNION {Employers(e) : e \in silver} :
            x = [key |-> k, name |-> LatestLabel(silver, k),
                 current |-> Cardinality(CurrentAt(k))]
      BY DEF CompaniesOf
    <2>2. PICK d \in silver : k \in Employers(d)
      OBVIOUS
    <2> QED BY <1>1, <2>1, <2>2
  <1> QED BY <1>1, <1>2

\* The Network Stats and Companies tabs agree on the employers there are and on the
\* people at each of them, whichever spelling each of the two has for an employer; one
\* that takes the name of the undisclosed is the only exception.
THEOREM TabsAgree == MartsSpec => []EmployersAgree
  <1>1. MartsInv /\ Coarse!LayerInv => EmployersAgree
    <2> DEFINE names == UNION {company_name(row[2]) : row \in OpenRows}
    <2> SUFFICES ASSUME MartsInv, Coarse!LayerInv, phase = "tests"
                 PROVE  /\ \A r \in Latest(stats) :
                            /\ r.distinct_companies = Cardinality(Reachable) + Hidden(r.ts, names)
                            /\ Cardinality(employer_sizes)
                                = r.distinct_companies
                                    + (IF NamedUnknown /\ ~Lookalike(r.ts) THEN 1 ELSE 0)
                        /\ \A x \in companies :
                            /\ x.current = Cardinality(CurrentAt(x.key))
                            /\ x.name # Unknown => Reach(x.name) = x.current
      BY DEF EmployersAgree
    <2>1. /\ stats = StatsOf(silver) /\ companies = CompaniesOf(silver)
          /\ silver \subseteq Batch /\ facts = silver /\ OnePerSecond(facts)
      BY PlainLayers DEF MartsInv
    <2>2. PICK b \in silver :
            /\ b \in Batch /\ Present(b) # {}
            /\ \A d \in silver : d.ts <= b.ts /\ (d.ts = b.ts => d = b)
            /\ OpenRows = {<<c, b.rows[c]>> : c \in Present(b)}
      BY CurrentRows
    <2>3. Employers(b) = {KeyOf(b.rows[c]) : c \in Present(b)}
      BY DEF Employers, Labels, KeyOf
    <2> DEFINE N == NamedEmployers(b)
               K == {k \in Employers(b) : LatestLabel(silver, k) # Unknown}
               f == [k \in K |-> LatestLabel(silver, k)]
               none == company_key[Unknown]
    <2>4. /\ \A row \in OpenRows : \E c \in Present(b) : row[2] = b.rows[c]
          /\ \A c \in Present(b) : <<c, b.rows[c]>> \in OpenRows
      BY <2>2
    <2>5. /\ N \in SUBSET employer_sizes /\ employer_sizes \ N \subseteq {none}
          /\ none \in employer_sizes /\ none \notin N <=> NamedUnknown /\ none \notin N
          /\ employer_sizes \in SUBSET Employers(b)
      <3>1. ASSUME NEW k \in N PROVE k \in employer_sizes
        <4>1. PICK c \in Present(b) : LabelOf(b.rows[c]) # Unknown /\ k = KeyOf(b.rows[c])
          BY DEF NamedEmployers, Labels, KeyOf
        <4>2. b.rows[c] \notin Blank
          BY <4>1, LabelAssumption DEF LabelOf
        <4> DEFINE row == <<c, b.rows[c]>>
        <4>3. row \in OpenRows /\ row[2] = b.rows[c]
          BY <2>4
        <4> HIDE DEF row
        <4> QED BY <4>1, <4>2, <4>3 DEF employer_sizes
      <3>2. ASSUME NEW k \in employer_sizes
            PROVE  k \in Employers(b) /\ (k \in N \/ (k = none /\ NamedUnknown))
        <4>1. PICK row \in OpenRows : row[2] \notin Blank /\ k = KeyOf(row[2])
          BY DEF employer_sizes
        <4>2. PICK c \in Present(b) : row[2] = b.rows[c]
          BY <2>4
        <4>3. k \in Employers(b)
          BY <2>3, <4>1, <4>2
        <4>4. CASE LabelOf(row[2]) = Unknown
          BY <4>1, <4>3, <4>4 DEF NamedUnknown, KeyOf
        <4>5. CASE LabelOf(row[2]) # Unknown
          BY <4>1, <4>2, <4>3, <4>5 DEF NamedEmployers, Labels, KeyOf
        <4> QED BY <4>4, <4>5
      <3>3. ASSUME NamedUnknown PROVE none \in employer_sizes
        BY <3>3 DEF NamedUnknown, employer_sizes, KeyOf
      <3> HIDE DEF N, none
      <3> QED BY <3>1, <3>2, <3>3
    <2>6. ASSUME NEW r \in Latest(stats)
          PROVE  /\ r.distinct_companies = Cardinality(N)
                 /\ Lookalike(r.ts) <=> none \in N
      <3>1. PICK d \in silver : /\ r.ts = d.ts
                               /\ r.distinct_companies = Cardinality(NamedEmployers(d))
        BY <2>1 DEF Latest, StatsOf
      <3>2. \E q \in stats : q.ts = b.ts
        <4> DEFINE q == [ts |-> b.ts,
                         total |-> total_connections(b),
                         distinct_companies |-> Cardinality(NamedEmployers(b)),
                         without_company |-> Cardinality(Undisclosed(b)) + RestrictedRows[b.ts]]
        <4>1. q \in stats /\ q.ts = b.ts
          BY <2>1, <2>2 DEF StatsOf
        <4> QED BY <4>1
      <3>3. b.ts <= d.ts /\ d.ts <= b.ts
        BY <2>2, <3>1, <3>2 DEF Latest
      <3>4. b.ts \in Nat /\ d.ts \in Nat
        BY <2>1, HistoryAssumption DEF Batch, Ts
      <3>5. d = b
        BY <2>2, <3>3, <3>4
      <3> QED BY <2>1, <3>1, <3>5, LookalikeCounts
    <2>7. ASSUME NEW c \in Present(b)
          PROVE  /\ KeyOf(b.rows[c]) \in Employers(b)
                 /\ company_name(b.rows[c]) = {LatestLabel(silver, KeyOf(b.rows[c]))}
      <3>1. KeyOf(b.rows[c]) \in Employers(b)
        BY <2>3
      <3> QED BY <2>1, <3>1, OneCompany DEF company_name
    <2>8. /\ K \in SUBSET N /\ N \ K \subseteq {none}
          /\ \A k \in Employers(b) : LatestLabel(silver, k) = Unknown => k = none
          /\ N \in SUBSET Employers(b)
      <3>1. ASSUME NEW k \in Employers(b)
            PROVE  LatestLabel(silver, k) \in Labels(b) /\ company_key[LatestLabel(silver, k)] = k
        <4>1. PICK d \in Newest({e \in silver : k \in Employers(e)}) :
                LatestLabel(silver, k) \in Labels(d)
          BY <2>1, LatestLabelOfKey
        <4>2. d \in silver /\ b.ts <= d.ts /\ d.ts <= b.ts /\ b.ts \in Nat /\ d.ts \in Nat
          BY <2>1, <2>2, HistoryAssumption DEF Newest, Batch, Ts
        <4> QED BY <2>1, <2>2, <4>1, <4>2, LatestLabelOfKey
      <3>2. N \in SUBSET Employers(b)
        BY DEF NamedEmployers, Employers
      <3>3. ASSUME NEW k \in K PROVE k \in N
        BY <3>1 DEF NamedEmployers
      <3>4. ASSUME NEW k \in Employers(b), LatestLabel(silver, k) = Unknown PROVE k = none
        BY <3>1, <3>4
      <3> HIDE DEF N, none
      <3> QED BY <3>2, <3>3, <3>4
    <2>9. Reachable = {f[k] : k \in K}
      <3>1. ASSUME NEW l
            PROVE  l \in Reachable <=>
                        l # Unknown /\ \E row \in OpenRows : l \in company_name(row[2])
        BY DEF Reachable
      <3>2. K \subseteq Employers(b)
        OBVIOUS
      <3>3. ASSUME NEW l
            PROVE  l \in Reachable <=>
                        l # Unknown /\ \E k \in Employers(b) : l = LatestLabel(silver, k)
        <4>1. (\E row \in OpenRows : l \in company_name(row[2]))
                <=> (\E c \in Present(b) : l \in company_name(b.rows[c]))
          <5>1. ASSUME NEW row \in OpenRows, l \in company_name(row[2])
                PROVE  \E c \in Present(b) : l \in company_name(b.rows[c])
            <6>1. PICK c \in Present(b) : row[2] = b.rows[c]
              BY <2>4
            <6>2. l \in company_name(b.rows[c])
              BY <5>1, <6>1
            <6> QED BY <6>2
          <5>2. ASSUME NEW c \in Present(b), l \in company_name(b.rows[c])
                PROVE  \E row \in OpenRows : l \in company_name(row[2])
            <6> DEFINE row == <<c, b.rows[c]>>
            <6>1. row \in OpenRows /\ row[2] = b.rows[c]
              BY <2>4
            <6> QED BY <5>2, <6>1
          <5> QED BY <5>1, <5>2
        <4>2. \A c \in Present(b) :
                l \in company_name(b.rows[c]) <=> l = LatestLabel(silver, KeyOf(b.rows[c]))
          BY <2>7
        <4>3. (\E c \in Present(b) : l = LatestLabel(silver, KeyOf(b.rows[c])))
                <=> (\E k \in Employers(b) : l = LatestLabel(silver, k))
          BY <2>3
        <4> QED BY <3>1, <4>1, <4>2, <4>3
      <3>4. \A k \in K : f[k] = LatestLabel(silver, k)
        OBVIOUS
      <3>5. \A k \in Employers(b) : k \in K <=> LatestLabel(silver, k) # Unknown
        OBVIOUS
      <3> HIDE DEF K, f
      <3> QED BY <3>2, <3>3, <3>4, <3>5
    <2>10. Cardinality(Reachable) = Cardinality(K)
      <3>1. IsFiniteSet(K)
        BY EmployersFinite, FS_Subset
      <3>2. DOMAIN f = K /\ f = [k \in K |-> f[k]]
        OBVIOUS
      <3>3. \A k, m \in K : f[k] = f[m] => k = m
        <4>1. \A k \in K : company_key[f[k]] = k
          BY <2>1, OneCompany
        <4> QED BY <4>1
      <3> HIDE DEF K, f
      <3> QED BY <2>9, <3>1, <3>2, <3>3, SameSize
    <2>n. Unknown \in names <=> \E k \in Employers(b) : LatestLabel(silver, k) = Unknown
      <3>1. ASSUME NEW row \in OpenRows, Unknown \in company_name(row[2])
            PROVE  \E k \in Employers(b) : LatestLabel(silver, k) = Unknown
        BY <2>4, <2>7, <3>1
      <3>2. ASSUME NEW k \in Employers(b), LatestLabel(silver, k) = Unknown
            PROVE  \E row \in OpenRows : Unknown \in company_name(row[2])
        <4>1. PICK c \in Present(b) : k = KeyOf(b.rows[c])
          BY <2>3
        <4> DEFINE row == <<c, b.rows[c]>>
        <4>2. row \in OpenRows /\ row[2] = b.rows[c]
          BY <2>4
        <4> HIDE DEF row
        <4>3. Unknown \in company_name(row[2])
          BY <2>7, <3>2, <4>1, <4>2
        <4> QED BY <4>2, <4>3
      <3> QED BY <3>1, <3>2
    <2>h. ASSUME NEW r \in Latest(stats)
          PROVE  /\ r.distinct_companies = Cardinality(Reachable) + Hidden(r.ts, names)
                 /\ Cardinality(employer_sizes)
                        = r.distinct_companies
                            + (IF NamedUnknown /\ ~Lookalike(r.ts) THEN 1 ELSE 0)
      <3>1. none \in N /\ none \notin K <=> Lookalike(r.ts) /\ Unknown \in names
        <4>1. \A k \in Employers(b) : k \in K <=> LatestLabel(silver, k) # Unknown
          OBVIOUS
        <4> HIDE DEF K, N, names, none
        <4> QED BY <2>6, <2>8, <2>n, <4>1
      <3>2. IsFiniteSet(N) /\ IsFiniteSet(employer_sizes)
        BY <2>5, NamedFinite, EmployersFinite, FS_Subset
      <3> HIDE DEF K, N, none, names
      <3>3. Cardinality(N) = Cardinality(K) + (IF none \in N /\ none \notin K THEN 1 ELSE 0)
        BY <2>8, <3>2, OneMore
      <3>4. Cardinality(employer_sizes) = Cardinality(N)
                + (IF none \in employer_sizes /\ none \notin N THEN 1 ELSE 0)
        BY <2>5, <3>2, OneMore
      <3>5. r.distinct_companies = Cardinality(Reachable) + Hidden(r.ts, names)
        BY <2>6, <2>10, <3>1, <3>3 DEF Hidden
      <3>6. none \in employer_sizes /\ none \notin N <=> NamedUnknown /\ ~Lookalike(r.ts)
        BY <2>5, <2>6
      <3> QED BY <2>6, <3>4, <3>5, <3>6
    <2>11. ASSUME NEW x \in companies
           PROVE  /\ x.current = Cardinality(CurrentAt(x.key))
                  /\ Reach(x.name) = x.current
      <3>1. /\ x.name = LatestLabel(silver, x.key)
            /\ x.current = Cardinality(CurrentAt(x.key))
            /\ company_key[x.name] = x.key
        BY <2>1, OneCompany
      <3>2. ASSUME NEW c \in Present(b)
            PROVE  x.name \in company_name(b.rows[c]) <=> KeyOf(b.rows[c]) = x.key
        BY <2>1, <2>7, <3>1, OneCompany
      <3>3. \A row \in OpenRows : x.name \in company_name(row[2]) <=> KeyOf(row[2]) = x.key
        BY <2>2, <3>2
      <3>4. Reach(x.name) = Cardinality(CurrentAt(x.key))
        BY <3>3 DEF Reach, CurrentAt
      <3> QED BY <3>1, <3>4
    <2> QED BY <2>h, <2>11
  <1> QED BY <1>1, MartsInvariant, CoarseLayers, PTL

\* What the models make has the columns of their tables.
LEMMA RowsType ==
    ASSUME NEW s \in SUBSET Batch
    PROVE  StatsOf(s) \subseteq StatsRow /\ ByCompany(s) \subseteq BreakdownRow
  <1>1. \A S \in SUBSET Connection : Cardinality(S) \in Nat
    BY HistoryAssumption, FS_Subset, FS_CardinalityType
  <1>2. ASSUME NEW q \in StatsOf(s) PROVE q \in StatsRow
    <2>1. PICK b \in s :
            q = [ts |-> b.ts,
                 total |-> total_connections(b),
                 distinct_companies |-> Cardinality(NamedEmployers(b)),
                 without_company |-> Cardinality(Undisclosed(b)) + RestrictedRows[b.ts]]
      BY DEF StatsOf
    <2>2. b.ts \in Ts
      BY DEF Batch
    <2>3. total_connections(b) \in Nat /\ Cardinality(Undisclosed(b)) \in Nat
      BY <1>1 DEF total_connections, Present, Undisclosed
    <2>4. Cardinality(NamedEmployers(b)) \in Nat
      BY NamedFinite, FS_CardinalityType
    <2>5. RestrictedRows[b.ts] \in Nat
      BY <2>2, LabelAssumption
    <2> QED BY <2>1, <2>2, <2>3, <2>4, <2>5 DEF StatsRow
  <1>3. ASSUME NEW q \in ByCompany(s) PROVE q \in BreakdownRow
    <2>1. PICK b \in s :
            \E k \in Employers(b) :
                q = [ts |-> b.ts, value |-> DisplayLabel(b, k),
                     count |-> Cardinality(AtEmployer(b, k))]
      BY DEF ByCompany
    <2>2. PICK k \in Employers(b) :
            q = [ts |-> b.ts, value |-> DisplayLabel(b, k),
                 count |-> Cardinality(AtEmployer(b, k))]
      BY <2>1
    <2>3. b.ts \in Ts /\ Cardinality(AtEmployer(b, k)) \in Nat
      BY <1>1 DEF Batch, AtEmployer, Present
    <2>4. DisplayLabel(b, k) \in Label
      BY DisplayLabelOfKey, LabelsType
    <2> QED BY <2>2, <2>3, <2>4 DEF BreakdownRow
  <1> QED BY <1>2, <1>3

LEMMA CompaniesType ==
    ASSUME TypeOK
    PROVE  CompaniesOf(silver) \subseteq CompanyRow
  <1> SUFFICES ASSUME NEW q \in CompaniesOf(silver) PROVE q \in CompanyRow
    OBVIOUS
  <1>1. PICK k \in UNION {Employers(e) : e \in silver} :
          q = [key |-> k, name |-> LatestLabel(silver, k),
               current |-> Cardinality(CurrentAt(k))]
    BY DEF CompaniesOf
  <1>2. PICK d \in silver : k \in Employers(d)
    OBVIOUS
  <1>3. silver \in SUBSET Batch
    BY DEF TypeOK
  <1>4. LatestLabel(silver, k) \in Label
    BY <1>2, <1>3, LatestLabelOfKey
  <1>5. k \in Keys
    BY <1>2, <1>3, LabelsType DEF Employers, Keys
  <1>6. Cardinality(CurrentAt(k)) \in Nat
    BY HistoryAssumption, FS_Subset, FS_CardinalityType DEF CurrentAt
  <1> QED BY <1>1, <1>4, <1>5, <1>6 DEF CompanyRow

LEMMA TypeOfSame ==
    ASSUME Coarse!LayerInv
    PROVE  TypeOK
  <1>1. Coarse!Batch = Batch
    BY DEF Coarse!Batch, Batch, Coarse!Export, Export, Coarse!Ts, Ts
  <1>2. Coarse!Version = Version
    BY DEF Coarse!Version, Version
  <1> QED BY <1>1, <1>2
          DEF Coarse!LayerInv, Coarse!DimInv, Coarse!TypeOK, TypeOK, Coarse!Phase, Phase

\* The tables of the marts have the columns the tabs read, whatever runs were given
\* up between two of them.
THEOREM MartsTyped == MartsSpec => []MartsTypeOK
  <1>1. MartsInit /\ TypeOK => MartsTypeOK
    BY DEF MartsInit, MartsTypeOK
  <1>2. MartsTypeOK /\ TypeOK' /\ [MartsNext]_allVars => MartsTypeOK'
    <2> SUFFICES ASSUME MartsTypeOK, TypeOK', [MartsNext]_allVars PROVE MartsTypeOK'
      OBVIOUS
    <2>1. TypeOK /\ facts \in SUBSET Batch
      BY DEF MartsTypeOK, TypeOK
    <2>2. UNCHANGED martVars => MartsTypeOK'
      BY DEF martVars, MartsTypeOK
    <2>3. CASE BuildFct \/ MartsDone \/ GiveUpRun
      BY <2>3 DEF BuildFct, MartsDone, GiveUpRun, MartsTypeOK, Model
    <2>4. CASE BuildStats
      BY <2>1, <2>4, RowsType DEF BuildStats, MartsTypeOK, Model
    <2>5. CASE BuildBreakdown
      BY <2>1, <2>5, RowsType DEF BuildBreakdown, MartsTypeOK, Model
    <2>6. CASE BuildCompanies
      BY <2>1, <2>6, CompaniesType DEF BuildCompanies, MartsTypeOK, Model
    <2>7. CASE UNCHANGED allVars
      BY <2>2, <2>7 DEF allVars, martVars
    <2> QED BY <2>2, <2>3, <2>4, <2>5, <2>6, <2>7 DEF MartsNext
  <1>3. Coarse!LayerInv => TypeOK
    BY TypeOfSame
  <1> QED BY <1>1, <1>2, <1>3, CoarseLayers, PTL DEF MartsSpec

\* After a whole run, everybody history knows of is listed by the newest snapshot
\* or by "Connections absent from the latest export", and nobody by both.
THEOREM DepartedStayAbsent == MartsSpec => []DepartedAreAbsent
  <1>1. Coarse!FactsAgreeWithDimension => DepartedAreAbsent
    <2> SUFFICES ASSUME Coarse!FactsAgreeWithDimension, phase = "tests"
                 PROVE  LET listed == UNION {Present(b) : b \in Newest(FactSnapshots)}
                        IN  /\ Departed \cap listed = {}
                            /\ {v.id : v \in dim} = Departed \cup listed
      BY DEF DepartedAreAbsent
    <2>1. CurrentConnections = UNION {Present(b) : b \in Newest(FactSnapshots)}
      <3>1. /\ Coarse!CurrentConnections = CurrentConnections
            /\ Coarse!FactSnapshots = FactSnapshots
        BY DEF Coarse!CurrentConnections, CurrentConnections, Coarse!IsOpen, IsOpen,
               Coarse!Null, Null, Coarse!FactSnapshots, FactSnapshots, Coarse!Present, Present
      <3> QED BY <3>1 DEF Coarse!FactsAgreeWithDimension, Coarse!Newest, Newest,
                         Coarse!Present, Present
    <2> QED BY <2>1 DEF Departed, CurrentConnections
  <1>2. Coarse!HistoryAssumption
    BY HistoryAssumption DEF HistoryAssumption, Coarse!HistoryAssumption, IsFiniteSet,
       Coarse!IsFiniteSet
  <1>3. Coarse!Spec => []Coarse!FactsAgreeWithDimension
    BY <1>2, Coarse!FactsAgree
  <1> QED BY <1>1, <1>3, SameSpec, MartsImplementHistory, PTL DEF ImplementsHistory

-----------------------------------------------------------------------------
(***************************************************************************)
(* A sum of counts.                                                        *)
(***************************************************************************)

\* One step of MapThenSumSet: what is chosen first, and the rest.
Chosen(s) == CHOOSE x \in s : TRUE

SumsUp(S, iter) ==
    iter = [s \in SUBSET S |->
                IF s = {} THEN 0 ELSE Chosen(s).count + iter[s \ {Chosen(s)}]]

\* There is at most one such function on a finite set: of two that differ, take a
\* smallest set on which they do.
LEMMA SumIsUnique ==
    ASSUME NEW S, IsFiniteSet(S), NEW f, NEW g, SumsUp(S, f), SumsUp(S, g)
    PROVE  f = g
  <1>1. /\ f = [s \in SUBSET S |-> f[s]]
        /\ g = [s \in SUBSET S |-> g[s]]
    BY DEF SumsUp
  <1>2. ASSUME NEW s \in SUBSET S, f[s] # g[s] PROVE FALSE
    <2> DEFINE D == {t \in SUBSET S : f[t] # g[t]}
               T == {Cardinality(t) : t \in D}
    <2>1. \A t \in SUBSET S : IsFiniteSet(t) /\ Cardinality(t) \in Nat
      BY FS_Subset, FS_CardinalityType
    <2>2. T \in SUBSET Nat /\ T # {}
      BY <1>2, <2>1
    <2>3. PICK n \in T : \A m \in T : n <= m
      <3> HIDE DEF T
      <3> QED BY <2>2, LeastNatural
    <2>4. PICK t \in D : n = Cardinality(t)
      OBVIOUS
    <2>5. CASE t = {}
      BY <2>4, <2>5 DEF SumsUp
    <2>6. CASE t # {}
      <3> DEFINE x == Chosen(t)
                 u == t \ {x}
      <3>1. x \in t
        BY <2>6 DEF Chosen
      <3> HIDE DEF x
      <3>2. u \in SUBSET S /\ Cardinality(u) = n - 1
        BY <2>1, <2>4, <3>1, FS_RemoveElement
      <3>3. u \notin D
        <4>1. u \in D => Cardinality(u) \in T
          OBVIOUS
        <4> QED BY <2>2, <2>3, <3>2, <4>1
      <3>4. f[t] = x.count + f[u] /\ g[t] = x.count + g[u]
        BY <2>4, <2>6 DEF SumsUp, x
      <3> QED BY <2>4, <3>2, <3>3, <3>4
    <2> QED BY <2>5, <2>6
  <1> QED BY <1>1, <1>2

LEMMA SumIsChosen ==
    ASSUME NEW S, IsFiniteSet(S), NEW g, SumsUp(S, g)
    PROVE  FSE!MapThenSumSet(LAMBDA x : x.count, S) = g[S]
  <1>1. FSE!MapThenSumSet(LAMBDA x : x.count, S) = (CHOOSE iter : SumsUp(S, iter))[S]
    BY DEF FSE!MapThenSumSet, FSE!MapThenFoldSet, SumsUp, Chosen
  <1>2. SumsUp(S, CHOOSE iter : SumsUp(S, iter))
    OBVIOUS
  <1> QED BY <1>1, <1>2, SumIsUnique

\* Counts of disjoint sets of people sum up to the count of all of them.
LEMMA CountsOfDisjointSets ==
    ASSUME NEW S, IsFiniteSet(S), NEW who,
           \A x \in S : IsFiniteSet(who[x]) /\ x.count = Cardinality(who[x]),
           \A x, y \in S : x # y => who[x] \cap who[y] = {}
    PROVE  FSE!MapThenSumSet(LAMBDA x : x.count, S) = Cardinality(UNION {who[x] : x \in S})
  <1> DEFINE Of(s) == UNION {who[x] : x \in s}
             g == [s \in SUBSET S |-> Cardinality(Of(s))]
  <1>1. ASSUME NEW s \in SUBSET S PROVE IsFiniteSet(Of(s))
    <2>1. IsFiniteSet({who[x] : x \in s})
      <3> DEFINE h == [x \in s |-> who[x]]
                 W == {who[x] : x \in s}
      <3>1. h \in Surjection(s, W)
        BY DEF Surjection
      <3>2. IsFiniteSet(s)
        BY FS_Subset
      <3> HIDE DEF h, W
      <3>3. IsFiniteSet(W)
        BY <3>1, <3>2, FS_Surjection
      <3> QED BY <3>3 DEF W
    <2>2. \A w \in {who[x] : x \in s} : IsFiniteSet(w)
      OBVIOUS
    <2> QED BY <2>1, <2>2, FS_UNION
  <1>2. ASSUME NEW s \in SUBSET S, s # {}
        PROVE  Cardinality(Of(s)) = Chosen(s).count + Cardinality(Of(s \ {Chosen(s)}))
    <2> DEFINE x == Chosen(s)
               u == s \ {x}
    <2>1. x \in s
      BY <1>2 DEF Chosen
    <2> HIDE DEF x
    <2>2. Of(s) = who[x] \cup Of(u)
      BY <2>1
    <2>3. who[x] \cap Of(u) = {}
      BY <2>1
    <2>4. u \in SUBSET S /\ IsFiniteSet(Of(u)) /\ IsFiniteSet(who[x])
      BY <1>1, <2>1
    <2> HIDE DEF Of
    <2>5. Cardinality(who[x] \cup Of(u)) = Cardinality(who[x]) + Cardinality(Of(u))
      <3>1. Cardinality(who[x] \cap Of(u)) = 0
        BY <2>3, FS_EmptySet, Zenon
      <3>2. Cardinality(who[x] \cup Of(u)) =
                Cardinality(who[x]) + Cardinality(Of(u)) - Cardinality(who[x] \cap Of(u))
        BY <2>4, FS_Union
      <3>3. Cardinality(who[x]) \in Nat /\ Cardinality(Of(u)) \in Nat
        BY <2>4, FS_CardinalityType
      <3> QED BY <3>1, <3>2, <3>3
    <2>6. x.count = Cardinality(who[x])
      BY <2>1
    <2> QED BY <2>2, <2>5, <2>6 DEF x
  <1>3. SumsUp(S, g)
    <2>1. Cardinality(Of({})) = 0
      BY FS_EmptySet
    <2>2. ASSUME NEW s \in SUBSET S
          PROVE  g[s] = IF s = {} THEN 0 ELSE Chosen(s).count + g[s \ {Chosen(s)}]
      <3>1. s \ {Chosen(s)} \in SUBSET S
        OBVIOUS
      <3> HIDE DEF Of
      <3> QED BY <1>2, <2>1, <3>1
    <2> HIDE DEF Of
    <2>3. g = [s \in SUBSET S |-> g[s]]
      OBVIOUS
    <2> HIDE DEF g
    <2> QED BY <2>2, <2>3 DEF SumsUp
  <1>4. FSE!MapThenSumSet(LAMBDA x : x.count, S) = g[S]
    <2> HIDE DEF g
    <2> QED BY <1>3, SumIsChosen
  <1> QED BY <1>4
\* The bars of the newest snapshot and the count of those who disclosed no employer make
\* up the "Connections" of the headline (load_breakdown, load_undisclosed_count), however
\* employers are spelled and whoever is at each of them.
THEOREM ChartCountsEverybody == MartsSpec => []ChartAddsUp
  <1>1. MartsInv /\ Coarse!LayerInv => ChartAddsUp
    <2> DEFINE S == load_breakdown \cup load_undisclosed
    <2> SUFFICES ASSUME MartsInv, Coarse!LayerInv, phase = "tests", NEW r \in Latest(stats)
                 PROVE  r.total = FSE!MapThenSumSet(LAMBDA x : x.count, S)
      BY DEF ChartAddsUp
    <2>1. /\ stats = StatsOf(facts) /\ breakdown = ByCompany(facts)
          /\ facts \subseteq Batch /\ OnePerSecond(facts) /\ facts = silver
      BY PlainLayers DEF MartsInv
    <2>2. PICK b \in facts : /\ b \in Batch /\ Present(b) # {}
                             /\ \A d \in facts : d.ts <= b.ts /\ (d.ts = b.ts => d = b)
      BY <2>1, CurrentRows
    <2>3. r.total = Cardinality(Present(b))
      <3>1. PICK d \in facts : r.ts = d.ts /\ r.total = Cardinality(Present(d))
        BY <2>1 DEF Latest, StatsOf, total_connections
      <3>2. \E q \in stats : q.ts = b.ts
        <4> DEFINE q == [ts |-> b.ts,
                         total |-> total_connections(b),
                         distinct_companies |-> Cardinality(NamedEmployers(b)),
                         without_company |-> Cardinality(Undisclosed(b)) + RestrictedRows[b.ts]]
        <4>1. q \in stats /\ q.ts = b.ts
          BY <2>1, <2>2 DEF StatsOf
        <4> QED BY <4>1
      <3>3. b.ts <= d.ts /\ d.ts <= b.ts
        BY <2>2, <3>1, <3>2 DEF Latest
      <3>4. b.ts \in Nat /\ d.ts \in Nat
        BY <2>1, HistoryAssumption DEF Batch, Ts
      <3> QED BY <2>2, <3>1, <3>3, <3>4
    <2> DEFINE Bar(k) == [ts |-> b.ts, value |-> DisplayLabel(b, k),
                          count |-> Cardinality(AtEmployer(b, k))]
               K == Employers(b)
               none == company_key[Unknown]
               Named(k) == DisplayLabel(b, k) # Unknown
    <2>4. Latest(breakdown) = {Bar(k) : k \in K}
      <3>1. K = {KeyOf(b.rows[c]) : c \in Present(b)}
        BY DEF Employers, Labels, KeyOf
      <3>2. PICK k0 \in K : TRUE
        BY <2>2, <3>1
      <3>3. ASSUME NEW k \in K PROVE Bar(k) \in breakdown
        BY <2>1, <3>3 DEF ByCompany
      <3>4. ASSUME NEW x \in breakdown
            PROVE  /\ x.ts \in Nat /\ x.ts <= b.ts
                   /\ x.ts = b.ts => x \in {Bar(k) : k \in K}
        <4>1. PICK d \in facts :
                \E k \in Employers(d) :
                    x = [ts |-> d.ts, value |-> DisplayLabel(d, k),
                         count |-> Cardinality(AtEmployer(d, k))]
          BY <2>1 DEF ByCompany
        <4>2. x.ts = d.ts /\ d.ts \in Nat
          BY <2>1, <4>1, HistoryAssumption DEF Batch, Ts
        <4> QED BY <2>2, <4>1, <4>2
      <3>5. b.ts \in Nat /\ \A k \in K : Bar(k).ts = b.ts
        BY <2>2, HistoryAssumption DEF Batch, Ts
      <3>6. ASSUME NEW x \in Latest(breakdown) PROVE x \in {Bar(k) : k \in K}
        <4>1. x \in breakdown /\ b.ts <= x.ts
          BY <3>2, <3>3, <3>5 DEF Latest
        <4> HIDE DEF Bar, K
        <4> QED BY <3>4, <3>5, <4>1
      <3>7. ASSUME NEW k \in K PROVE Bar(k) \in Latest(breakdown)
        <4> HIDE DEF Bar, K
        <4> QED BY <3>3, <3>4, <3>5 DEF Latest
      <3> HIDE DEF Bar, K
      <3> QED BY <3>6, <3>7
    <2>5. ASSUME NEW k \in K
          PROVE  company_key[DisplayLabel(b, k)] = k
      BY <2>2, DisplayLabelOfKey
    \* What each number of the chart counts.
    <2> DEFINE who == [x \in S |-> IF x \in load_breakdown THEN AtEmployer(b, company_key[x.value])
                                   ELSE AtEmployer(b, none)]
    <2>6. ASSUME NEW x \in load_breakdown
          PROVE  \E k \in K : x = Bar(k) /\ Named(k) /\ company_key[x.value] = k
      BY <2>4, <2>5 DEF load_breakdown
    <2>7. ASSUME NEW x \in load_undisclosed
          PROVE  none \in K /\ ~Named(none) /\ x = [count |-> Cardinality(AtEmployer(b, none))]
      <3>1. PICK y \in Latest(breakdown) : y.value = Unknown /\ x = [count |-> y.count]
        BY DEF load_undisclosed
      <3> QED BY <2>4, <2>5, <3>1
    <2>8. ASSUME NEW x \in load_undisclosed PROVE x \notin load_breakdown
      <3>1. DOMAIN x = {"count"}
        BY <2>7
      <3>2. \A k \in K : "ts" \in DOMAIN Bar(k)
        OBVIOUS
      <3>3. "ts" # "count"
        OBVIOUS
      <3> HIDE DEF Bar
      <3> QED BY <2>6, <3>1, <3>2, <3>3
    <2>9. ASSUME NEW k \in K
          PROVE  IF ~Named(k) THEN [count |-> Cardinality(AtEmployer(b, none))] \in load_undisclosed
                 ELSE Bar(k) \in load_breakdown
      <3>1. Bar(k) \in Latest(breakdown) /\ Bar(k).value = DisplayLabel(b, k)
            /\ Bar(k).count = Cardinality(AtEmployer(b, k))
        BY <2>4
      <3> HIDE DEF Bar
      <3> QED BY <2>5, <3>1 DEF load_breakdown, load_undisclosed
    <2>10. ASSUME NEW x \in S
           PROVE  \E k \in K : /\ who[x] = AtEmployer(b, k)
                               /\ x.count = Cardinality(AtEmployer(b, k))
                               /\ x = IF ~Named(k) THEN [count |-> Cardinality(AtEmployer(b, none))]
                                      ELSE Bar(k)
      <3>1. CASE x \in load_breakdown
        BY <2>6, <3>1
      <3>2. CASE x \in load_undisclosed
        BY <2>7, <2>8, <3>2
      <3> QED BY <3>1, <3>2
    <2>11. IsFiniteSet(Present(b)) /\ \A k : AtEmployer(b, k) \in SUBSET Present(b)
      BY HistoryAssumption, FS_Subset DEF Present, AtEmployer
    <2>12. IsFiniteSet(S)
      <3> DEFINE F(k) == IF ~Named(k) THEN [count |-> Cardinality(AtEmployer(b, none))] ELSE Bar(k)
                 h == [k \in K |-> F(k)]
                 T == {F(k) : k \in K}
      <3>1. h \in Surjection(K, T)
        BY DEF Surjection
      <3>2. IsFiniteSet(K)
        BY EmployersFinite
      <3>3. S \in SUBSET T
        BY <2>10
      <3> HIDE DEF T, h, K, S
      <3>4. IsFiniteSet(T)
        BY <3>1, <3>2, FS_Surjection
      <3> QED BY <3>3, <3>4, FS_Subset
    <2>13. \A x \in S : IsFiniteSet(who[x]) /\ x.count = Cardinality(who[x])
      BY <2>10, <2>11, FS_Subset
    <2>14. \A x, y \in S : x # y => who[x] \cap who[y] = {}
      <3> SUFFICES ASSUME NEW x \in S, NEW y \in S, x # y PROVE who[x] \cap who[y] = {}
        OBVIOUS
      <3>1. PICK k \in K : /\ who[x] = AtEmployer(b, k)
                           /\ x = IF ~Named(k) THEN [count |-> Cardinality(AtEmployer(b, none))]
                                  ELSE Bar(k)
        BY <2>10
      <3>2. PICK m \in K : /\ who[y] = AtEmployer(b, m)
                           /\ y = IF ~Named(m) THEN [count |-> Cardinality(AtEmployer(b, none))]
                                  ELSE Bar(m)
        BY <2>10
      <3> HIDE DEF who, Bar, S, K
      <3>3. k # m
        BY <3>1, <3>2
      <3> QED BY <3>1, <3>2, <3>3 DEF AtEmployer
    <2>15. UNION {who[x] : x \in S} = Present(b)
      <3>1. ASSUME NEW x \in S PROVE who[x] \subseteq Present(b)
        <4> HIDE DEF who, S, K, Bar
        <4> QED BY <2>10, <2>11
      <3>2. ASSUME NEW c \in Present(b) PROVE \E x \in S : c \in who[x]
        <4> DEFINE k == KeyOf(b.rows[c])
        <4>1. k \in K /\ c \in AtEmployer(b, k)
          BY DEF Employers, Labels, KeyOf, AtEmployer
        <4> HIDE DEF k
        <4>2. CASE ~Named(k)
          <5> DEFINE x == [count |-> Cardinality(AtEmployer(b, none))]
          <5>1. x \in load_undisclosed
            BY <2>9, <4>1, <4>2
          <5> HIDE DEF x
          <5>2. x \in S /\ who[x] = AtEmployer(b, none)
            BY <2>8, <5>1
          <5>3. k = none
            BY <2>5, <4>1, <4>2
          <5> QED BY <4>1, <5>2, <5>3
        <4>3. CASE Named(k)
          <5>1. Bar(k) \in load_breakdown /\ Bar(k).value = DisplayLabel(b, k)
            BY <2>9, <4>1, <4>3
          <5>2. Bar(k) \in S /\ who[Bar(k)] = AtEmployer(b, k)
            BY <2>5, <4>1, <5>1
          <5> QED BY <4>1, <5>2
        <4> QED BY <4>2, <4>3
      <3> HIDE DEF who, S
      <3> QED BY <3>1, <3>2
    <2> HIDE DEF S, who
    <2>16. FSE!MapThenSumSet(LAMBDA x : x.count, S) = Cardinality(UNION {who[x] : x \in S})
      BY <2>12, <2>13, <2>14, CountsOfDisjointSets
    <2> QED BY <2>3, <2>15, <2>16
  <1> QED BY <1>1, MartsInvariant, CoarseLayers, PTL
=============================================================================
