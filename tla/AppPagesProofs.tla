---------------------------- MODULE AppPagesProofs ----------------------------
(***************************************************************************)
(* Proofs that neither page says of the warehouse what is not so.          *)
(***************************************************************************)
EXTENDS AppPages, WarehouseReadsProofs

\* "Pending work" is drawn anew after the landing zone was listed.
PanelIsFresh ==
    jobStep \in {"start", "healthy", "listing", "counting"} => jobPanel = "none"

PageInv == CacheIsTrue /\ NumbersAreReal /\ NothingNewIsTrue /\ PanelIsFresh

\* What the DAG does takes nothing away.
LEMMA WarehouseGrows ==
    ASSUME CacheIsTrue, Dag \/ Clock
    PROVE  /\ CacheIsTrue'
           /\ bronze \subseteq bronze'
           /\ marts # {} => marts' # {}
  <1>1. CacheIsTrue'
    BY WarehouseStep DEF Dag, Clock
  <1>2. bronze \subseteq bronze'
    BY DEF Dag, Clock, OpenForWriting, CommitBatch, RebuildMarts, Close, Expire, warehouseVars
  <1>3. marts # {} => marts' # {}
    BY DEF Dag, Clock, OpenForWriting, CommitBatch, RebuildMarts, Close, Expire,
           warehouseVars, CacheIsTrue
  <1> QED BY <1>1, <1>2, <1>3

LEMMA OverviewKeeps == PageInv /\ OverviewStep /\ UNCHANGED jobVars => PageInv'
  <1> SUFFICES ASSUME PageInv, OverviewStep, UNCHANGED jobVars PROVE PageInv'
    OBVIOUS
  <1>1. CASE Reload \/ Probe
    BY <1>1 DEF Reload, Probe, readVars, jobVars, PageInv, CacheIsTrue, NumbersAreReal,
               NothingNewIsTrue, PanelIsFresh
  <1>2. CASE Show
    <2>1. CacheIsTrue'
      BY <1>2, PageStep DEF Show, PageInv
    <2>2. NumbersAreReal'
      BY <1>2, ReadIsTrue DEF Show, PageInv, NumbersAreReal, warehouseVars
    <2>3. NothingNewIsTrue'
      BY <1>2 DEF Show, PageInv, NothingNewIsTrue, warehouseVars, jobVars
    <2>4. PanelIsFresh'
      BY <1>2 DEF PageInv, PanelIsFresh, jobVars
    <2> QED BY <2>1, <2>2, <2>3, <2>4 DEF PageInv
  <1> QED BY <1>1, <1>2 DEF OverviewStep

LEMMA JobKeeps == PageInv /\ JobStep /\ UNCHANGED overviewVars => PageInv'
  <1> SUFFICES ASSUME PageInv, JobStep, UNCHANGED overviewVars PROVE PageInv'
    OBVIOUS
  <1>1. ASSUME UNCHANGED warehouseVars,
               \/ cache' = Cached("bronze_file_hashes")
               \/ cache' = Cleared
               \/ UNCHANGED cache
        PROVE  CacheIsTrue' /\ NumbersAreReal'
    <2>1. CacheIsTrue'
      BY <1>1, PageStep DEF PageInv
    <2>2. NumbersAreReal'
      BY <1>1 DEF PageInv, NumbersAreReal, overviewVars, warehouseVars
    <2> QED BY <2>1, <2>2
  <1>2. CASE Pause \/ \E c \in Content : Land(c) \/ Remove(c)
    <2>1. UNCHANGED <<warehouseVars, cache, jobStep, listed, reached, jobPanel>>
      BY <1>2 DEF Pause, Land, Remove, readVars, warehouseVars
    <2> QED BY <2>1, <1>1 DEF PageInv, NothingNewIsTrue, PanelIsFresh, warehouseVars
  <1>3. CASE OpenJobs \/ \E button \in Button : Click(button)
    <2>1. UNCHANGED <<warehouseVars, cache>> /\ jobPanel' = "none"
      BY <1>3 DEF OpenJobs, Click, Run, readVars, warehouseVars
    <2> QED BY <2>1, <1>1 DEF PageInv, NothingNewIsTrue, PanelIsFresh
  <1>4. CASE CheckHealth \/ GetDagFails \/ GetDag \/ Unpause
    <2>1. jobPanel = "none"
      BY <1>4 DEF CheckHealth, GetDagFails, GetDag, Unpause, PageInv, PanelIsFresh
    <2>2. UNCHANGED <<warehouseVars, cache>> /\ jobPanel' = "none"
      BY <1>4, <2>1 DEF CheckHealth, GetDagFails, GetDag, Unpause, Run, readVars, warehouseVars
    <2> QED BY <2>2, <1>1 DEF PageInv, NothingNewIsTrue, PanelIsFresh
  <1>5. CASE ListLanding
    <2>1. UNCHANGED <<warehouseVars, cache>> /\ jobPanel' = "none"
      BY <1>5 DEF ListLanding, readVars, warehouseVars, PageInv, PanelIsFresh
    <2> QED BY <2>1, <1>1 DEF PageInv, NothingNewIsTrue, PanelIsFresh
  <1>6. CASE CountPending
    <2>1. UNCHANGED <<warehouseVars, listed, reached>> /\ jobStep' = "trigger"
      BY <1>6 DEF CountPending
    <2>2. cache' = Cached("bronze_file_hashes") \/ UNCHANGED cache
      BY <1>6 DEF CountPending
    <2>3. jobPanel' = "nothing new" /\ reached => NoneToIngest
      BY <1>6 DEF CountPending
    <2>4. Read("bronze_file_hashes") \subseteq bronze
      BY ReadIsTrue DEF PageInv
    <2>5. NothingNewIsTrue' /\ PanelIsFresh'
      BY <2>1, <2>3, <2>4
         DEF NothingNewIsTrue, PanelIsFresh, warehouseVars, NoneToIngest, ShortHashes
    <2> QED BY <2>1, <2>2, <2>5, <1>1 DEF PageInv
  <1>7. CASE TriggerButton
    <2>1. UNCHANGED <<warehouseVars, listed, reached, jobPanel>> /\ jobStep' = "history"
      BY <1>7 DEF TriggerButton, TriggerRun, readVars, warehouseVars
    <2>2. cache' = Cleared \/ UNCHANGED cache
      BY <1>7 DEF TriggerButton, TriggerRun, readVars
    <2>3. NothingNewIsTrue' /\ PanelIsFresh'
      BY <2>1 DEF PageInv, NothingNewIsTrue, PanelIsFresh, warehouseVars
    <2> QED BY <2>1, <2>2, <2>3, <1>1 DEF PageInv
  <1>8. CASE ShowHistory
    <2>1. UNCHANGED <<warehouseVars, cache>>
      BY <1>8 DEF ShowHistory, readVars, warehouseVars
    <2>2. CASE jobPanel' = "none"
      BY <2>1, <2>2, <1>1 DEF PageInv, NothingNewIsTrue, PanelIsFresh
    <2>3. CASE UNCHANGED <<listed, reached, jobPanel>> /\ jobStep' = "idle"
      <3>1. NothingNewIsTrue' /\ PanelIsFresh'
        BY <2>1, <2>3 DEF PageInv, NothingNewIsTrue, PanelIsFresh, warehouseVars
      <3> QED BY <2>1, <3>1, <1>1 DEF PageInv
    <2> QED BY <1>8, <2>2, <2>3 DEF ShowHistory, Run, Stop
  <1> QED BY <1>2, <1>3, <1>4, <1>5, <1>6, <1>7, <1>8 DEF JobStep, Owner, Script

LEMMA PageInvStep == PageInv /\ [Next]_vars => PageInv'
  <1> SUFFICES ASSUME PageInv, [Next]_vars PROVE PageInv'
    OBVIOUS
  <1>1. ASSUME Dag \/ Clock, UNCHANGED <<overviewVars, jobVars>>
        PROVE  PageInv'
    <2>1. CacheIsTrue' /\ bronze \subseteq bronze' /\ (marts # {} => marts' # {})
      BY <1>1, WarehouseGrows DEF PageInv
    <2>2. NumbersAreReal'
      BY <1>1, <2>1 DEF PageInv, NumbersAreReal, overviewVars
    <2>3. NothingNewIsTrue' /\ PanelIsFresh'
      BY <1>1, <2>1 DEF PageInv, NothingNewIsTrue, PanelIsFresh, jobVars, ShortHashes
    <2> QED BY <2>1, <2>2, <2>3 DEF PageInv
  <1>2. CASE UNCHANGED vars
    BY <1>2 DEF vars, PageInv, CacheIsTrue, NumbersAreReal, NothingNewIsTrue, PanelIsFresh
  <1> QED BY <1>1, <1>2, OverviewKeeps, JobKeeps DEF Next

LEMMA PageInvInit == Init => PageInv
  BY CacheIsTrueInit
     DEF Init, OverviewInit, JobInit, PageInv, NumbersAreReal, NothingNewIsTrue, PanelIsFresh

\* The landing page shows numbers only of marts that have rows, for any exports,
\* whatever was refused or cached (load_network_stats).
THEOREM NumbersStayReal == Spec => []NumbersAreReal
  <1>1. PageInv => NumbersAreReal
    BY DEF PageInv
  <1> QED BY <1>1, PageInvInit, PageInvStep, PTL DEF Spec

\* Job Management calls the listed objects old only when Bronze has the short hash
\* of each, for any exports and hashes, whatever was refused or cached
\* (bronze_file_hashes).
THEOREM NothingNewStaysTrue == Spec => []NothingNewIsTrue
  <1>1. PageInv => NothingNewIsTrue
    BY DEF PageInv
  <1> QED BY <1>1, PageInvInit, PageInvStep, PTL DEF Spec

LEMMA TypeInit == Init => TypeOK
  <1> SUFFICES ASSUME Init PROVE TypeOK
    OBVIOUS
  <1>1. ReadsTypeOK
    <2>1. Entries(Cleared)
      BY DEF Entries, Cleared
    <2> QED BY <2>1, EntriesType DEF Init, ReadsInit, ReadsTypeOK
  <1>2. OverviewTypeOK /\ JobTypeOK
    BY DEF Init, OverviewInit, JobInit, OverviewTypeOK, JobTypeOK, Panel, Button
  <1> QED BY <1>1, <1>2 DEF TypeOK

LEMMA OverviewKeepsType ==
    ASSUME TypeOK, OverviewStep, UNCHANGED jobVars
    PROVE  TypeOK'
  <1>1. ReadsTypeOK'
    <2>1. UNCHANGED warehouseVars
      BY DEF OverviewStep, Reload, Probe, Show, readVars, warehouseVars
    <2>2. cache' = Cached("load_network_stats") \/ UNCHANGED cache
      BY DEF OverviewStep, Reload, Probe, Show, readVars
    <2> QED BY <2>1, <2>2, ReadsKeepType DEF TypeOK, Query
  <1>2. OverviewTypeOK'
    BY DEF OverviewStep, Reload, Probe, Show, TypeOK, OverviewTypeOK, ReadsTypeOK, Panel
  <1>3. JobTypeOK'
    BY DEF TypeOK, JobTypeOK, jobVars
  <1> QED BY <1>1, <1>2, <1>3 DEF TypeOK

\* Where a rerun of the script begins and where one ends.
LEMMA RunKeepsType ==
    ASSUME JobTypeOK, UNCHANGED <<landing, paused>>, NEW button \in Button \cup {"none"},
           Run(button)
    PROVE  JobTypeOK'
  BY DEF Run, JobTypeOK

LEMMA StopKeepsType ==
    ASSUME JobTypeOK, UNCHANGED <<landing, listed, reached, jobPanel>>, paused' \in BOOLEAN,
           NEW drawn \in SUBSET Button, Stop(drawn)
    PROVE  JobTypeOK'
  BY DEF Stop, JobTypeOK

LEMMA JobKeepsType ==
    ASSUME TypeOK, JobStep, UNCHANGED overviewVars
    PROVE  TypeOK'
  <1> USE DEF TypeOK
  <1>1. OverviewTypeOK'
    BY DEF OverviewTypeOK, overviewVars
  <1>2. ReadsTypeOK'
    <2>1. UNCHANGED warehouseVars
      BY DEF JobStep, Land, Remove, Pause, Owner, OpenJobs, Click, Script, CheckHealth,
             GetDagFails, GetDag, Unpause, ListLanding, CountPending, TriggerButton,
             TriggerRun, ShowHistory, readVars, warehouseVars
    <2>2. cache' = Cached("bronze_file_hashes") \/ cache' = Cleared \/ UNCHANGED cache
      BY DEF JobStep, Land, Remove, Pause, Owner, OpenJobs, Click, Script, CheckHealth,
             GetDagFails, GetDag, Unpause, ListLanding, CountPending, TriggerButton,
             TriggerRun, ShowHistory, readVars
    <2> QED BY <2>1, <2>2, ReadsKeepType DEF Query
  <1>3. JobTypeOK'
    <2>1. CASE Pause \/ \E c \in Content : Land(c) \/ Remove(c)
      BY <2>1 DEF Pause, Land, Remove, JobTypeOK
    <2>2. CASE Owner
      BY <2>2, RunKeepsType DEF Owner, OpenJobs, Click
    <2>3. CASE CheckHealth \/ GetDagFails
      BY <2>3, StopKeepsType DEF CheckHealth, GetDagFails, JobTypeOK
    <2>4. CASE GetDag
      BY <2>4 DEF GetDag, JobTypeOK, Button
    <2>5. CASE Unpause
      <3>1. CASE paused' = FALSE /\ Run("none")
        BY <2>5, <3>1 DEF Unpause, Run, JobTypeOK
      <3>2. CASE paused' \in BOOLEAN /\ Stop({"Unpause the DAG"})
                    /\ UNCHANGED <<listed, reached, jobPanel>>
        BY <2>5, <3>2, StopKeepsType DEF Unpause, Button
      <3> QED BY <2>5, <3>1, <3>2 DEF Unpause
    <2>6. CASE ListLanding \/ CountPending
      BY <2>6 DEF ListLanding, CountPending, JobTypeOK
    <2>7. CASE TriggerButton
      BY <2>7 DEF TriggerButton, JobTypeOK, Button
    <2>8. CASE ShowHistory
      <3>1. CASE Run("none")
        BY <2>8, <3>1, RunKeepsType DEF ShowHistory
      <3>2. CASE Stop(offered \cup {"Refresh"}) /\ UNCHANGED <<listed, reached, jobPanel>>
        BY <2>8, <3>2, StopKeepsType DEF ShowHistory, JobTypeOK, Button
      <3> QED BY <2>8, <3>1, <3>2 DEF ShowHistory
    <2> QED BY <2>1, <2>2, <2>3, <2>4, <2>5, <2>6, <2>7, <2>8 DEF JobStep, Script
  <1> QED BY <1>1, <1>2, <1>3

\* The state of the two pages and of the cache they share has its type: no script stops
\* at a place it does not know, and only queries that exist have an entry.
THEOREM PagesTypeCorrect == Spec => []TypeOK
  <1>1. ASSUME TypeOK, [Next]_vars PROVE TypeOK'
    <2>1. ASSUME Dag \/ Clock, UNCHANGED <<overviewVars, jobVars>> PROVE TypeOK'
      <3>1. ReadsTypeOK'
        BY <1>1, <2>1, WarehouseKeepsType DEF Dag, Clock, TypeOK
      <3> QED BY <1>1, <2>1, <3>1 DEF TypeOK, OverviewTypeOK, JobTypeOK, overviewVars, jobVars
    <2>2. CASE UNCHANGED vars
      BY <1>1, <2>2 DEF TypeOK, ReadsTypeOK, OverviewTypeOK, JobTypeOK, vars
    <2> QED BY <1>1, <2>1, <2>2, OverviewKeepsType, JobKeepsType DEF Next
  <1> QED BY <1>1, TypeInit, PTL DEF Spec
=============================================================================
