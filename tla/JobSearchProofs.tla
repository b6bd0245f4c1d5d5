--------------------------- MODULE JobSearchProofs ---------------------------
(***************************************************************************)
(* Proofs about the Job Search and Companies pages: for any people, titles *)
(* and weights, what a score is bounded by, how it changes with time, and  *)
(* that the two pages count the same people.                               *)
(***************************************************************************)
EXTENDS JobSearch, FiniteSetTheorems, WellFoundedInduction, TLAPS

\* Who is in the network, and since when: nothing is dated after today.
NetInv ==
    /\ versions \in [Person -> 0 .. MaxVersions]
    /\ today \in Day
    /\ DOMAIN network \subseteq Person
    /\ IsFiniteSet(DOMAIN network)
    /\ \A p \in DOMAIN network :
        /\ network[p] \in Row
        /\ network[p].valid_from <= today
        /\ network[p].connected_on # NoDate => network[p].connected_on <= today

LEMMA NetInvInit == Init => NetInv
  <1> SUFFICES ASSUME Init PROVE NetInv
    OBVIOUS
  <1>1. DOMAIN network = {}
    BY DEF Init
  <1>2. IsFiniteSet(DOMAIN network)
    BY <1>1, FS_EmptySet
  <1>3. versions \in [Person -> 0 .. MaxVersions] /\ today \in Day
    BY JobSearchAssumption DEF Init, Day
  <1> QED BY <1>1, <1>2, <1>3 DEF NetInv

LEMMA OpenedKeeps ==
    ASSUME NetInv, NEW p \in Person, NEW title \in Title, NEW company \in Employer,
           NEW date \in Nat \cup {NoDate}, date # NoDate => date <= today,
           Opened(p, title, company, date)
    PROVE  NetInv'
  <1> DEFINE row == [position |-> title, company |-> company, connected_on |-> date,
                     valid_from |-> today, previous |-> versions[p] > 0]
  <1>1. DOMAIN network' = DOMAIN network \cup {p}
    BY DEF Opened
  <1>2. /\ network'[p] = row
        /\ \A q \in DOMAIN network \ {p} : network'[q] = network[q]
    BY DEF Opened
  <1>3. IsFiniteSet(DOMAIN network')
    BY <1>1, FS_AddElement DEF NetInv
  <1>4. today \in Nat /\ today' = today
    BY JobSearchAssumption DEF NetInv, Opened, Day
  <1>5. row \in Row /\ row.valid_from = today /\ row.connected_on = date
    BY <1>4 DEF Row, Employer
  <1>6. versions' \in [Person -> 0 .. MaxVersions]
    BY JobSearchAssumption DEF Opened, NetInv
  <1>7. ASSUME NEW q \in DOMAIN network'
        PROVE  /\ network'[q] \in Row
               /\ network'[q].valid_from <= today'
               /\ network'[q].connected_on # NoDate => network'[q].connected_on <= today'
    <2>1. CASE q = p
      BY <1>2, <1>4, <1>5, <2>1
    <2>2. CASE q # p
      BY <1>1, <1>2, <1>4, <2>2 DEF NetInv
    <2> QED BY <2>1, <2>2
  <1>8. today' \in Day /\ DOMAIN network' \subseteq Person
    BY <1>1, <1>4 DEF NetInv
  <1> QED BY <1>3, <1>6, <1>7, <1>8 DEF NetInv

LEMMA NetInvStep == NetInv /\ [Next]_vars => NetInv'
  <1> SUFFICES ASSUME NetInv, [Next]_vars PROVE NetInv'
    OBVIOUS
  <1>1. CASE NextDay
    <2>1. today' \in Day /\ today <= today'
      BY <1>1, JobSearchAssumption DEF NextDay, NetInv, Day
    <2>2. ASSUME NEW p \in DOMAIN network
          PROVE  /\ network[p].valid_from <= today'
                 /\ network[p].connected_on # NoDate => network[p].connected_on <= today'
      <3>1. /\ network[p].valid_from \in Nat /\ network[p].connected_on \in Nat \cup {NoDate}
            /\ today \in Nat /\ today' \in Nat
        BY <2>1, JobSearchAssumption DEF NetInv, Row, Day
      <3> QED BY <2>1, <3>1 DEF NetInv
    <2> QED BY <1>1, <2>1, <2>2 DEF NextDay, NetInv
  <1>2. ASSUME NEW p \in Person, Leave(p) PROVE NetInv'
    <2>1. /\ DOMAIN network' = DOMAIN network \ {p}
          /\ \A q \in DOMAIN network' : network'[q] = network[q]
      BY <1>2 DEF Leave, Restricted
    <2>2. IsFiniteSet(DOMAIN network')
      BY <2>1, FS_Subset DEF NetInv
    <2> QED BY <1>2, <2>1, <2>2 DEF Leave, NetInv
  <1>3. ASSUME NEW p \in Person, NEW title \in Title, NEW company \in Employer,
               Move(p, title, company)
        PROVE  NetInv'
    <2>1. /\ network[p].connected_on \in Nat \cup {NoDate}
          /\ network[p].connected_on # NoDate => network[p].connected_on <= today
      BY <1>3 DEF Move, NetInv, Row
    <2>2. Opened(p, title, company, network[p].connected_on)
      BY <1>3 DEF Move
    <2> QED BY <2>1, <2>2, OpenedKeeps
  <1>4. ASSUME NEW p \in Person, NEW title \in Title, NEW company \in Employer,
               NEW date \in (0 .. today) \cup {NoDate}, Join(p, title, company, date)
        PROVE  NetInv'
    <2>1. date \in Nat \cup {NoDate} /\ (date # NoDate => date <= today)
      BY JobSearchAssumption DEF NetInv, Day
    <2>2. Opened(p, title, company, date)
      BY <1>4 DEF Join
    <2> QED BY <2>1, <2>2, OpenedKeeps
  <1>5. CASE UNCHANGED vars
    BY <1>5 DEF vars, NetInv
  <1> QED BY <1>1, <1>2, <1>3, <1>4, <1>5 DEF Next

LEMMA NetInvariant == Spec => []NetInv
  BY NetInvInit, NetInvStep, PTL DEF Spec

-----------------------------------------------------------------------------
(***************************************************************************)
(* The scale of the scores.                                                *)
(***************************************************************************)

\* A finite set of numbers has a greatest one.
LEMMA GreatestNatural ==
    ASSUME NEW T \in SUBSET Nat, IsFiniteSet(T), T # {}
    PROVE  \E n \in T : \A m \in T : m <= n
  <1> DEFINE above(n) == {m \in T : m > n}
             S == {Cardinality(above(n)) : n \in T}
  <1>1. \A n : IsFiniteSet(above(n)) /\ Cardinality(above(n)) \in Nat
    BY FS_Subset, FS_CardinalityType
  <1>2. PICK s \in S : \A r \in S : ~(<<r, s>> \in OpToRel(<, Nat))
    <2>1. S \in SUBSET Nat /\ S # {}
      BY <1>1
    <2> HIDE DEF S
    <2> QED BY <2>1, NatLessThanWellFounded, WFMin, Zenon
  <1>3. PICK n \in T : s = Cardinality(above(n))
    OBVIOUS
  <1>4. ASSUME NEW m \in T, n < m PROVE FALSE
    <2>0. n \in Nat /\ m \in Nat /\ \A x \in T : x \in Nat
      OBVIOUS
    <2>1. above(m) \subseteq above(n) /\ m \in above(n) /\ m \notin above(m)
      <3>1. \A x \in T : x > m => x > n
        BY <1>4, <2>0
      <3>2. m > n /\ ~(m > m)
        BY <1>4, <2>0
      <3> QED BY <3>1, <3>2
    <2>2. above(m) # above(n)
      BY <2>1
    <2>3. Cardinality(above(m)) < Cardinality(above(n))
      <3> HIDE DEF above
      <3> QED BY <1>1, <2>1, <2>2, FS_Subset
    <2>4. Cardinality(above(m)) \in S /\ s \in Nat /\ Cardinality(above(m)) \in Nat
      BY <1>1, <1>3
    <2> QED BY <1>2, <1>3, <2>3, <2>4 DEF OpToRel
  <1>5. \A m \in T : m <= n
    BY <1>4
  <1> QED BY <1>5

LEMMA WeightsType ==
    /\ \A w \in BasePath : Weights[w] \in Nat
    /\ Weights.seniority \in Nat /\ Weights.warmth \in Nat /\ Weights.recent_move \in Nat
    /\ Weights.early_career_penalty \in Nat
  BY ReferralAssumption

LEMMA MaximumBounds ==
    /\ Maximum \in Nat
    /\ \A w \in BasePath : Weights[w] + Weights.warmth + Weights.recent_move <= Maximum
  <1> DEFINE order == <<"field_leader", "field_peer", "inhouse_recruiter", "adjacent_leader",
                        "adjacent_peer", "outside_recruiter", "outside_leader">>
             bases == {Weights[w] : w \in BasePath}
             f == [i \in 1 .. 7 |-> Weights[order[i]]]
  <1>1. bases \in SUBSET Nat /\ bases # {}
    BY WeightsType DEF BasePath
  <1>2. IsFiniteSet(bases)
    <2>1. \A w \in BasePath : \E i \in 1 .. 7 : w = order[i]
      BY DEF BasePath
    <2>2. \A i \in 1 .. 7 : order[i] \in BasePath
      BY DEF BasePath
    <2>3. f \in Surjection(1 .. 7, bases)
      BY <2>1, <2>2 DEF Surjection
    <2>4. IsFiniteSet(1 .. 7)
      <3>1. 1 \in Int /\ 7 \in Int
        OBVIOUS
      <3> QED BY <3>1, FS_Interval, Zenon
    <2> HIDE DEF f, bases
    <2> QED BY <2>3, <2>4, FS_Surjection
  <1>3. \E b \in bases : \A c \in bases : c <= b
    <2> HIDE DEF bases
    <2> QED BY <1>1, <1>2, GreatestNatural
  <1> DEFINE top == CHOOSE b \in bases : \A c \in bases : c <= b
  <1>4. top \in bases /\ \A c \in bases : c <= top
    BY <1>3
  <1>5. Maximum = top + Weights.warmth + Weights.recent_move
    BY DEF Maximum
  <1>6. \A w \in BasePath : Weights[w] \in Nat /\ Weights[w] <= top
    BY <1>4, WeightsType
  <1>7. top \in Nat
    BY <1>1, <1>4
  <1> HIDE DEF top
  <1> QED BY <1>5, <1>6, <1>7, WeightsType

\* What the parts of a score are.
LEMMA PartsType ==
    ASSUME NEW row \in Row, NEW path, NEW day \in Day
    PROVE  /\ base_points(path) \in Nat
           /\ SeniorityPoints(row, path) \in {0, Weights.seniority}
           /\ WarmthPoints(row, day) \in 0 .. Weights.warmth
           /\ MovePoints(row, day) \in {0, Weights.recent_move}
           /\ EarlyCareerPoints(row) \in Int /\ EarlyCareerPoints(row) <= 0
  <1>1. base_points(path) \in Nat
    BY WeightsType DEF base_points
  <1>2. SeniorityPoints(row, path) \in {0, Weights.seniority}
    BY DEF SeniorityPoints
  <1>3. WarmthPoints(row, day) \in 0 .. Weights.warmth
    <2>1. row.connected_on \in Nat \cup {NoDate} /\ day \in 0 .. MaxDay
      BY DEF Row, Day
    <2>2. ASSUME row.connected_on # NoDate, row.connected_on <= day
          PROVE  day - row.connected_on \in Day
      BY <2>1, <2>2, JobSearchAssumption DEF Day
    <2> QED BY <2>1, <2>2, JobSearchAssumption, WeightsType DEF WarmthPoints
  <1>4. MovePoints(row, day) \in {0, Weights.recent_move}
    BY DEF MovePoints
  <1>5. EarlyCareerPoints(row) \in Int /\ EarlyCareerPoints(row) <= 0
    BY WeightsType DEF EarlyCareerPoints
  <1> QED BY <1>1, <1>2, <1>3, <1>4, <1>5

LEMMA ScoreOnScale ==
    ASSUME NEW row \in Row, NEW teams, NEW day \in Day
    PROVE  /\ score_referral(row, teams, day) \in Nat
           /\ SeniorityFits => score_referral(row, teams, day) <= Maximum
  <1> DEFINE path  == PathOf(row, teams)
             base  == base_points(path)
             sen   == SeniorityPoints(row, path)
             warm  == WarmthPoints(row, day)
             moved == MovePoints(row, day)
             early == EarlyCareerPoints(row)
             total == base + sen + warm + moved + early
  <1>1. score_referral(row, teams, day) = IF base = 0 \/ total < 0 THEN 0 ELSE total
    BY DEF score_referral
  <1>2. /\ base \in Nat /\ sen \in {0, Weights.seniority}
        /\ warm \in 0 .. Weights.warmth /\ moved \in {0, Weights.recent_move}
        /\ early \in Int /\ early <= 0
    BY PartsType
  <1>3. base # 0 => path \in BasePath /\ base = Weights[path]
    BY DEF base_points
  <1>4. path \in LeaderPath => sen = 0
    BY DEF SeniorityPoints
  <1>5. SeniorityFits /\ base # 0 => base + sen + Weights.warmth + Weights.recent_move <= Maximum
    <2> SUFFICES ASSUME SeniorityFits, base # 0
                 PROVE  base + sen + Weights.warmth + Weights.recent_move <= Maximum
      OBVIOUS
    <2>1. \E top \in BasePath : base + sen <= Weights[top]
      <3>1. CASE sen = 0
        BY <1>2, <1>3, <3>1, WeightsType
      <3>2. CASE sen # 0
        BY <1>2, <1>3, <1>4, <3>2, WeightsType DEF SeniorityFits
      <3> QED BY <3>1, <3>2
    <2>2. PICK top \in BasePath : base + sen <= Weights[top]
      BY <2>1
    <2>3. Weights[top] + Weights.warmth + Weights.recent_move <= Maximum
      BY MaximumBounds
    <2> HIDE DEF path, base, sen, warm, moved, early
    <2> QED BY <1>2, <2>2, <2>3, MaximumBounds, WeightsType
  <1> HIDE DEF path, base, sen, warm, moved, early
  <1> QED BY <1>1, <1>2, <1>5, MaximumBounds, WeightsType

\* Every row has the columns the pages read, and every score is on the scale from
\* zero to ReferralWeights.maximum, for all weights of which SeniorityFits holds.
THEOREM TypeCorrect == SeniorityFits => (Spec => []TypeOK)
  <1> SUFFICES ASSUME SeniorityFits PROVE Spec => []TypeOK
    OBVIOUS
  <1>1. NetInv => TypeOK
    <2> SUFFICES ASSUME NetInv PROVE TypeOK
      OBVIOUS
    <2>1. ASSUME NEW p \in DOMAIN network
          PROVE  network[p] \in Row /\ Score(p) \in 0 .. Maximum
      BY ScoreOnScale, MaximumBounds DEF NetInv, Score
    <2> QED BY <2>1 DEF NetInv, TypeOK
  <1> QED BY <1>1, NetInvariant, PTL

\* A day more adds nothing to the score of somebody who did not move today.
LEMMA ADayLater ==
    ASSUME NEW row \in Row, NEW teams, NEW day \in Day, day + 1 \in Day,
           row.valid_from < day,
           row.connected_on # NoDate => row.connected_on <= day
    PROVE  score_referral(row, teams, day + 1) <= score_referral(row, teams, day)
  <1> DEFINE path  == PathOf(row, teams)
             base  == base_points(path)
             sen   == SeniorityPoints(row, path)
             warm(d)  == WarmthPoints(row, d)
             moved(d) == MovePoints(row, d)
             early == EarlyCareerPoints(row)
             total(d) == base + sen + warm(d) + moved(d) + early
  <1>1. \A d : score_referral(row, teams, d) = IF base = 0 \/ total(d) < 0 THEN 0 ELSE total(d)
    BY DEF score_referral
  <1>2. \A d \in Day :
            /\ base \in Nat /\ sen \in Nat /\ warm(d) \in Nat /\ moved(d) \in Nat
            /\ early \in Int
    <2> SUFFICES ASSUME NEW d \in Day
                 PROVE  /\ base \in Nat /\ sen \in Nat /\ warm(d) \in Nat /\ moved(d) \in Nat
                        /\ early \in Int
      OBVIOUS
    <2>1. /\ base \in Nat /\ sen \in {0, Weights.seniority}
          /\ warm(d) \in 0 .. Weights.warmth /\ moved(d) \in {0, Weights.recent_move}
          /\ early \in Int
      BY PartsType
    <2> HIDE DEF path, base, sen, warm, moved, early
    <2> QED BY <2>1, WeightsType
  <1>3. day \in Nat /\ row.valid_from \in Nat /\ row.connected_on \in Nat \cup {NoDate}
    BY JobSearchAssumption DEF Row, Day
  <1>4. warm(day + 1) <= warm(day)
    <2>1. CASE row.connected_on = NoDate
      BY <2>1 DEF WarmthPoints
    <2>2. CASE row.connected_on # NoDate
      <3> DEFINE c == row.connected_on
                 age == day - c
      <3>0. c \in Nat /\ c <= day
        BY <1>3, <2>2
      <3>1. /\ c <= day + 1
            /\ day + 1 - c = age + 1
            /\ age \in Day /\ age + 1 \in Day /\ age <= age + 1
        <4> HIDE DEF c
        <4>1. c <= day + 1 /\ day + 1 - c = age + 1 /\ age <= age + 1 /\ age \in Nat
          BY <1>3, <3>0
        <4>2. day + 1 <= MaxDay
          BY <1>3, JobSearchAssumption DEF Day
        <4>3. age + 1 <= MaxDay /\ age <= MaxDay
          BY <1>3, <3>0, <4>1, <4>2, JobSearchAssumption
        <4> QED BY <4>1, <4>3, JobSearchAssumption DEF Day
      <3>2. Warmth[age + 1] <= Warmth[age]
        BY <3>1, JobSearchAssumption
      <3>3. warm(day) = Warmth[age] /\ warm(day + 1) = Warmth[age + 1]
        <4>1. warm(day) = Warmth[day - c]
          BY <2>2, <3>0 DEF WarmthPoints
        <4>2. warm(day + 1) = Warmth[day + 1 - c]
          BY <1>3, <2>2, <3>0, <3>1 DEF WarmthPoints
        <4> QED BY <3>1, <4>1, <4>2
      <3> QED BY <3>2, <3>3
    <2> QED BY <2>1, <2>2
  <1>5. moved(day + 1) <= moved(day)
    <2>1. MovedRecently(row, day + 1) => MovedRecently(row, day)
      BY <1>3, ReferralAssumption DEF MovedRecently, DaysSinceMove
    <2> QED BY <2>1, WeightsType DEF MovePoints
  <1> HIDE DEF path, base, sen, warm, moved, early
  <1> QED BY <1>1, <1>2, <1>4, <1>5

\* With time a score only fades, except for who moved today (score_referral), for
\* all weights, and any warmth that falls with the age of a connection.
THEOREM ScoresFade == Spec => ScoresOnlyFade
  <1>1. NetInv /\ [Next]_vars =>
            [today' # today =>
                \A p \in DOMAIN network :
                    network[p].valid_from = today \/ Score(p)' <= Score(p)]_vars
    <2> SUFFICES ASSUME NetInv, NextDay, NEW p \in DOMAIN network,
                        network[p].valid_from # today
                 PROVE  Score(p)' <= Score(p)
      BY DEF Next, Leave, Move, Join, Opened, vars
    <2>1. /\ today \in Day /\ today + 1 \in Day /\ today' = today + 1 /\ network' = network
          /\ today \in Nat
      BY JobSearchAssumption DEF NextDay, NetInv, Day
    <2>2. /\ network[p] \in Row /\ network[p].valid_from < today
          /\ network[p].connected_on # NoDate => network[p].connected_on <= today
      BY <2>1 DEF NetInv, Row
    <2>3. Score(p)' = score_referral(network[p], company_data_teams(RowsOf(DOMAIN network)),
                                     today + 1)
      BY <2>1 DEF Score, RowsOf
    <2> QED BY <2>1, <2>2, <2>3, ADayLater DEF Score
  <1> QED BY <1>1, NetInvariant, PTL DEF Spec, ScoresOnlyFade

-----------------------------------------------------------------------------
(***************************************************************************)
(* The two pages.                                                          *)
(***************************************************************************)

\* A set of people of the network is counted by a number, which is zero for nobody.
LEMMA Counted ==
    ASSUME NetInv, NEW S \in SUBSET DOMAIN network
    PROVE  /\ IsFiniteSet(S)
           /\ Cardinality(S) \in Nat
           /\ Cardinality(S) = 0 <=> S = {}
  <1>1. IsFiniteSet(S)
    BY FS_Subset DEF NetInv
  <1> QED BY <1>1, FS_CardinalityType, FS_EmptySet

\* The people company_reach counts at an employer, by the column they are counted in.
CorePeers(k)   == {p \in DOMAIN network : KeyAt(p) = k /\ InTarget(network[p].position)}
DataPeople(k)  == {p \in DOMAIN network : KeyAt(p) = k /\ IsData(network[p].position)}
DataLeaders(k) == {p \in DOMAIN network : KeyAt(p) = k /\ is_data_leader(network[p].position)}
Recruiters(k)  == {p \in DOMAIN network : KeyAt(p) = k /\ Recruits(network[p].position)}

LEMMA ReachCounts ==
    ASSUME NEW k
    PROVE  /\ reach_row(network, k).core_peers = Cardinality(CorePeers(k))
           /\ reach_row(network, k).data_people = Cardinality(DataPeople(k))
           /\ reach_row(network, k).data_leaders = Cardinality(DataLeaders(k))
           /\ reach_row(network, k).recruiters = Cardinality(Recruiters(k))
           /\ reach_row(network, k).has_front_door = (Cardinality(Recruiters(k)) > 0)
  BY DEF reach_row, HowMany, CorePeers, DataPeople, DataLeaders, Recruiters, KeyAt

\* The employers of company_data_teams are those with people in data.
LEMMA TeamsHaveData ==
    ASSUME NEW k
    PROVE  k \in company_data_teams(RowsOf(DOMAIN network)) <=> DataPeople(k) # {}
  <1>1. k \in company_data_teams(RowsOf(DOMAIN network))
            <=> \E row \in RowsOf(DOMAIN network) : KeyOf(row.company) = k /\ IsData(row.position)
    BY DEF company_data_teams, IsData
  <1>2. (\E row \in RowsOf(DOMAIN network) : KeyOf(row.company) = k /\ IsData(row.position))
            <=> \E p \in DOMAIN network : KeyAt(p) = k /\ IsData(network[p].position)
    BY DEF RowsOf, KeyAt
  <1> QED BY <1>1, <1>2 DEF DataPeople

\* What the title of somebody with an employer says of the route to them.
LEMMA RouteCases ==
    ASSUME NEW p \in DOMAIN network, network[p].company # NoCompany
    PROVE  LET title == network[p].position
               k     == KeyAt(p)
           IN  /\ Route(p) = "field_peer" => InTarget(title)
               /\ Route(p) \in {"field_leader", "adjacent_leader"} => is_data_leader(title)
               /\ Route(p) = "inhouse_recruiter" => Recruits(title) /\ DataPeople(k) # {}
               /\ Route(p) = "outside_recruiter" => Recruits(title) /\ DataPeople(k) = {}
               /\ InTarget(title) => Route(p) \in {"field_leader", "field_peer"}
  <1> DEFINE title == network[p].position
             has   == KeyAt(p) \in company_data_teams(RowsOf(DOMAIN network))
  <1>1. Route(p) = referral_path(title, has)
    BY DEF Route, PathOf, KeyAt
  <1>2. has <=> DataPeople(KeyAt(p)) # {}
    BY TeamsHaveData
  <1> HIDE DEF has
  <1> QED BY <1>1, <1>2 DEF referral_path, is_data_leader

\* The route Job Search gives somebody is in the counts Companies gives their
\* employer (referral_path, company_reach), for any titles and spellings.
THEOREM RoutesAreCounted == Spec => []PathsAgreeWithReach
  <1>1. NetInv => PathsAgreeWithReach
    <2> SUFFICES ASSUME NetInv, NEW name \in Reachable, NEW p \in DOMAIN network,
                        KeyAt(p) = company_key[name], network[p].company # NoCompany
                 PROVE  LET row  == Reach[name]
                            path == Route(p)
                        IN  /\ path = "field_peer" => row.core_peers > 0
                            /\ path \in {"field_leader", "adjacent_leader"} => row.data_leaders > 0
                            /\ path = "inhouse_recruiter" =>
                                    row.recruiters > 0 /\ row.data_people > 0
                            /\ path = "outside_recruiter" =>
                                    row.recruiters > 0 /\ row.data_people = 0
      BY DEF PathsAgreeWithReach
    <2> DEFINE k == KeyAt(p)
    <2>0. Reach[name] = reach_row(network, k)
      BY DEF Reach
    <2>1. \A S \in SUBSET DOMAIN network :
            Cardinality(S) \in Nat /\ (S # {} => Cardinality(S) > 0) /\ (S = {} => Cardinality(S) = 0)
      BY Counted
    <2>2. /\ CorePeers(k) \in SUBSET DOMAIN network /\ DataPeople(k) \in SUBSET DOMAIN network
          /\ DataLeaders(k) \in SUBSET DOMAIN network /\ Recruiters(k) \in SUBSET DOMAIN network
      BY DEF CorePeers, DataPeople, DataLeaders, Recruiters
    <2>3. /\ InTarget(network[p].position) => CorePeers(k) # {}
          /\ is_data_leader(network[p].position) => DataLeaders(k) # {}
          /\ Recruits(network[p].position) => Recruiters(k) # {}
      BY DEF CorePeers, DataLeaders, Recruiters
    <2> QED BY <2>0, <2>1, <2>2, <2>3, RouteCases, ReachCounts
  <1> QED BY <1>1, NetInvariant, PTL

\* Numbers have a least one.
LEMMA LeastNatural ==
    ASSUME NEW T \in SUBSET Nat, T # {}
    PROVE  \E n \in T : \A m \in T : n <= m
  <1>1. PICK n \in T : \A m \in T : ~(<<m, n>> \in OpToRel(<, Nat))
    BY NatLessThanWellFounded, WFMin, Zenon
  <1>2. \A m \in T : ~(m < n)
    BY <1>1 DEF OpToRel
  <1>3. n \in Nat /\ \A m \in T : m \in Nat
    OBVIOUS
  <1>4. \A m \in T : n <= m
    BY <1>2, <1>3
  <1> QED BY <1>4

\* The first page hides who has no date, if somebody has one, and nobody else.
LEMMA EverybodyShown ==
    ASSUME NetInv
    PROVE  /\ \A p : MatchesTags(p, Everybody) /\ MatchesPeople(p, Everybody)
                        /\ MatchesCompany(p, Everybody)
           /\ \A p \in DOMAIN network : MatchesDates(p, Everybody) <=> ~Undated(p)
           /\ Shown(Everybody) = {p \in DOMAIN network : ~Undated(p)}
  <1>1. \A p : MatchesTags(p, Everybody) /\ MatchesPeople(p, Everybody)
                /\ MatchesCompany(p, Everybody)
    BY DEF MatchesTags, MatchesPeople, MatchesCompany, Everybody
  <1>2. ASSUME NEW p \in DOMAIN network PROVE MatchesDates(p, Everybody) <=> ~Undated(p)
    <2>1. CASE Dates = {}
      <3>1. Everybody.dates = << >>
        BY <2>1 DEF Everybody
      <3> QED BY <2>1, <3>1 DEF MatchesDates, Undated
    <2>2. CASE Dates # {}
      <3> DEFINE low == FSE!Min(Dates)
                 high == FSE!Max(Dates)
                 T == {network[q].connected_on : q \in DOMAIN network}
                 f == [q \in DOMAIN network |-> network[q].connected_on]
      <3>1. Everybody.dates = <<low, high>>
        BY <2>2 DEF Everybody
      <3>2. Dates \in SUBSET Nat
        BY DEF Dates, NetInv, Row
      <3>3. IsFiniteSet(Dates)
        <4>1. f \in Surjection(DOMAIN network, T)
          BY DEF Surjection
        <4>2. IsFiniteSet(T)
          <5> HIDE DEF f, T
          <5> QED BY <4>1, FS_Surjection DEF NetInv
        <4>3. Dates \in SUBSET T
          BY DEF Dates
        <4> HIDE DEF T
        <4> QED BY <4>2, <4>3, FS_Subset
      <3>4. low \in Dates /\ \A d \in Dates : low <= d
        <4>1. \E n \in Dates : \A m \in Dates : n <= m
          BY <2>2, <3>2, LeastNatural
        <4> QED BY <4>1 DEF FSE!Min
      <3>5. high \in Dates /\ \A d \in Dates : high >= d
        <4>1. \E n \in Dates : \A m \in Dates : m <= n
          BY <2>2, <3>2, <3>3, GreatestNatural
        <4>2. PICK n \in Dates : \A m \in Dates : m <= n
          BY <4>1
        <4>3. \A m \in Dates : n >= m
          BY <3>2, <4>2
        <4> QED BY <4>3 DEF FSE!Max
      <3> HIDE DEF low, high
      <3>6. MatchesDates(p, Everybody)
                <=> network[p].connected_on # NoDate /\ network[p].connected_on \in low .. high
        BY <3>1 DEF MatchesDates
      <3>7. network[p].connected_on # NoDate => network[p].connected_on \in Dates
        BY DEF Dates
      <3>8. network[p].connected_on # NoDate => network[p].connected_on \in low .. high
        <4>1. \A d \in Dates : d \in Nat /\ low <= d /\ d <= high
          BY <3>2, <3>4, <3>5
        <4>2. low \in Nat /\ high \in Nat
          BY <3>2, <3>4, <3>5
        <4> QED BY <3>7, <4>1, <4>2
      <3> QED BY <2>2, <3>6, <3>8 DEF Undated
    <2> QED BY <2>1, <2>2
  <1> QED BY <1>1, <1>2 DEF Shown

Labels == Company \cup {Unknown}

\* The name of an employer is the first of the labels of the people there.
LEMMA NameOfEmployer ==
    ASSUME NetInv, NEW p \in DOMAIN network
    PROVE  /\ \E q \in DOMAIN network :
                KeyAt(q) = KeyAt(p) /\ LabelOf(network[q].company) = company_name(KeyAt(p))
           /\ alphabetical[company_name(KeyAt(p))] <= alphabetical[LabelOf(network[p].company)]
           /\ company_name(KeyAt(p)) \in Labels
           /\ company_key[company_name(KeyAt(p))] = KeyAt(p)
  <1> DEFINE key == KeyAt(p)
             labels == {LabelOf(network[q].company) : q \in {r \in DOMAIN network : KeyAt(r) = key}}
             places == {alphabetical[l] : l \in labels}
  <1>1. labels \in SUBSET Labels /\ LabelOf(network[p].company) \in labels
    BY DEF NetInv, Row, LabelOf, Labels
  <1>2. company_name(key) = CHOOSE l \in labels : \A m \in labels : alphabetical[l] <= alphabetical[m]
    BY DEF company_name
  <1>3. \E l \in labels : \A m \in labels : alphabetical[l] <= alphabetical[m]
    <2> HIDE DEF labels
    <2>0. \A l \in Labels : alphabetical[l] \in Nat
      BY SpellingAssumption DEF Labels
    <2>1. places \in SUBSET Nat /\ places # {}
      BY <1>1, <2>0
    <2>2. PICK n \in places : \A m \in places : n <= m
      <3> HIDE DEF places
      <3> QED BY <2>1, LeastNatural
    <2> QED BY <2>2
  <1>4. /\ company_name(key) \in labels
        /\ \A m \in labels : alphabetical[company_name(key)] <= alphabetical[m]
    <2> HIDE DEF labels
    <2> QED BY <1>2, <1>3
  <1>5. PICK q \in DOMAIN network :
            KeyAt(q) = key /\ LabelOf(network[q].company) = company_name(key)
    BY <1>4
  <1>6. company_key[company_name(key)] = key
    BY <1>5 DEF KeyAt, KeyOf
  <1> QED BY <1>1, <1>4, <1>5, <1>6

\* An employer of the table is spelled like its name by somebody there.
LEMMA EmployerOfTable ==
    ASSUME NetInv, NEW name \in Reachable
    PROVE  /\ name \in Company /\ name # ""
           /\ \E p \in At(name) : network[p].company = name
           /\ name = company_name(company_key[name])
  <1>1. PICK p \in DOMAIN network : name = company_name(KeyAt(p))
    BY DEF Reachable
  <1>2. name # Unknown
    BY DEF Reachable
  <1>3. name \in Company
    BY <1>1, <1>2, NameOfEmployer DEF Labels
  <1>4. PICK q \in DOMAIN network : KeyAt(q) = KeyAt(p) /\ LabelOf(network[q].company) = name
    BY <1>1, NameOfEmployer
  <1>5. company_key[name] = KeyAt(p)
    BY <1>1, NameOfEmployer
  <1>6. network[q].company = name
    BY <1>2, <1>4 DEF LabelOf
  <1> QED BY <1>1, <1>3, <1>4, <1>5, <1>6, SpellingAssumption DEF At

\* Who is at an employer of the table is listed when its name is typed, or lost.
LEMMA ListedOrLost ==
    ASSUME NetInv, NEW name \in Reachable, NEW tags, NEW p \in At(name),
           tags # {} => tags \cap tag_connection[network[p].position] # {}
    PROVE  p \in Listed(name, tags) \/ p \in Lost(name)
  <1> DEFINE filter == [Everybody EXCEPT !.company = name, !.tags = tags, !.untagged = (tags = {})]
  <1>1. /\ filter.people = {} /\ filter.company = name /\ filter.tags = tags
        /\ filter.untagged = (tags = {}) /\ filter.dates = Everybody.dates
    BY DEF Everybody
  <1>2. Listed(name, tags) = At(name) \cap Shown(filter)
    BY DEF Listed
  <1> HIDE DEF filter
  <1>3. p \in DOMAIN network
    BY DEF At
  <1> SUFFICES ASSUME ~Undated(p), network[p].company \in found_by[name]
               PROVE  p \in Shown(filter)
    BY <1>2 DEF Lost
  <1>4. MatchesDates(p, filter)
    <2>1. MatchesDates(p, Everybody)
      BY <1>3, EverybodyShown
    <2> QED BY <1>1, <2>1 DEF MatchesDates
  <1>5. MatchesTags(p, filter)
    BY <1>1 DEF MatchesTags
  <1>6. MatchesPeople(p, filter) /\ MatchesCompany(p, filter)
    BY <1>1 DEF MatchesPeople, MatchesCompany
  <1> QED BY <1>3, <1>4, <1>5, <1>6 DEF Shown

\* Of some people at an employer no more are counted than are listed or lost.
LEMMA CountedAreListed ==
    ASSUME NetInv, NEW name \in Reachable, NEW tags, NEW S \in SUBSET At(name),
           \A p \in S : tags # {} => tags \cap tag_connection[network[p].position] # {}
    PROVE  Cardinality(S) <= Cardinality(Listed(name, tags)) + Cardinality(Lost(name))
  <1> DEFINE A == Listed(name, tags)
             B == Lost(name)
  <1>1. S \in SUBSET (A \cup B)
    BY ListedOrLost
  <1>2. A \in SUBSET DOMAIN network /\ B \in SUBSET DOMAIN network
    BY DEF Listed, Lost, At
  <1>3. /\ IsFiniteSet(A) /\ IsFiniteSet(B) /\ Cardinality(A) \in Nat /\ Cardinality(B) \in Nat
        /\ Cardinality(A \cap B) \in Nat
    BY <1>2, Counted
  <1> HIDE DEF A, B
  <1>4. /\ IsFiniteSet(A \cup B)
        /\ Cardinality(A \cup B) = Cardinality(A) + Cardinality(B) - Cardinality(A \cap B)
    BY <1>3, FS_Union
  <1>5. Cardinality(S) <= Cardinality(A \cup B) /\ Cardinality(S) \in Nat
    BY <1>1, <1>4, FS_Subset, FS_CardinalityType
  <1>6. Cardinality(A \cup B) <= Cardinality(A) + Cardinality(B)
    BY <1>3, <1>4
  <1> QED BY <1>3, <1>4, <1>5, <1>6 DEF A, B

LEMMA ReachableFinite ==
    ASSUME NetInv
    PROVE  IsFiniteSet(Reachable)
  <1> DEFINE f == [p \in DOMAIN network |-> company_name(KeyAt(p))]
             T == {company_name(KeyAt(p)) : p \in DOMAIN network}
  <1>1. f \in Surjection(DOMAIN network, T)
    BY DEF Surjection
  <1>2. IsFiniteSet(T)
    <2> HIDE DEF f, T
    <2> QED BY <1>1, FS_Surjection DEF NetInv
  <1>3. Reachable \in SUBSET T
    BY DEF Reachable
  <1> HIDE DEF T
  <1> QED BY <1>2, <1>3, FS_Subset

\* A smaller set of employers counts less.
LEMMA FewerEmployers ==
    ASSUME NetInv, NEW T \in SUBSET Reachable, NEW S \in SUBSET T
    PROVE  Cardinality(S) <= Cardinality(T)
  <1>1. IsFiniteSet(T)
    BY ReachableFinite, FS_Subset
  <1> QED BY <1>1, FS_Subset

\* The employers of the cards, by their keys: those of who is shown at first.
Covered == {KeyAt(p) : p \in {q \in Shown(Everybody) : network[q].company # NoCompany}}

\* They are the employers of the table that are not silent, unless somebody's company
\* is spelled exactly like the label of a blank one.
LEMMA CoveredAreReachable ==
    ASSUME NetInv, \A p \in DOMAIN network : network[p].company # Unknown
    PROVE  Cardinality(Covered) = Cardinality(Reachable \ Silent)
  <1> DEFINE Loud == Reachable \ Silent
             f == [name \in Loud |-> company_key[name]]
  <1>1. ASSUME NEW name \in Loud PROVE company_key[name] \in Covered
    <2>1. PICK p \in At(name) : ~Undated(p) /\ network[p].company # NoCompany
      BY <1>1 DEF Silent
    <2>2. p \in DOMAIN network /\ KeyAt(p) = company_key[name]
      BY DEF At
    <2>3. p \in Shown(Everybody)
      BY <2>1, <2>2, EverybodyShown
    <2> QED BY <2>1, <2>2, <2>3 DEF Covered
  <1>2. ASSUME NEW k \in Covered PROVE \E name \in Loud : company_key[name] = k
    <2>1. PICK p \in Shown(Everybody) : network[p].company # NoCompany /\ k = KeyAt(p)
      BY DEF Covered
    <2>2. p \in DOMAIN network /\ ~Undated(p)
      BY <2>1, EverybodyShown
    <2>3. network[p].company \in Company /\ LabelOf(network[p].company) = network[p].company
          /\ network[p].company # Unknown
      BY <2>1, <2>2 DEF NetInv, Row, LabelOf
    <2> DEFINE name == company_name(k)
    <2>4. /\ alphabetical[name] <= alphabetical[network[p].company]
          /\ name \in Labels /\ company_key[name] = k
      BY <2>1, <2>2, <2>3, NameOfEmployer
    <2>5. name # Unknown
      <3> SUFFICES ASSUME name = Unknown PROVE FALSE
        OBVIOUS
      <3> HIDE DEF name
      <3>1. company_key[network[p].company] = company_key[Unknown]
        BY <2>1, <2>3, <2>4 DEF KeyAt, KeyOf
      <3>2. alphabetical[network[p].company] <= alphabetical[Unknown]
        BY <2>3, <3>1, SpellingAssumption
      <3>3. alphabetical[network[p].company] \in Nat /\ alphabetical[Unknown] \in Nat
        BY <2>3, SpellingAssumption
      <3>4. alphabetical[network[p].company] = alphabetical[Unknown]
        BY <2>4, <3>2, <3>3
      <3> QED BY <2>3, <3>4, SpellingAssumption
    <2>6. name \in Reachable
      BY <2>1, <2>2, <2>5 DEF Reachable
    <2>7. p \in At(name)
      BY <2>1, <2>2, <2>4 DEF At
    <2>8. name \notin Silent
      BY <2>1, <2>2, <2>7 DEF Silent
    <2> QED BY <2>4, <2>6, <2>8
  <1>3. ASSUME NEW m \in Loud, NEW n \in Loud, company_key[m] = company_key[n] PROVE m = n
    <2>1. m = company_name(company_key[m]) /\ n = company_name(company_key[n])
      BY EmployerOfTable
    <2> QED BY <1>3, <2>1
  <1>4. IsFiniteSet(Loud)
    BY ReachableFinite, FS_Subset
  <1> HIDE DEF Loud
  <1>5. f \in Bijection(Loud, Covered)
    <2>1. f \in [Loud -> Covered]
      BY <1>1
    <2>2. \A k \in Covered : \E name \in Loud : f[name] = k
      BY <1>2
    <2>3. \A m, n \in Loud : f[m] = f[n] => m = n
      BY <1>3
    <2> HIDE DEF f
    <2>4. f \in Injection(Loud, Covered)
      BY <2>1, <2>3 DEF Injection, IsInjective
    <2>5. f \in Surjection(Loud, Covered)
      BY <2>1, <2>2 DEF Surjection
    <2> QED BY <2>4, <2>5 DEF Bijection
  <1>6. ExistsBijection(Loud, Covered)
    BY <1>5 DEF ExistsBijection
  <1> QED BY <1>4, <1>6, FS_Bijection DEF Loud

LEMMA Totals ==
    /\ summarise.companies = Cardinality(Reachable)
    /\ summarise.closed_with_leader =
            Cardinality({c \in Reachable : ~Reach[c].has_front_door /\ Reach[c].data_leaders > 0})
    /\ summarise.all_three =
            Cardinality({c \in Reachable : /\ Reach[c].core_peers > 0
                                           /\ Reach[c].data_leaders > 0
                                           /\ Reach[c].has_front_door})
  <1>1. DOMAIN Reach = Reachable
    BY DEF Reach
  <1> QED BY <1>1 DEF summarise

\* Whoever Companies counts at an employer, Job Search lists when the name is typed,
\* but for the undated and the differently spelled, and both count the same employers
\* (company_reach, the filters of 3_Job_Search.py), for any network.
THEOREM EmployersAreListed == Spec => []EmployersLeadToPeople
  <1>1. ASSUME NetInv, NEW name \in Reachable
        PROVE  LET row  == Reach[name]
                   lost == Cardinality(Lost(name))
               IN  /\ \E p \in At(name) : network[p].company = name
                   /\ row.recruiters <= Cardinality(Listed(name, {"recruiter_talent"})) + lost
                   /\ row.data_leaders
                        <= Cardinality(Listed(name, {"leadership", "executive"})) + lost
                   /\ row.core_peers > 0 =>
                        \/ lost > 0
                        \/ \E p \in Listed(name, {}) : Route(p) \in {"field_leader", "field_peer"}
    <2> DEFINE k == company_key[name]
    <2>1. Reach[name] = reach_row(network, k)
      BY DEF Reach
    <2>2. Cardinality(Recruiters(k))
            <= Cardinality(Listed(name, {"recruiter_talent"})) + Cardinality(Lost(name))
      <3>1. Recruiters(k) \in SUBSET At(name)
        BY DEF Recruiters, At
      <3>2. \A p \in Recruiters(k) :
                {"recruiter_talent"} \cap tag_connection[network[p].position] # {}
        BY DEF Recruiters, Recruits
      <3> QED BY <1>1, <3>1, <3>2, CountedAreListed
    <2>3. Cardinality(DataLeaders(k))
            <= Cardinality(Listed(name, {"leadership", "executive"})) + Cardinality(Lost(name))
      <3>1. DataLeaders(k) \in SUBSET At(name)
        BY DEF DataLeaders, At
      <3>2. \A p \in DataLeaders(k) :
                {"leadership", "executive"} \cap tag_connection[network[p].position] # {}
        BY DEF DataLeaders, is_data_leader, Leads
      <3> QED BY <1>1, <3>1, <3>2, CountedAreListed
    <2>4. ASSUME Cardinality(CorePeers(k)) > 0, ~(Cardinality(Lost(name)) > 0)
          PROVE  \E p \in Listed(name, {}) : Route(p) \in {"field_leader", "field_peer"}
      <3>1. CorePeers(k) # {} /\ Lost(name) = {}
        <4>1. CorePeers(k) \in SUBSET DOMAIN network /\ Lost(name) \in SUBSET DOMAIN network
          BY DEF CorePeers, Lost, At
        <4>2. /\ Cardinality(CorePeers(k)) = 0 <=> CorePeers(k) = {}
              /\ Cardinality(Lost(name)) \in Nat
              /\ Cardinality(Lost(name)) = 0 <=> Lost(name) = {}
          BY <1>1, <4>1, Counted
        <4> QED BY <2>4, <4>2
      <3>2. PICK p \in DOMAIN network : KeyAt(p) = k /\ InTarget(network[p].position)
        BY <3>1 DEF CorePeers
      <3>3. p \in At(name) /\ p \in Listed(name, {})
        <4>1. p \in At(name)
          BY <3>2 DEF At
        <4> QED BY <1>1, <3>1, <4>1, ListedOrLost
      <3>4. network[p].company # NoCompany
        <4>1. network[p].company \in found_by[name]
          BY <3>1, <3>3 DEF Lost
        <4>2. name \in Company
          BY <1>1, EmployerOfTable
        <4>3. found_by[name] \in SUBSET Company
          BY <4>2, SpellingAssumption
        <4>4. NoCompany \notin Company
          BY ReferralAssumption
        <4> QED BY <4>1, <4>3, <4>4
      <3> QED BY <3>2, <3>3, <3>4, RouteCases
    <2> QED BY <1>1, <2>1, <2>2, <2>3, <2>4, EmployerOfTable, ReachCounts
  <1>2. ASSUME NetInv
        PROVE  Summary(Everybody).matching = Cardinality({p \in DOMAIN network : ~Undated(p)})
    <2>1. Summary(Everybody).matching = Cardinality(Shown(Everybody))
      BY DEF Summary
    <2> QED BY <1>2, <2>1, EverybodyShown
  <1>3. ASSUME NetInv, Unknown \notin {network[p].company : p \in DOMAIN network}
        PROVE  Summary(Everybody).covered + Cardinality(Silent) = summarise.companies
    <2>1. Summary(Everybody).covered = Cardinality(Covered)
      BY DEF Summary, Covered
    <2>2. Cardinality(Covered) = Cardinality(Reachable \ Silent)
      BY <1>3, CoveredAreReachable
    <2>3. Silent \in SUBSET Reachable /\ Reachable \cap Silent = Silent
      BY DEF Silent
    <2>4. Cardinality(Reachable \ Silent) = Cardinality(Reachable) - Cardinality(Silent)
      BY <1>3, <2>3, ReachableFinite, FS_Difference
    <2>5. Cardinality(Reachable) \in Nat /\ Cardinality(Silent) \in Nat
      BY <1>3, <2>3, ReachableFinite, FS_Subset, FS_CardinalityType
    <2> QED BY <2>1, <2>2, <2>4, <2>5, Totals
  <1>4. ASSUME NetInv PROVE Cardinality(ShownEmployers("Has one", TRUE)) >= summarise.all_three
    <2> DEFINE three == {c \in Reachable : /\ Reach[c].core_peers > 0
                                           /\ Reach[c].data_leaders > 0
                                           /\ Reach[c].has_front_door}
    <2>1. /\ three \in SUBSET ShownEmployers("Has one", TRUE)
          /\ ShownEmployers("Has one", TRUE) \in SUBSET Reachable
      BY DEF ShownEmployers
    <2>2. IsFiniteSet(ShownEmployers("Has one", TRUE)) /\ IsFiniteSet(three)
      BY <1>4, <2>1, ReachableFinite, FS_Subset
    <2>3. summarise.all_three = Cardinality(three)
      BY Totals
    <2> HIDE DEF three
    <2> QED BY <1>4, <2>1, <2>2, <2>3, FewerEmployers, FS_CardinalityType
  <1>5. ASSUME NetInv
        PROVE  summarise.closed_with_leader <= Cardinality(ShownEmployers("None", FALSE))
    <2> DEFINE closed == {c \in Reachable : ~Reach[c].has_front_door /\ Reach[c].data_leaders > 0}
    <2>1. /\ closed \in SUBSET ShownEmployers("None", FALSE)
          /\ ShownEmployers("None", FALSE) \in SUBSET Reachable
      BY DEF ShownEmployers
    <2>2. summarise.closed_with_leader = Cardinality(closed)
      BY Totals
    <2> HIDE DEF closed
    <2> QED BY <1>5, <2>1, <2>2, FewerEmployers
  <1>6. NetInv => EmployersLeadToPeople
    BY <1>1, <1>2, <1>3, <1>4, <1>5 DEF EmployersLeadToPeople
  <1> QED BY <1>6, NetInvariant, PTL

\* The best score of the people a filter shows is one of them, or zero.
LEMMA BestIsGreatest ==
    ASSUME NetInv, NEW filter
    PROVE  LET best == Summary(filter).best
           IN  /\ Shown(filter) = {} => best = 0
               /\ Shown(filter) # {} =>
                    /\ \E p \in Shown(filter) : best = Score(p)
                    /\ \A p \in Shown(filter) : Score(p) <= best
  <1> DEFINE shown  == Shown(filter)
             scores == [p \in shown |-> ScoreShown(p, filter)]
             T      == {scores[p] : p \in shown}
  <1>1. shown \in SUBSET DOMAIN network
    BY DEF Shown
  <1>2. \A p \in shown : scores[p] = Score(p)
    BY DEF ScoreShown, Score, DataTeams
  <1>3. \A p \in DOMAIN network : Score(p) \in Nat
    BY ScoreOnScale DEF Score, NetInv
  <1>4. Summary(filter).best =
            IF shown = {} THEN 0
            ELSE scores[CHOOSE p \in shown : \A q \in shown : scores[q] <= scores[p]]
    BY DEF Summary
  <1>5. ASSUME shown # {} PROVE \E p \in shown : \A q \in shown : scores[q] <= scores[p]
    <2>1. T \in SUBSET Nat /\ T # {}
      BY <1>1, <1>2, <1>3, <1>5
    <2>2. IsFiniteSet(T)
      <3>1. scores \in Surjection(shown, T)
        BY DEF Surjection
      <3>2. IsFiniteSet(shown)
        BY <1>1, Counted
      <3> HIDE DEF shown, scores, T
      <3> QED BY <3>1, <3>2, FS_Surjection
    <2>3. PICK n \in T : \A m \in T : m <= n
      <3> HIDE DEF T
      <3> QED BY <2>1, <2>2, GreatestNatural
    <2>4. PICK p \in shown : n = scores[p]
      OBVIOUS
    <2>5. \A q \in shown : scores[q] \in T
      OBVIOUS
    <2> QED BY <2>3, <2>4, <2>5
  <1> HIDE DEF shown, scores
  <1>6. ASSUME shown # {}
        PROVE  /\ \E p \in shown : Summary(filter).best = Score(p)
               /\ \A p \in shown : Score(p) <= Summary(filter).best
    <2> DEFINE top == CHOOSE p \in shown : \A q \in shown : scores[q] <= scores[p]
    <2>1. top \in shown /\ \A q \in shown : scores[q] <= scores[top]
      BY <1>5, <1>6
    <2>2. Summary(filter).best = scores[top]
      BY <1>4, <1>6
    <2> HIDE DEF top
    <2> QED BY <1>2, <2>1, <2>2
  <1> QED BY <1>4, <1>6 DEF shown

\* A filter with the default dates lists some of the people the default filter lists.
LEMMA FilterNarrows ==
    ASSUME NetInv, NEW filter, filter.dates = Everybody.dates
    PROVE  Shown(filter) \in SUBSET Shown(Everybody)
  <1>1. ASSUME NEW p \in DOMAIN network
        PROVE  /\ MatchesTags(p, Everybody) /\ MatchesPeople(p, Everybody)
               /\ MatchesCompany(p, Everybody)
               /\ MatchesDates(p, filter) => MatchesDates(p, Everybody)
    <2>1. MatchesTags(p, Everybody) /\ MatchesPeople(p, Everybody) /\ MatchesCompany(p, Everybody)
      BY DEF MatchesTags, MatchesPeople, MatchesCompany, Everybody
    <2>2. MatchesDates(p, filter) => MatchesDates(p, Everybody)
      BY DEF MatchesDates
    <2> QED BY <2>1, <2>2
  <1> QED BY <1>1 DEF Shown

\* The people a card counts as strong.
Strong(filter) == {p \in Shown(filter) : Score(p) >= Weights.field_peer}

LEMMA StrongCard ==
    ASSUME NEW filter
    PROVE  Summary(filter).strong = Cardinality(Strong(filter))
  <1> DEFINE scores == [p \in Shown(filter) |-> ScoreShown(p, filter)]
  <1>1. Summary(filter).strong =
            Cardinality({p \in DOMAIN scores : scores[p] >= Weights.field_peer})
    BY DEF Summary
  <1>2. DOMAIN scores = Shown(filter) /\ \A p \in Shown(filter) : scores[p] = Score(p)
    BY DEF ScoreShown, Score, DataTeams
  <1> HIDE DEF scores
  <1>3. {p \in DOMAIN scores : scores[p] >= Weights.field_peer} = Strong(filter)
    BY <1>2 DEF Strong
  <1> QED BY <1>1, <1>3

\* Filters decide who is listed and never what they score (the in-house flag is
\* attached before any filter), and a filtered page's cards show no better best score
\* and no more strong referrals than the unfiltered page's.
THEOREM FiltersOnlyNarrow == Spec => []FiltersKeepScores
  <1>1. ASSUME NetInv, NEW filter, filter.dates = Everybody.dates
        PROVE  /\ Summary(filter).best <= Summary(Everybody).best
               /\ Summary(filter).strong <= Summary(Everybody).strong
    <2>1. Shown(filter) \in SUBSET Shown(Everybody) /\ Shown(Everybody) \in SUBSET DOMAIN network
      BY <1>1, FilterNarrows DEF Shown
    <2>2. \A p \in DOMAIN network : Score(p) \in Nat
      BY <1>1, ScoreOnScale DEF Score, NetInv
    <2>3. Summary(filter).best <= Summary(Everybody).best
      <3> DEFINE some == Summary(filter).best
                 all  == Summary(Everybody).best
      <3>1. Shown(Everybody) = {} => all = 0
        BY <1>1, BestIsGreatest
      <3>2. Shown(Everybody) # {} => /\ \E p \in Shown(Everybody) : all = Score(p)
                                     /\ \A p \in Shown(Everybody) : Score(p) <= all
        BY <1>1, BestIsGreatest
      <3>3. Shown(filter) = {} => some = 0
        BY <1>1, BestIsGreatest
      <3>4. Shown(filter) # {} => \E p \in Shown(filter) : some = Score(p)
        BY <1>1, BestIsGreatest
      <3>5. all \in Nat
        BY <2>1, <2>2, <3>1, <3>2
      <3> HIDE DEF some, all
      <3>6. CASE Shown(filter) = {}
        BY <3>3, <3>5, <3>6 DEF some, all
      <3>7. CASE Shown(filter) # {}
        BY <2>1, <3>2, <3>4, <3>7 DEF some, all
      <3> QED BY <3>6, <3>7
    <2>4. Cardinality(Strong(filter)) <= Cardinality(Strong(Everybody))
      <3>1. Strong(filter) \in SUBSET Strong(Everybody)
            /\ Strong(Everybody) \in SUBSET DOMAIN network
        BY <2>1 DEF Strong
      <3> QED BY <1>1, <3>1, Counted, FS_Subset
    <2> QED BY <2>3, <2>4, StrongCard
  <1>2. NetInv => FiltersKeepScores
    <2> SUFFICES ASSUME NetInv, NEW filter, filter.dates # << 0 >> => filter.dates = Everybody.dates
                 PROVE  /\ \A p \in Shown(filter) : ScoreShown(p, filter) = Score(p)
                        /\ filter.dates # <<0>> =>
                            /\ Summary(filter).best <= Summary(Everybody).best
                            /\ Summary(filter).strong <= Summary(Everybody).strong
      <3>1. \A c \in Company : [Everybody EXCEPT !.company = c].dates = Everybody.dates
        BY DEF Everybody
      <3>2. \A p \in Person : [Everybody EXCEPT !.people = {p}].dates = Everybody.dates
        BY DEF Everybody
      <3>3. [Everybody EXCEPT !.tags = {"recruiter_talent"}, !.untagged = FALSE].dates
                = Everybody.dates
        BY DEF Everybody
      <3>4. [Everybody EXCEPT !.dates = <<0>>].dates = <<0>>
        BY DEF Everybody
      <3> QED BY <3>1, <3>2, <3>3, <3>4 DEF FiltersKeepScores
    <2>1. \A p \in Shown(filter) : ScoreShown(p, filter) = Score(p)
      BY DEF ScoreShown, Score, DataTeams
    <2> QED BY <1>1, <2>1
  <1> QED BY <1>2, NetInvariant, PTL
=============================================================================
