--------------------------- MODULE ReferralScoring ---------------------------
(***************************************************************************)
(* The two taxonomies of job titles, the referral score of one connection  *)
(* and the reach table of employers: pure functions, without a state.      *)
(*                                                                         *)
(* A title is the sequence of its words.  The keyword tables are those of  *)
(* streamlit_app/tagging.py cut down to a vocabulary in which every kind   *)
(* of rule survives: one word and two, several tags on one word, the same  *)
(* family claimed twice, an early rule that takes what a later one wants.  *)
(***************************************************************************)
EXTENDS Integers, Sequences, FiniteSets

CONSTANTS
    Title,           \* the titles exports give
    Company,         \* the employers as exports spell them
    NoCompany,       \* no employer in the export
    Unknown,         \* "(unknown)", the label Silver gives a blank company
    company_key,     \* the employer a label stands for: case and spaces folded
    NoDate,          \* a connected_on that did not parse
    Weights,         \* ReferralWeights
    Warmth,          \* points of warmth by days since the connection was made
    RecentMoveDays   \* recent_move_months, in days

-----------------------------------------------------------------------------
\* tagging.py

TagKeywords == [
    recruiter_talent |-> {<<"recruiter">>, <<"people">>},
    leadership       |-> {<<"manager">>, <<"head">>},
    executive        |-> {<<"chief">>, <<"president">>},
    target_peer      |-> {<<"data">>, <<"analytics">>, <<"data", "engineer">>},
    engineering      |-> {<<"engineer">>},
    early_career     |-> {<<"intern">>, <<"junior">>}]

\* Words _C_LEVEL_PATTERN matches.
CLevel == {<<"ceo">>, <<"cdo">>}

Tag == DOMAIN TagKeywords

JobFamilyRules == <<
    [family |-> "Analytics Engineering", keywords |-> {<<"analytics", "engineer">>}],
    [family |-> "Data Engineering",      keywords |-> {<<"data", "engineer">>}],
    [family |-> "Business Analysis",     keywords |-> {<<"business", "analyst">>}],
    [family |-> "Data Analytics",        keywords |-> {<<"data", "analyst">>, <<"analytics">>}],
    [family |-> "Talent & Recruiting",   keywords |-> {<<"recruiter">>, <<"people", "partner">>}],
    [family |-> "Software Engineering",  keywords |-> {<<"engineer">>}],
    [family |-> "Sales & Marketing",     keywords |-> {<<"sales">>}],
    [family |-> "Founder & Executive",   keywords |-> {<<"chief">>, <<"ceo">>, <<"president">>}],
    [family |-> "Business Analysis",     keywords |-> {<<"analyst">>}] >>

OtherFamily == "Other"

TargetFamilies   == {"Data Analytics", "Data Engineering", "Analytics Engineering"}
AdjacentFamilies == {"Business Analysis", "Software Engineering"}

\* A keyword is matched on word boundaries, as a run of adjacent words.
Mentions(title, keyword) ==
    \E i \in 1 .. Len(title) - Len(keyword) + 1 :
        SubSeq(title, i, i + Len(keyword) - 1) = keyword

MentionsAny(title, keywords) == \E k \in keywords : Mentions(title, k)

tag_connection == [title \in Title |->
    {t \in Tag : MentionsAny(title, TagKeywords[t])}
        \cup IF MentionsAny(title, CLevel) THEN {"executive"} ELSE {}]

\* The first rule that matches; a title no rule claims is in Other.
Claims(title) ==
    {i \in DOMAIN JobFamilyRules : MentionsAny(title, JobFamilyRules[i].keywords)}

FirstOf(claims) == CHOOSE i \in claims : \A j \in claims : i <= j

job_family == [title \in Title |->
    IF Claims(title) = {} THEN OtherFamily ELSE JobFamilyRules[FirstOf(Claims(title))].family]

Leads(title)      == tag_connection[title] \cap {"leadership", "executive"} # {}
Recruits(title)   == "recruiter_talent" \in tag_connection[title]
InTarget(title)   == job_family[title] \in TargetFamilies
InAdjacent(title) == job_family[title] \in AdjacentFamilies
TaggedPeer(title) == "target_peer" \in tag_connection[title]

-----------------------------------------------------------------------------
\* scoring.py

BasePath == {"field_leader", "field_peer", "inhouse_recruiter", "adjacent_leader",
             "adjacent_peer", "outside_recruiter", "outside_leader"}
LeaderPath == {"field_leader", "adjacent_leader", "outside_leader"}
Path == BasePath \cup {"none", "no_employer"}

\* One row of load_current_connections.
Row == [position     : Title,
        company      : Company \cup {NoCompany},
        connected_on : Nat \cup {NoDate},
        valid_from   : Nat,       \* the day of dbt_valid_from
        previous     : BOOLEAN]   \* has_previous_version

ASSUME ReferralAssumption ==
    /\ Title \subseteq Seq(STRING)
    /\ NoCompany \notin Company
    /\ DOMAIN company_key = Company \cup {Unknown}
    /\ NoDate \notin Nat
    /\ Weights \in [BasePath \cup {"seniority", "warmth", "recent_move",
                                   "early_career_penalty"} -> Nat]
    /\ RecentMoveDays \in Nat

\* company_label and company_key of stg_connections.sql: a company spelled like the
\* label of a blank one is the same employer.
LabelOf(company) == IF company = NoCompany THEN Unknown ELSE company
KeyOf(company) == company_key[LabelOf(company)]

\* company_data_teams: the employers of people who do technical data work.
company_data_teams(rows) ==
    {KeyOf(row.company) : row \in {r \in rows : InTarget(r.position) \/ InAdjacent(r.position)}}

\* The most direct route that fits.
referral_path(title, hasDataTeam) ==
    IF Leads(title) /\ (InTarget(title) \/ TaggedPeer(title)) THEN "field_leader"
    ELSE IF InTarget(title) THEN "field_peer"
    ELSE IF Recruits(title) /\ hasDataTeam THEN "inhouse_recruiter"
    ELSE IF Recruits(title) THEN "outside_recruiter"
    ELSE IF Leads(title) /\ InAdjacent(title) THEN "adjacent_leader"
    ELSE IF InAdjacent(title) THEN "adjacent_peer"
    ELSE IF Leads(title) THEN "outside_leader"
    ELSE "none"

PathOf(row, teams) ==
    IF row.company = NoCompany THEN "no_employer"
    ELSE referral_path(row.position, KeyOf(row.company) \in teams)

base_points(path) == IF path \in BasePath THEN Weights[path] ELSE 0

SenioritySignal(title) == Leads(title) \/ Mentions(title, <<"senior">>)

\* Faulty: a leader's title counts twice.
SeniorityCountedTwice(row, path) == IF SenioritySignal(row.position) THEN Weights.seniority ELSE 0

\* Leaders have it in their base.
SeniorityPoints(row, path) ==
    IF path \notin LeaderPath /\ SenioritySignal(row.position) THEN Weights.seniority ELSE 0

WarmthPoints(row, today) ==
    IF row.connected_on # NoDate /\ row.connected_on <= today
    THEN Warmth[today - row.connected_on] ELSE 0

\* dbt_valid_from has a time of day and today is a midnight: the whole days in
\* between are one less than the dates say, so on the day of the move it is -1.
DaysSinceMove(row, today) == today - row.valid_from - 1

\* Faulty: the comparison the other way round.
MovedLongAgo(row, today) ==
    row.previous /\ DaysSinceMove(row, today) > RecentMoveDays

MovedRecently(row, today) ==
    row.previous /\ DaysSinceMove(row, today) \in 0 .. RecentMoveDays

MovePoints(row, today) == IF MovedRecently(row, today) THEN Weights.recent_move ELSE 0

EarlyCareerPoints(row) ==
    IF "early_career" \in tag_connection[row.position] THEN -Weights.early_career_penalty ELSE 0

\* score_referral: warmth modifies a route and does not make one.
score_referral(row, teams, today) ==
    LET path  == PathOf(row, teams)
        total == base_points(path) + SeniorityPoints(row, path) + WarmthPoints(row, today)
                     + MovePoints(row, today) + EarlyCareerPoints(row)
    IN  IF base_points(path) = 0 \/ total < 0 THEN 0 ELSE total

\* ReferralWeights.maximum, the end of the scale the scores are shown on.
Maximum ==
    LET bases == {Weights[p] : p \in BasePath}
    IN  (CHOOSE b \in bases : \A c \in bases : c <= b) + Weights.warmth + Weights.recent_move

\* The base a title may earn seniority on top of leaves room for it below the
\* strongest one: 40 and 5 are less than 50 in DEFAULT_WEIGHTS.  Without it a
\* score may exceed Maximum.
SeniorityFits ==
    \A w \in BasePath \ LeaderPath :
        \E top \in BasePath : Weights[w] + Weights.seniority <= Weights[top]

-----------------------------------------------------------------------------
\* companies.py

\* Faulty: by family alone, which "Head of Data" is not in.
LeadsDataFamily(title) == Leads(title) /\ (InTarget(title) \/ InAdjacent(title))

\* A leader counts where they lead something that could open a data role.
is_data_leader(title) ==
    Leads(title) /\ (InTarget(title) \/ InAdjacent(title) \/ TaggedPeer(title))

\* How many of the people, a function to rows, are at an employer and fit.
HowMany(people, key, Fits(_)) ==
    Cardinality({p \in DOMAIN people :
        KeyOf(people[p].company) = key /\ Fits(people[p].position)})

IsData(title) == InTarget(title) \/ InAdjacent(title)

\* One row of company_reach.  The order of the table is left out.
reach_row(people, key) ==
    LET core_peers   == HowMany(people, key, InTarget)
        data_people  == HowMany(people, key, IsData)
        data_leaders == HowMany(people, key, is_data_leader)
        recruiters   == HowMany(people, key, Recruits)
    IN  [core_peers |-> core_peers, data_people |-> data_people,
         data_leaders |-> data_leaders, recruiters |-> recruiters,
         reach |-> 3 * core_peers + 3 * data_leaders + 2 * recruiters + data_people,
         has_front_door |-> recruiters > 0]
=============================================================================
