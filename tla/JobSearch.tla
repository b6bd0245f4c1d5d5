------------------------------ MODULE JobSearch ------------------------------
(***************************************************************************)
(* The Job Search and Companies pages over a network that changes: people  *)
(* are ingested, move, leave and come back, and days pass.                 *)
(***************************************************************************)
EXTENDS ReferralScoring

FSE == INSTANCE FiniteSetsExt

CONSTANTS
    Person,        \* connection_id
    alphabetical,  \* the place of a label in alphabetical order
    found_by,      \* the companies that contain a text, case and accents folded
    MaxDay,        \* bound on the calendar
    MaxVersions    \* bound on the SCD2 versions of one person

VARIABLES
    network,    \* load_current_connections: the open row of who has one
    versions,   \* how many rows of dim_connection each person has
    today       \* the day the pages are looked at

vars == <<network, versions, today>>

Day == 0 .. MaxDay

ASSUME JobSearchAssumption ==
    /\ MaxDay \in Nat
    /\ MaxVersions \in Nat
    /\ Warmth \in [Day -> 0 .. Weights.warmth]
    /\ \A d, e \in Day : d <= e => Warmth[e] <= Warmth[d]

\* Of the spellings of "(unknown)" the one in small letters comes last, and a text is
\* in itself.
ASSUME SpellingAssumption ==
    /\ alphabetical \in [Company \cup {Unknown} -> Nat]
    /\ \A l, m \in Company \cup {Unknown} : alphabetical[l] = alphabetical[m] => l = m
    /\ \A l \in Company : company_key[l] = company_key[Unknown] =>
            alphabetical[l] <= alphabetical[Unknown]
    /\ found_by \in [Company -> SUBSET Company]
    /\ \A c \in Company : c \in found_by[c]
    /\ "" \notin Company

Init ==
    /\ network = << >>
    /\ versions = [p \in Person |-> 0]
    /\ today = 0

\* The people of a set, as the rows a page has of them.
Restricted(people) == [p \in people |-> network[p]]

\* dbt snapshot opens a version of p today.
Opened(p, title, company, date) ==
    /\ versions[p] < MaxVersions
    /\ versions' = [versions EXCEPT ![p] = @ + 1]
    /\ network' = [q \in DOMAIN network \cup {p} |->
           IF q # p THEN network[q]
           ELSE [position |-> title, company |-> company, connected_on |-> date,
                 valid_from |-> today, previous |-> versions[p] > 0]]
    /\ UNCHANGED today

Join(p, title, company, date) ==
    /\ p \notin DOMAIN network
    /\ Opened(p, title, company, date)

\* The company or the title changed; the date of the connection stays.
Move(p, title, company) ==
    /\ p \in DOMAIN network
    /\ <<title, company>> # <<network[p].position, network[p].company>>
    /\ Opened(p, title, company, network[p].connected_on)

Leave(p) ==
    /\ p \in DOMAIN network
    /\ network' = Restricted(DOMAIN network \ {p})
    /\ UNCHANGED <<versions, today>>

NextDay ==
    /\ today < MaxDay
    /\ today' = today + 1
    /\ UNCHANGED <<network, versions>>

Employer == Company \cup {NoCompany}

Next ==
    \/ NextDay
    \/ \E p \in Person :
        \/ Leave(p)
        \/ \E title \in Title, company \in Employer :
            \/ Move(p, title, company)
            \/ \E date \in (0 .. today) \cup {NoDate} : Join(p, title, company, date)

Spec == Init /\ [][Next]_vars

-----------------------------------------------------------------------------
\* load_current_connections

KeyAt(p) == KeyOf(network[p].company)

\* The name dim_company has for an employer somebody is at: of the labels in the
\* newest export, which are those of the open rows, the first in alphabetical order.
company_name(key) ==
    LET labels == {LabelOf(network[p].company) : p \in {q \in DOMAIN network : KeyAt(q) = key}}
    IN  CHOOSE l \in labels : \A m \in labels : alphabetical[l] <= alphabetical[m]

-----------------------------------------------------------------------------
\* The Job Search page

\* A filter is what the widgets hold: the people whose name or title the first box
\* matches (an empty box is an empty set), the text of the second, a set of tags and
\* whether to list people without a tag, and a range of dates.

\* Faulty: a connection has to carry every selected tag.
CarriesEveryTag(p, filter) == filter.tags \subseteq tag_connection[network[p].position]

MatchesTags(p, filter) ==
    LET tags == tag_connection[network[p].position]
    IN  IF tags = {} THEN filter.untagged
        ELSE filter.tags = {} \/ tags \cap filter.tags # {}

Dates == {network[p].connected_on : p \in DOMAIN network} \ {NoDate}

\* The widgets as the page first shows them.  The range goes from the earliest date
\* in the network to the latest, and is empty when no date parsed.
Everybody == [people |-> {}, company |-> "", tags |-> {}, untagged |-> TRUE,
              dates |-> IF Dates = {} THEN << >> ELSE <<FSE!Min(Dates), FSE!Max(Dates)>>]

MatchesPeople(p, filter) == filter.people = {} \/ p \in filter.people

\* An empty box lets everybody through; a text is looked for in the company as the
\* export spells it.
MatchesCompany(p, filter) ==
    filter.company = "" \/ network[p].company \in found_by[filter.company]

\* No range, or half of one, is no filter; between() is false of a date that is missing.
MatchesDates(p, filter) ==
    \/ Len(filter.dates) < 2
    \/ /\ network[p].connected_on # NoDate
       /\ network[p].connected_on \in filter.dates[1] .. filter.dates[2]

Shown(filter) ==
    {p \in DOMAIN network :
        /\ MatchesTags(p, filter) /\ MatchesPeople(p, filter)
        /\ MatchesCompany(p, filter) /\ MatchesDates(p, filter)}

RowsOf(people) == {network[p] : p \in people}

\* Faulty: computed on the rows that are shown.
DataTeamsShown(filter) == company_data_teams(RowsOf(Shown(filter)))

\* The in-house flag is attached before any filter narrows the frame.
DataTeams(filter) == company_data_teams(RowsOf(DOMAIN network))

Route(p) ==
    PathOf(network[p], company_data_teams(RowsOf(DOMAIN network)))

Score(p) ==
    score_referral(network[p], company_data_teams(RowsOf(DOMAIN network)), today)

ScoreShown(p, filter) == score_referral(network[p], DataTeams(filter), today)

\* The cards above the table.
Summary(filter) ==
    LET scores == [p \in Shown(filter) |-> ScoreShown(p, filter)]
        shown  == DOMAIN scores
    IN  [matching |-> Cardinality(shown),
         strong   |-> Cardinality({p \in shown : scores[p] >= Weights.field_peer}),
         covered  |-> Cardinality({KeyAt(p) : p \in {q \in shown : network[q].company # NoCompany}}),
         best     |-> IF shown = {} THEN 0
                      ELSE scores[CHOOSE p \in shown : \A q \in shown : scores[q] <= scores[p]]]

-----------------------------------------------------------------------------
\* The Companies page

\* company_reach: the employers somebody is at, by name, each with its row.
Reachable == {company_name(KeyAt(p)) : p \in DOMAIN network} \ {Unknown}
Reach == [name \in Reachable |-> reach_row(network, company_key[name])]

summarise ==
    LET reach == Reach
        HowManyAre(Fit(_)) == Cardinality({c \in DOMAIN reach : Fit(reach[c])})
    IN  [companies          |-> Cardinality(DOMAIN reach),
         with_core          |-> HowManyAre(LAMBDA row : row.core_peers > 0),
         front_door         |-> HowManyAre(LAMBDA row : row.has_front_door),
         closed_with_leader |-> HowManyAre(LAMBDA row :
                                    ~row.has_front_door /\ row.data_leaders > 0),
         all_three          |-> HowManyAre(LAMBDA row :
                                    /\ row.core_peers > 0
                                    /\ row.data_leaders > 0
                                    /\ row.has_front_door)]

\* The employers of the table.
ShownEmployers(door, only_in_field) ==
    {c \in Reachable :
        LET row == Reach[c]
        IN  /\ door = "Has one" => row.has_front_door
            /\ door = "None" => ~row.has_front_door
            /\ only_in_field => row.core_peers > 0}

-----------------------------------------------------------------------------
(***************************************************************************)
(* Properties.                                                             *)
(***************************************************************************)

\* The rows and their counts have their types, and every score is on the scale the
\* page shows it on: none exceeds the "max possible" of ReferralWeights.maximum,
\* which is computed from some of the weights only.
TypeOK ==
    /\ DOMAIN network \subseteq Person
    /\ \A p \in DOMAIN network : network[p] \in Row /\ Score(p) \in 0 .. Maximum
    /\ versions \in [Person -> 0 .. MaxVersions]
    /\ today \in Day

\* The two pages classify titles on their own and agree: the route Job Search
\* gives somebody is in the counts Companies gives their employer, and a data team
\* there is what tells an in-house recruiter from an outside one.
PathsAgreeWithReach ==
    \A name \in Reachable, p \in DOMAIN network :
        (KeyAt(p) = company_key[name] /\ network[p].company # NoCompany) =>
            LET row  == Reach[name]
                path == Route(p)
            IN  /\ path = "field_peer" => row.core_peers > 0
                /\ path \in {"field_leader", "adjacent_leader"} => row.data_leaders > 0
                /\ path = "inhouse_recruiter" => row.recruiters > 0 /\ row.data_people > 0
                /\ path = "outside_recruiter" => row.recruiters > 0 /\ row.data_people = 0

\* Who is at an employer of the table, and whom Job Search lists of them when the name
\* is typed and tags are selected.
At(name) == {p \in DOMAIN network : KeyAt(p) = company_key[name]}
Listed(name, tags) ==
    At(name) \cap Shown([Everybody EXCEPT !.company = name, !.tags = tags,
                                          !.untagged = (tags = {})])

\* Who has no date, in a network where somebody has: the default range hides them.
Undated(p) == network[p].connected_on = NoDate /\ Dates # {}

\* Whom the name does not lead to, and the employers it leads to nobody of.
Lost(name) == {p \in At(name) : Undated(p) \/ network[p].company \notin found_by[name]}
Silent == {name \in Reachable : \A p \in At(name) : Undated(p) \/ network[p].company = NoCompany}

\* "... filter by a company name to see who to approach there" (4_Companies.py).  Typing
\* an employer's name lists everybody the Companies page counts there, but for who has
\* no date and whose company is spelled so that the text is not in it.  The name is the
\* spelling of somebody there, and the cards count the same employers, short of those
\* where everybody is without a date.
EmployersLeadToPeople ==
    /\ \A name \in Reachable :
        LET row  == Reach[name]
            lost == Cardinality(Lost(name))
        IN  /\ \E p \in At(name) : network[p].company = name
            /\ row.recruiters <= Cardinality(Listed(name, {"recruiter_talent"})) + lost
            /\ row.data_leaders
                    <= Cardinality(Listed(name, {"leadership", "executive"})) + lost
            /\ row.core_peers > 0 =>
                    \/ lost > 0
                    \/ \E p \in Listed(name, {}) : Route(p) \in {"field_leader", "field_peer"}
    /\ LET all    == Summary(Everybody)
           totals == summarise
       IN  /\ all.matching = Cardinality({p \in DOMAIN network : ~Undated(p)})
           /\ Unknown \notin {network[p].company : p \in DOMAIN network} =>
                all.covered + Cardinality(Silent) = totals.companies
           /\ Cardinality(ShownEmployers("Has one", TRUE)) >= totals.all_three
           /\ totals.closed_with_leader <= Cardinality(ShownEmployers("None", FALSE))

\* What is typed into a filter decides who is listed and never what they score, nor
\* do the cards promise more than the whole network has.
FiltersKeepScores ==
    LET all    == Summary(Everybody)
        Narrow == {[Everybody EXCEPT !.company = c] : c \in Company}
                    \cup {[Everybody EXCEPT !.people = {p}] : p \in Person}
                    \cup {[Everybody EXCEPT !.tags = {"recruiter_talent"}, !.untagged = FALSE],
                          [Everybody EXCEPT !.dates = <<0>>]}
    IN  \A filter \in Narrow :
            LET some == Summary(filter)
            IN  /\ \A p \in Shown(filter) : ScoreShown(p, filter) = Score(p)
                /\ filter.dates # <<0>> => some.best <= all.best /\ some.strong <= all.strong

\* With time a score only fades.  The exception is the day after a move, when the
\* bonus for it first counts.
ScoresOnlyFade ==
    [][today' # today =>
        \A p \in DOMAIN network : network[p].valid_from = today \/ Score(p)' <= Score(p)]_vars
=============================================================================
