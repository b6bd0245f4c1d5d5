----------------------------- MODULE JobSearchMC -----------------------------
(***************************************************************************)
(* An instance of JobSearch for TLC: the default weights, one day standing *)
(* for half a year, and titles of every kind of route.                     *)
(***************************************************************************)
EXTENDS JobSearch, TLC

DefaultWeights ==
    [field_leader |-> 50, field_peer |-> 40, inhouse_recruiter |-> 35, adjacent_leader |-> 30,
     adjacent_peer |-> 18, outside_recruiter |-> 15, outside_leader |-> 8,
     seniority |-> 5, warmth |-> 15, recent_move |-> 10, early_career_penalty |-> 10]

\* round(15 * exp(-months / 24)) at 0, 6 and 12 months.
HalfYears == [d \in Day |-> CASE d = 0 -> 15 [] d = 1 -> 12 [] OTHER -> 9]

Titles == {
    <<"cdo", "data">>,                  \* leads, in no data family
    <<"data", "engineer">>,
    <<"people", "manager">>,            \* recruits and leads
    <<"engineer", "people">>,           \* adjacent and tagged as a recruiter
    <<"engineer", "manager">>,
    <<"senior", "business", "analyst">>,
    <<"junior", "sales", "manager">>}   \* a weak route and a penalty

\* One employer in two spellings, another whose name is part of theirs, and one
\* spelled like the label of a blank company.
Spellings == {"Acme Bank", "ACME  Bank", "Acme", "(Unknown)"}

Keys == [l \in Spellings \cup {"(unknown)"} |->
    CASE l \in {"Acme Bank", "ACME  Bank"} -> "acme bank"
      [] l = "Acme" -> "acme"
      [] OTHER -> "(unknown)"]

InOrder == [l \in Spellings \cup {"(unknown)"} |->
    CASE l = "(Unknown)" -> 1 [] l = "(unknown)" -> 2 [] l = "ACME  Bank" -> 3
      [] l = "Acme" -> 4 [] OTHER -> 5]

\* The spaces of a text count.
Containing == [l \in Spellings |-> IF l = "Acme" THEN Spellings \ {"(Unknown)"} ELSE {l}]

Interchangeable == Permutations(Person)

\* What is proved of scores on their scale is about these weights too.
ASSUME DefaultsFit == SeniorityFits
=============================================================================
