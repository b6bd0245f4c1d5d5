----------------------------- MODULE NetworkMarts -----------------------------
(***************************************************************************)
(* The models under dbt_project/models/marts, which ConnectionHistory      *)
(* rebuilds in one step, and what the Network Stats and Companies tabs     *)
(* count with them.  The employers of one snapshot are counted along four  *)
(* ways that must agree: mart_network_stats, mart_network_breakdown,       *)
(* dim_company and the current rows of dim_connection.                     *)
(***************************************************************************)
EXTENDS ConnectionHistory

FSE == INSTANCE FiniteSetsExt

CONSTANTS
    Label,               \* company_label: the spellings of employers in exports
    Unknown,             \* "(unknown)", Silver's label of a blank company
    company_label,       \* the label an Attribute carries
    company_key,         \* the employer a label stands for: case and spaces folded
    alphabetical,        \* the place of a label in alphabetical order
    Blank,               \* the Attributes whose company is blank
    RestrictedRows       \* rows without a profile URL or a company, per second

\* An employer may be spelled as the blank ones are labelled, or as "(Unknown)",
\* which has the same key: nothing keeps such a text out of an export.

ASSUME LabelAssumption ==
    /\ Unknown \in Label
    /\ company_label \in [Attribute -> Label]
    /\ DOMAIN company_key = Label
    /\ alphabetical \in [Label -> Nat]
    /\ \A l, m \in Label : alphabetical[l] = alphabetical[m] => l = m
    /\ Blank \subseteq Attribute
    /\ \A a \in Blank : company_label[a] = Unknown
    /\ RestrictedRows \in [Ts -> Nat]

VARIABLES
    stats,       \* the rows of mart_network_stats
    breakdown,   \* the rows of mart_network_breakdown, dimension "company"
    companies,   \* the rows of dim_company
    built        \* the models this run of dbt has committed

martVars == <<stats, breakdown, companies, built>>
allVars  == <<bronze, silver, dim, facts, clock, phase, stats, breakdown, companies, built>>

Model == {"fct", "stats", "breakdown", "companies"}

Keys == {company_key[l] : l \in Label}

StatsRow ==
    [ts : Ts, total : Nat, distinct_companies : Nat, without_company : Nat]
BreakdownRow == [ts : Ts, value : Label, count : Nat]
CompanyRow   == [key : Keys, name : Label, current : Nat]

MartsTypeOK ==
    /\ TypeOK
    /\ stats \subseteq StatsRow
    /\ breakdown \subseteq BreakdownRow
    /\ companies \subseteq CompanyRow
    /\ built \subseteq Model

MartsInit ==
    /\ Init
    /\ stats = {} /\ breakdown = {} /\ companies = {} /\ built = {}

-----------------------------------------------------------------------------
\* Who is where, by spelling and by employer.

LabelOf(a) == company_label[a]
KeyOf(a)   == company_key[LabelOf(a)]

\* The people of a snapshot at an employer, and those spelling it one way.
AtEmployer(b, k) == {c \in Present(b) : KeyOf(b.rows[c]) = k}
Spelling(b, l)   == {c \in Present(b) : LabelOf(b.rows[c]) = l}

Labels(b) == {LabelOf(b.rows[c]) : c \in Present(b)}
Employers(b) == {company_key[l] : l \in Labels(b)}

\* The keys of rows labelled otherwise than "(unknown)".
NamedEmployers(b) == {company_key[l] : l \in Labels(b) \ {Unknown}}

Undisclosed(b) == {c \in Present(b) : b.rows[c] \in Blank}

-----------------------------------------------------------------------------
\* mart_network_stats: total, employers, and from Silver the rows with no company.
\* The fact table has a row per person a snapshot lists.
StatsOf(fct) ==
    {[ts |-> b.ts,
      total |-> total_connections(b),
      distinct_companies |-> Cardinality(NamedEmployers(b)),
      without_company |-> Cardinality(Undisclosed(b)) + RestrictedRows[b.ts]]
        : b \in {x \in fct : Present(x) # {}}}

\* The spelling most connections carry, alphabetical order breaking ties.
DisplayLabel(b, k) ==
    CHOOSE l \in Labels(b) :
        /\ company_key[l] = k
        /\ \A m \in Labels(b) : company_key[m] = k /\ m # l =>
            \/ Cardinality(Spelling(b, m)) < Cardinality(Spelling(b, l))
            \/ /\ Cardinality(Spelling(b, m)) = Cardinality(Spelling(b, l))
               /\ alphabetical[l] < alphabetical[m]

\* Faulty: grouped by the raw label, as it once was.
ByLabel(fct) ==
    UNION {{[ts |-> b.ts, value |-> l, count |-> Cardinality(Spelling(b, l))]
                : l \in Labels(b)} : b \in fct}

\* mart_network_breakdown, dimension "company": one row per snapshot and employer.
ByCompany(fct) ==
    UNION {{[ts |-> b.ts, value |-> DisplayLabel(b, k), count |-> Cardinality(AtEmployer(b, k))]
                : k \in Employers(b)} : b \in fct}

\* The spelling of the newest export that has the employer, alphabetical order
\* breaking ties (latest_label).
LatestLabel(s, k) ==
    LET spelled == {b \in s : k \in Employers(b)}
        newest  == UNION {Labels(b) : b \in Newest(spelled)}
    IN  CHOOSE l \in newest :
            /\ company_key[l] = k
            /\ \A m \in newest : company_key[m] = k => alphabetical[l] <= alphabetical[m]

CurrentAt(k) == {c \in Connection : \E row \in OpenRows : row[1] = c /\ KeyOf(row[2]) = k}

\* Faulty: employers are taken from the fact table, without a ref() to wait for it.
CompaniesOfFacts(s) ==
    {[key |-> k, name |-> LatestLabel(facts, k), current |-> Cardinality(CurrentAt(k))]
        : k \in UNION {Employers(b) : b \in facts}}

\* Faulty: the dimension is keyed by the label.
CompaniesByLabel(s) ==
    {[key |-> LatestLabel(s, k), name |-> LatestLabel(s, k), current |-> Cardinality(CurrentAt(k))]
        : k \in UNION {Employers(b) : b \in s}}

\* dim_company: every employer of any export, and who is there now.
CompaniesOf(s) ==
    {[key |-> k, name |-> LatestLabel(s, k), current |-> Cardinality(CurrentAt(k))]
        : k \in UNION {Employers(b) : b \in s}}

-----------------------------------------------------------------------------
(***************************************************************************)
(* dbt run --select path:models/marts.  Models are built by four threads,  *)
(* each after those it refers to; each replaces its table in one commit.   *)
(* A retry builds the committed ones again from the same inputs, which     *)
(* changes nothing.                                                        *)
(***************************************************************************)

\* Faulty: incremental, so that older facts are kept.
BuildFctIncrementally ==
    /\ phase = "marts" /\ "fct" \notin built
    /\ facts' = facts \cup silver
    /\ built' = built \cup {"fct"}
    /\ UNCHANGED <<bronze, silver, dim, clock, phase, stats, breakdown, companies>>

BuildFct ==
    /\ phase = "marts" /\ "fct" \notin built
    /\ facts' = silver
    /\ built' = built \cup {"fct"}
    /\ UNCHANGED <<bronze, silver, dim, clock, phase, stats, breakdown, companies>>

BuildStats ==
    /\ phase = "marts" /\ "fct" \in built /\ "stats" \notin built
    /\ stats' = StatsOf(facts)
    /\ built' = built \cup {"stats"}
    /\ UNCHANGED <<vars, breakdown, companies>>

BuildBreakdown ==
    /\ phase = "marts" /\ "fct" \in built /\ "breakdown" \notin built
    /\ breakdown' = ByCompany(facts)
    /\ built' = built \cup {"breakdown"}
    /\ UNCHANGED <<vars, stats, companies>>

BuildCompanies ==
    /\ phase = "marts" /\ "companies" \notin built
    /\ companies' = CompaniesOf(silver)
    /\ built' = built \cup {"companies"}
    /\ UNCHANGED <<vars, stats, breakdown>>

MartsDone ==
    /\ phase = "marts" /\ built = Model
    /\ phase' = "tests"
    /\ built' = {}
    /\ UNCHANGED <<bronze, silver, dim, facts, clock, stats, breakdown, companies>>

\* The bars of a snapshot that name an employer.
NamedBars(t) == {x \in breakdown : x.ts = t /\ x.value # Unknown}

\* assert_company_counts_agree: where it finds a row, the tests task fails.
CompanyCountsTestPasses ==
    \A r \in stats : r.distinct_companies = Cardinality(NamedBars(r.ts))

\* The task fails for good: the models that were built stay as they are.
GiveUpRun ==
    /\ GiveUp
    /\ built' = {}
    /\ UNCHANGED <<stats, breakdown, companies>>

MartsNext ==
    \/ /\ \/ \E batch \in Batch : Ingest(batch)
          \/ StartTransform \/ BuildSilver \/ SnapshotDim
          \/ CompanyCountsTestPasses /\ Finish
       /\ UNCHANGED martVars
    \/ BuildFct \/ BuildStats \/ BuildBreakdown \/ BuildCompanies \/ MartsDone
    \/ GiveUpRun

MartsSpec == MartsInit /\ [][MartsNext]_allVars

-----------------------------------------------------------------------------
(***************************************************************************)
(* What the tabs show.                                                     *)
(***************************************************************************)

Latest(rows) == {r \in rows : \A s \in rows : s.ts <= r.ts}

\* The bars of "Top companies" (load_breakdown), before the limit.
load_breakdown == {r \in Latest(breakdown) : r.value # Unknown}

\* Faulty: the metric of the Data quality tab, restricted profiles included.
UndisclosedRows == {[count |-> r.without_company] : r \in Latest(stats)}

\* "... connection(s) disclosed none and are excluded from this chart"
\* (load_undisclosed_count).
load_undisclosed == {[count |-> r.count] : r \in {x \in Latest(breakdown) : x.value = Unknown}}

\* company_name of load_current_connections, a left join: the employer's rows.
company_name(a) == {r.name : r \in {x \in companies : x.key = KeyOf(a)}}

\* The employers of the Companies tab (company_reach): current connections whose
\* employer has a name.
Reachable == (UNION {company_name(row[2]) : row \in OpenRows}) \ {Unknown}

\* ... and how many connections each of them has.
Reach(name) ==
    Cardinality({c \in Connection : \E row \in OpenRows : row[1] = c /\ name \in company_name(row[2])})

\* "Employers" of the Composition tab: the keys of current rows with a company.
employer_sizes == {KeyOf(row[2]) : row \in {x \in OpenRows : x[2] \notin Blank}}

\* Faulty: everybody with a closed version.
DepartedEver == {v.id : v \in {w \in dim : ~IsOpen(w)}}

\* load_departed_connections, before the limit.
Departed == {v.id : v \in {w \in dim : ~IsOpen(w)}} \ CurrentConnections

-----------------------------------------------------------------------------
(***************************************************************************)
(* Properties.  A run that fails leaves the layers at odds; they agree     *)
(* again when a run comes to its tests.                                    *)
(***************************************************************************)

\* An employer is spelled like the blank ones are labelled, but for case: its key is
\* theirs and its label is not.
Lookalike(t) ==
    \E b \in facts : b.ts = t /\ \E l \in Labels(b) :
        l # Unknown /\ company_key[l] = company_key[Unknown]

\* Such an employer is counted by key but not shown, if "(unknown)" is among the names
\* something is shown by.
Hidden(t, names) == IF Lookalike(t) /\ Unknown \in names THEN 1 ELSE 0

\* The "Companies" metric and the "Top companies" chart count the same employers,
\* in every snapshot, but for one that takes the name of the undisclosed: only such an
\* export makes assert_company_counts_agree fail.
CompanyCountsAgree ==
    phase = "tests" =>
        \A r \in stats :
            r.distinct_companies
                = Cardinality(NamedBars(r.ts))
                    + Hidden(r.ts, {x.value : x \in {y \in breakdown : y.ts = r.ts}})

\* The chart leaves out nobody it does not own up to: its bars and the
\* connections it says it excludes make up the "Connections" of the headline.
ChartAddsUp ==
    phase = "tests" =>
        \A r \in Latest(stats) :
            r.total = FSE!MapThenSumSet(LAMBDA x : x.count, load_breakdown \cup load_undisclosed)

\* Somebody's employer is spelled "(unknown)" in the newest export.
NamedUnknown == \E row \in OpenRows : row[2] \notin Blank /\ LabelOf(row[2]) = Unknown

\* The Network Stats and Companies tabs agree on the employers there are, and on
\* the people at each of them: the name the Companies tab has for an employer
\* may be spelled another way than the chart's.  The exceptions are employers that
\* take the name of the undisclosed: one spelled "(unknown)" itself counts on the
\* Composition tab alone.
EmployersAgree ==
    phase = "tests" =>
        /\ \A r \in Latest(stats) :
            /\ r.distinct_companies
                = Cardinality(Reachable)
                    + Hidden(r.ts, UNION {company_name(row[2]) : row \in OpenRows})
            /\ Cardinality(employer_sizes)
                = r.distinct_companies
                    + (IF NamedUnknown /\ ~Lookalike(r.ts) THEN 1 ELSE 0)
        /\ \A x \in companies :
            /\ x.current = Cardinality(CurrentAt(x.key))
            /\ x.name # Unknown => Reach(x.name) = x.current

\* "Connections absent from the latest export" (load_departed_connections): after
\* a whole run, everybody history knows of is either on that list or in the
\* newest snapshot of the fact table.
DepartedAreAbsent ==
    phase = "tests" =>
        LET listed == UNION {Present(b) : b \in Newest(FactSnapshots)}
        IN  /\ Departed \cap listed = {}
            /\ {v.id : v \in dim} = Departed \cup listed

\* The models are a finer grain of the run of ConnectionHistory: its fact table is
\* built when the model fct_connection_snapshot is.
History == INSTANCE ConnectionHistory
             WITH phase <- IF phase = "marts" /\ "fct" \in built THEN "tests" ELSE phase

ImplementsHistory == History!Spec
=============================================================================
