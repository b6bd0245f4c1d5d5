------------------------------- MODULE AppPages -------------------------------
(***************************************************************************)
(* The app against the DAG: the landing page and the Job Management tab    *)
(* are open in two sessions, the DAG takes the DuckDB file whenever it     *)
(* likes, and the answers the sessions read meanwhile go to one cache.     *)
(***************************************************************************)
EXTENDS OverviewPage, JobManagementPage

vars == <<bronze, marts, writer, cache, step, busy, shown,
          landing, paused, jobStep, clicked, offered, listed, reached, jobPanel>>

TypeOK == ReadsTypeOK /\ OverviewTypeOK /\ JobTypeOK

Init == ReadsInit /\ OverviewInit /\ JobInit

Dag ==
    \/ OpenForWriting
    \/ \E c \in Content : CommitBatch(c)
    \/ RebuildMarts
    \/ Close

Clock == \E q \in Query : Expire(q)

Next ==
    \/ (Dag \/ Clock) /\ UNCHANGED <<overviewVars, jobVars>>
    \/ OverviewStep /\ UNCHANGED jobVars
    \/ JobStep /\ UNCHANGED overviewVars

Spec == Init /\ [][Next]_vars

\* A script that has started goes on unless the owner interrupts it, and an
\* entry expires by the clock.
FairSpec ==
    /\ Spec
    /\ WF_vars((Probe \/ Show) /\ UNCHANGED jobVars)
    /\ WF_vars(Script /\ UNCHANGED overviewVars)
    /\ \A q \in Query : WF_vars(Expire(q) /\ UNCHANGED <<overviewVars, jobVars>>)

-----------------------------------------------------------------------------
\* The landing page shows numbers only of marts that have some
\* (load_network_stats): neither a refused read nor an old answer makes them up.
NumbersAreReal == shown = "numbers" => marts # {}

\* "Nothing new in the landing zone" (Job Management), where it could be listed,
\* is true of what it listed, up to the 8 characters it has of the hashes: they
\* come from a cache, and the DAG writes meanwhile.
NothingNewIsTrue ==
    jobPanel = "nothing new" /\ reached => ShortHashes(listed) \subseteq ShortHashes(bronze)

\* "The busy state is transient: nothing latches after the run finishes"
\* (test_warehouse_access.py).  If from some time on no task writes and the marts
\* have rows, and the owner keeps reloading, the landing page ends up showing
\* numbers, in spite of the answers either session cached while it was busy.
NothingLatches ==
    <>[](~writer /\ marts # {}) /\ []<><<Reload>>_vars => <>[](shown = "numbers")

\* "Everything in the landing zone counts as pending until it finishes" (the
\* caption of Job Management), and no longer: if from some time on no task writes
\* and the landing zone is in Bronze, and the owner keeps opening the tab, it
\* ends up with nothing pending.
PendingSettles ==
    <>[](~writer /\ landing \subseteq bronze) /\ []<><<OpenJobs>>_vars
        => <>[](jobPanel # "pending")

=============================================================================
