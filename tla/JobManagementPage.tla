-------------------------- MODULE JobManagementPage --------------------------
(***************************************************************************)
(* The Job Management tab (streamlit_app/pages/5_Job_Management.py), the   *)
(* page the owner is on while a run writes: unlike the others it does not  *)
(* halt on a busy warehouse.  Every rerun of its script asks Airflow, the  *)
(* warehouse and the landing zone one after the other, and a button that   *)
(* was clicked does its work when the rerun reaches it, if it still does.  *)
(***************************************************************************)
EXTENDS WarehouseReads

VARIABLES
    landing,    \* the contents of the landing zone
    paused,     \* whether Airflow has the DAG paused
    jobStep,    \* where the script is: "idle" when the page is rendered
    clicked,    \* the button this run of the script was started by
    offered,    \* the buttons the page shows
    listed,     \* the contents the landing zone listed in this run
    reached,    \* whether it could be listed
    jobPanel    \* what "Pending work" shows

jobVars == <<landing, paused, jobStep, clicked, offered, listed, reached, jobPanel>>

Button == {"Unpause the DAG", "Trigger ingestion now", "Refresh"}

JobTypeOK ==
    /\ landing \subseteq Content
    /\ paused \in BOOLEAN
    /\ jobStep \in {"idle", "start", "healthy", "listing", "counting", "trigger", "history"}
    /\ clicked \in Button \cup {"none"}
    /\ offered \subseteq Button
    /\ listed \subseteq Content
    /\ reached \in BOOLEAN
    /\ jobPanel \in {"none", "pending", "nothing new"}

JobInit ==
    /\ landing = {} /\ paused = FALSE
    /\ jobStep = "idle" /\ clicked = "none" /\ offered = {}
    /\ listed = {} /\ reached = FALSE
    /\ jobPanel = "none"

-----------------------------------------------------------------------------
\* Around the page: objects land and are deleted, the DAG is paused in Airflow.

Land(c) ==
    /\ landing' = landing \cup {c}
    /\ UNCHANGED <<readVars, paused, jobStep, clicked, offered, listed, reached, jobPanel>>

Remove(c) ==
    /\ landing' = landing \ {c}
    /\ UNCHANGED <<readVars, paused, jobStep, clicked, offered, listed, reached, jobPanel>>

Pause ==
    /\ ~paused
    /\ paused' = TRUE
    /\ UNCHANGED <<readVars, landing, jobStep, clicked, offered, listed, reached, jobPanel>>

-----------------------------------------------------------------------------
\* The owner and the script.

Run(button) ==
    /\ jobStep' = "start"
    /\ clicked' = button
    /\ listed' = {} /\ reached' = FALSE
    /\ jobPanel' = "none"
    /\ UNCHANGED offered

\* st.stop, an uncaught exception or the end of the file: what this run of the
\* script did not draw leaves the page.
Stop(drawn) ==
    /\ jobStep' = "idle"
    /\ clicked' = "none"
    /\ offered' = drawn

\* Opening, reloading and clicking interrupt the script where it is.
OpenJobs ==
    /\ Run("none")
    /\ UNCHANGED <<readVars, landing, paused>>

Click(button) ==
    /\ button \in offered
    /\ Run(button)
    /\ UNCHANGED <<readVars, landing, paused>>

\* is_healthy: the metadata database, whatever the scheduler says.
CheckHealth ==
    /\ jobStep = "start"
    /\ \/ jobStep' = "healthy" /\ UNCHANGED <<clicked, offered>>
       \/ Stop({})
    /\ UNCHANGED <<readVars, landing, paused, listed, reached, jobPanel>>

GetDagFails ==
    /\ jobStep = "healthy"
    /\ Stop({})
    /\ UNCHANGED <<readVars, landing, paused, listed, reached, jobPanel>>

\* A click on a button that is not drawn any more is lost.
GetDag ==
    /\ jobStep = "healthy"
    /\ paused => clicked # "Unpause the DAG"
    /\ jobStep' = "listing"
    /\ clicked' = IF clicked = "Unpause the DAG" THEN "none" ELSE clicked
    /\ offered' = (offered \ {"Unpause the DAG"})
                      \cup IF paused THEN {"Unpause the DAG"} ELSE {}
    /\ UNCHANGED <<readVars, landing, paused, listed, reached, jobPanel>>

\* set_paused(False) and st.rerun; an error of Airflow is not caught, and may
\* hide that the DAG was resumed.
Unpause ==
    /\ jobStep = "healthy"
    /\ paused /\ clicked = "Unpause the DAG"
    /\ \/ paused' = FALSE /\ Run("none")
       \/ /\ paused' \in BOOLEAN /\ Stop({"Unpause the DAG"})
          /\ UNCHANGED <<listed, reached, jobPanel>>
    /\ UNCHANGED <<readVars, landing>>

\* list_landing_objects, or a ConnectionLensError.
ListLanding ==
    /\ jobStep = "listing"
    /\ \/ listed' = landing /\ reached' = TRUE
       \/ listed' = {} /\ reached' = FALSE
    /\ jobStep' = "counting"
    /\ UNCHANGED <<readVars, landing, paused, clicked, offered, jobPanel>>

\* By the short hashes, the landing zone lists nothing that was not ingested.
NoneToIngest == ShortHashes(listed) \subseteq ShortHashes(Read("bronze_file_hashes"))

\* Faulty: nothing is pending while a run writes.
CountPendingWhenFree ==
    /\ jobStep = "counting"
    /\ jobPanel' = IF writer \/ NoneToIngest THEN "nothing new" ELSE "pending"
    /\ cache' = IF reached THEN Cached("bronze_file_hashes") ELSE cache
    /\ jobStep' = "trigger"
    /\ UNCHANGED <<warehouseVars, landing, paused, clicked, offered, listed, reached>>

\* Faulty: a landing zone that cannot be listed is not caught.
CountPendingUncaught ==
    /\ jobStep = "counting"
    /\ jobPanel' = IF ~reached THEN "traceback"
                   ELSE IF NoneToIngest THEN "nothing new" ELSE "pending"
    /\ cache' = IF reached THEN Cached("bronze_file_hashes") ELSE cache
    /\ jobStep' = "trigger"
    /\ UNCHANGED <<warehouseVars, landing, paused, clicked, offered, listed, reached>>

\* What the landing zone lists and the cached hashes lack.  A zone that could
\* not be listed leaves nothing pending either.
CountPending ==
    /\ jobStep = "counting"
    /\ \/ /\ reached
          /\ jobPanel' = IF NoneToIngest THEN "nothing new" ELSE "pending"
          /\ cache' = Cached("bronze_file_hashes")
       \/ /\ ~reached
          /\ jobPanel' = "nothing new"
          /\ UNCHANGED cache
    /\ jobStep' = "trigger"
    /\ UNCHANGED <<warehouseVars, landing, paused, clicked, offered, listed, reached>>

\* The trigger button: caches are cleared if Airflow accepts, after the panel
\* above was drawn; a failure is shown and the script goes on.
TriggerButton ==
    /\ jobStep = "trigger"
    /\ \/ clicked = "Trigger ingestion now" /\ TriggerRun
       \/ UNCHANGED readVars
    /\ clicked' = IF clicked = "Refresh" THEN clicked ELSE "none"
    /\ offered' = offered \cup {"Trigger ingestion now"}
    /\ jobStep' = "history"
    /\ UNCHANGED <<landing, paused, listed, reached, jobPanel>>

\* Refresh reruns the script; otherwise the run history ends it, with or without runs.
ShowHistory ==
    /\ jobStep = "history"
    /\ \/ clicked = "Refresh" /\ Run("none")
       \/ /\ clicked # "Refresh"
          /\ Stop(offered \cup {"Refresh"})
          /\ UNCHANGED <<listed, reached, jobPanel>>
    /\ UNCHANGED <<readVars, landing, paused>>

Owner == OpenJobs \/ \E button \in Button : Click(button)

Script ==
    \/ CheckHealth \/ GetDagFails \/ GetDag \/ Unpause
    \/ ListLanding \/ CountPending \/ TriggerButton \/ ShowHistory

JobStep ==
    \/ \E c \in Content : Land(c) \/ Remove(c)
    \/ Pause \/ Owner \/ Script
=============================================================================
