----------------------------- MODULE OverviewPage -----------------------------
(***************************************************************************)
(* The landing page (streamlit_app/app.py), whose script first probes the  *)
(* warehouse and then asks for the headline numbers.  The tabs that begin  *)
(* with require_warehouse read in the same two steps.  AppPages composes   *)
(* it with the DAG and with the other sessions.                            *)
(***************************************************************************)
EXTENDS WarehouseReads

VARIABLES
    step,   \* where the script is: "idle" when the page is rendered
    busy,   \* what warehouse_status said in this run of the script
    shown   \* what the page shows

overviewVars == <<step, busy, shown>>

Panel == {"nothing", "busy", "onboarding", "numbers"}

OverviewTypeOK ==
    /\ step \in {"idle", "start", "probed"}
    /\ busy \in BOOLEAN
    /\ shown \in Panel

OverviewInit == step = "idle" /\ busy = FALSE /\ shown = "nothing"

\* The owner opens or reloads the page.
Reload ==
    /\ step = "idle"
    /\ step' = "start"
    /\ UNCHANGED <<readVars, busy, shown>>

\* warehouse_status is not cached.
Probe ==
    /\ step = "start"
    /\ busy' = writer
    /\ step' = "probed"
    /\ UNCHANGED <<readVars, shown>>

\* Faulty: an empty frame is not told apart from one with rows.
ShowAlwaysNumbers ==
    /\ step = "probed"
    /\ IF busy
         THEN shown' = "busy" /\ UNCHANGED cache
         ELSE shown' = "numbers" /\ cache' = Cached("load_network_stats")
    /\ step' = "idle" /\ busy' = FALSE
    /\ UNCHANGED warehouseVars

Show ==
    /\ step = "probed"
    /\ \/ /\ busy
          /\ shown' = "busy"
          /\ UNCHANGED cache
       \/ /\ ~busy
          /\ shown' = IF Read("load_network_stats") = {} THEN "onboarding" ELSE "numbers"
          /\ cache' = Cached("load_network_stats")
    /\ step' = "idle" /\ busy' = FALSE
    /\ UNCHANGED warehouseVars

OverviewStep == Reload \/ Probe \/ Show
=============================================================================
