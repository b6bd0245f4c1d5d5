--------------------------- MODULE AirflowTriggerMC ---------------------------
(***************************************************************************)
(* An instance of AirflowTrigger for TLC.                                  *)
(***************************************************************************)
EXTENDS AirflowTrigger, TLC
=============================================================================
