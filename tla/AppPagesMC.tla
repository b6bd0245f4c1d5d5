------------------------------ MODULE AppPagesMC ------------------------------
(***************************************************************************)
(* An instance of AppPages for TLC.                                        *)
(***************************************************************************)
EXTENDS AppPages, TLC

\* One short hash for all: with one export, which is what TLC has time for.
Hashes == [c \in Content |-> "8d3f2a01"]
=============================================================================
