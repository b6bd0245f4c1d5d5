------------------------- MODULE ConnectionHistoryMC -------------------------
(***************************************************************************)
(* Instances of ConnectionHistory for TLC: people and attributes are model *)
(* values and may be permuted.                                             *)
(***************************************************************************)
EXTENDS ConnectionHistory, TLC

Interchangeable == Permutations(Connection) \cup Permutations(Attribute)
=============================================================================
