---------------------------- MODULE NetworkMartsMC ----------------------------
(***************************************************************************)
(* An instance of NetworkMarts for TLC: one employer spelled in two ways,  *)
(* one spelled "(Unknown)", and a blank company.  Titles play no part, so  *)
(* that an Attribute is the text of its company.                           *)
(***************************************************************************)
EXTENDS NetworkMarts, TLC

Spellings == {"ACME", "Acme", "(Unknown)", "(unknown)"}

NoText == {""}

Companies == {"ACME", "Acme", "(Unknown)"} \cup NoText

Labelled == [a \in Companies |-> IF a \in NoText THEN "(unknown)" ELSE a]

Folded == [l \in Spellings |-> IF l \in {"ACME", "Acme"} THEN "acme" ELSE "(unknown)"]

InOrder == [l \in Spellings |->
    CASE l = "(Unknown)" -> 1 [] l = "(unknown)" -> 2 [] l = "ACME" -> 3 [] l = "Acme" -> 4]

OneEach == [t \in Ts |-> 1]

Interchangeable == Permutations(Connection)
=============================================================================
