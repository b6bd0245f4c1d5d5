--------------------------- MODULE DatasetOfRecord ---------------------------
(***************************************************************************)
(* What the pipeline promises its readers, without files, runs or tasks: a *)
(* record that only grows and never holds a content twice, and a published *)
(* view that is at all times a prefix of it, refreshed to all of it at     *)
(* once.                                                                   *)
(***************************************************************************)
EXTENDS Naturals, Sequences

CONSTANT Content

VARIABLES
    record,     \* the contents recorded, in order
    published   \* how many of them the published view was built from

vars == <<record, published>>

Recorded == {record[i] : i \in DOMAIN record}

Init == record = << >> /\ published = 0

Add(c) ==
    /\ c \notin Recorded
    /\ record' = Append(record, c)
    /\ UNCHANGED published

Publish ==
    /\ published' = Len(record)
    /\ UNCHANGED record

Next == (\E c \in Content : Add(c)) \/ Publish

Spec == Init /\ [][Next]_vars
=============================================================================
