----------------------------- MODULE IngestionMC -----------------------------
(***************************************************************************)
(* Instances of Ingestion for TLC.  The exports are small files: two that  *)
(* are in order, one the quality checks reject, one without a row and one  *)
(* that does not parse.                                                    *)
(***************************************************************************)
EXTENDS ExportIngestion, TLC

CONSTANTS good, better, odd, blank, broken

\* No two short hashes collide.
DistinctHashes ==
    [c \in Content |->
        CASE c = good -> 1 [] c = better -> 2 [] c = odd -> 3 [] c = blank -> 4
          [] c = broken -> 5]

\* The hashes of two contents begin with the same eight characters.
CollidingHashes ==
    [c \in Content |-> IF c = better THEN DistinctHashes[good] ELSE DistinctHashes[c]]

Object(t, h, c) == [key |-> [ts |-> t, hash8 |-> h], content |-> c]

NothingPlaced == {}

\* Put in the bucket by hand: an export under the name of another one, and a
\* file that does not parse under its own.
StrangeObjects == {Object(1, 2, good), Object(1, 5, broken)}

AnyRun == Permutations(Run)

\* The layout of the known exports, below notes.
Known  == <<"First Name", "Last Name", "URL", "Email Address", "Company", "Position", "Connected On">>
Notes  == <<<<"Notes:">>, <<"When exporting your connection data", "you may notice">>, << >>>>
Ann    == <<"Ann", "Tran", "in/ann", "", "Acme ", "Analyst", "04 Feb 2025">>
Bob    == <<"Bob", "Nguyen", "in/bob", "bob@acme", "Acme", "Engineer", "05 Feb 2025">>

\* Another layout: other columns' order and case, none for the address and one of
\* spaces, a blank line between the rows, cells with outer spaces, a row that ends early.
Reordered == <<
    << "first name", "last name ", "Connected On", "Position", "Company", "URL", " ">>,
    << >>,
    <<"Ann", "Tran", "04 Feb 2025", " Analyst", "Acme ", "in/ann", "met twice">>,
    << >>,
    <<"Bob", "Nguyen", "05 Feb 2025", "Engineer">> >>

\* A first row with a cell too many, and a repeated header below.
Wide == <<Known, << "7" >> \o Bob, Ann, Known>>

\* A note that begins like the header is taken for it.
Quoted == << <<"First Name", "Last Name", "and so on">>, Known, Ann >>

Files ==
    [c \in Content |->
        CASE c = good   -> Notes \o Reordered
          [] c = better -> Wide
          [] c = odd    -> <<Known, Ann, Bob>>
          [] c = blank  -> Notes \o <<Known>>
          [] c = broken -> Quoted]

WrittenTexts == UNION {UNION {ToSet(Files[c][i]) : i \in DOMAIN Files[c]} : c \in Content}

Texts == WrittenTexts \cup {"", "last name", "Acme", "Analyst"}

Stripped ==
    [t \in Texts |->
        CASE t = "last name " -> "last name" [] t = "Acme " -> "Acme"
          [] t = " Analyst" -> "Analyst" [] t = " " -> "" [] OTHER -> t]

Folded ==
    [t \in Texts |->
        CASE t \in {"First Name", "first name"} -> "first name"
          [] t \in {"Last Name", "last name ", "last name"} -> "last name"
          [] t = "URL" -> "url"
          [] t = "Email Address" -> "email address"
          [] t = "Company" -> "company"
          [] t = "Position" -> "position"
          [] t = "Connected On" -> "connected on"
          [] OTHER -> Stripped[t]]
=============================================================================
