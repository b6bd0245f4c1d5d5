--------------------------- MODULE ExportIngestion ---------------------------
(***************************************************************************)
(* Ingestion of exports that are given line by line: what Ingestion has as *)
(* constants, whether an export parses and whether it has rows, is what    *)
(* ExportSchema says of its lines.                                         *)
(***************************************************************************)
EXTENDS Ingestion, ExportSchema

CONSTANT File    \* the lines of a content

ASSUME FileAssumption ==
    /\ File \in [Content -> Seq(Seq(Text))]
    /\ Malformed = {c \in Content : ~Parses(File[c])}
    /\ Empty = {c \in Content \ Malformed : BronzeRows(File[c]) = << >>}

Parsed == [c \in Content \ Malformed |-> BronzeRows(File[c])]

\* The rows of bronze.raw_connections, one batch of them per entry of bronze.
raw_connections == [n \in DOMAIN bronze |-> Parsed[bronze[n].content]]

-----------------------------------------------------------------------------
First(S) == {i \in S : \A j \in S : i <= j}

\* The header of an export is the first line that looks like one; its body are the
\* lines below that are not blank.
Header(lines)  == First(HeaderLines(lines))
Body(lines, h) == {i \in h + 1 .. Len(lines) : lines[i] # << >>}

\* What a line has under the k-th heading, where the body is moved to the right.
Said(line, k, moved) == IF k + moved \in DOMAIN line THEN stripped[line[k + moved]] ELSE ""

\* The row of a line: each column says what the line has under one of the headings
\* that name it, and is empty if none does.
SaysWhat(row, line, names, moved) ==
    \A column \in KnownColumns :
        \/ column \notin ToSet(names) /\ row[column] = ""
        \/ \E k \in DOMAIN names : names[k] = column /\ row[column] = Said(line, k, moved)

\* A batch has the rows of an export in their order.  All of them are moved as far as
\* the first one is wider than the header.
Holds(batch, lines) ==
    \A h \in Header(lines) :
        LET body  == Body(lines, h)
            names == [k \in DOMAIN lines[h] |-> folded[lines[h][k]]]
            Wide(first) == IF Len(lines[first]) > Len(lines[h])
                           THEN Len(lines[first]) - Len(lines[h]) ELSE 0
        IN  /\ DOMAIN batch = 1 .. Cardinality(body)
            /\ \A first \in First(body), i \in body :
                SaysWhat(batch[Cardinality({j \in body : j <= i})], lines[i], names,
                         Wide(first))

\* "The number of note lines before the real header row is not constant"
\* (csv_schema.py:5): whatever was exported before and after in whichever layout, a
\* batch of Bronze has the rows of its own export, in their order, each cell under the
\* heading it had, less its outer spaces.  Two things are lost without an error: what
\* is under a heading of spaces, and, with a first row wider than the header, the
\* headings themselves, since all rows move to the left by what is too much.
BronzeHoldsTheExport ==
    \A n \in DOMAIN bronze : Holds(raw_connections[n], File[bronze[n].content])
=============================================================================
