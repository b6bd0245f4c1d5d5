----------------------------- MODULE ExportSchema -----------------------------
(***************************************************************************)
(* How the lines of an export become rows of Bronze (common/csv_schema.py, *)
(* append_bronze_batch): the header is searched for below any number of    *)
(* note lines, its columns are compared with the known ones whatever their *)
(* order and spelling, and every cell goes under its column.               *)
(*                                                                         *)
(* A line is the sequence of its comma-separated texts, quotes resolved; a *)
(* line of spaces only is the empty sequence.  Decoding never fails, since *)
(* its last resort is latin-1.                                             *)
(***************************************************************************)
EXTENDS Naturals, Sequences, SequencesExt

CONSTANTS
    Text,       \* the texts of exports
    stripped,   \* a Text without outer spaces: str.strip()
    folded      \* a Text without outer spaces, in lower case

RequiredColumns == {"first name", "last name", "url", "company", "position", "connected on"}
KnownColumns    == RequiredColumns \cup {"email address"}

ASSUME SchemaAssumption ==
    /\ "" \in Text
    /\ stripped \in [Text -> Text] /\ stripped[""] = ""
    /\ DOMAIN folded = Text /\ folded[""] = ""

\* What follows "first name," in a line has to begin like this only.
BeginsLastName == {"last name", "last name at birth"}

\* Any name pandas makes up, for a column without one or with the one of an earlier
\* column.
Renamed == "Unnamed"

-----------------------------------------------------------------------------
IsHeader(line) ==
    /\ Len(line) >= 2
    /\ folded[line[1]] = "first name"
    /\ folded[line[2]] \in BeginsLastName

\* The lines that look like the header; the first of them is taken for it.
HeaderLines(lines) == {i \in DOMAIN lines : IsHeader(lines[i])}

Least(S) == CHOOSE i \in S : \A j \in S : i <= j

detect_header_line_index(lines) == Least(HeaderLines(lines))

-----------------------------------------------------------------------------
\* pandas.read_csv, from the header line on

Columns(header) ==
    [i \in DOMAIN header |->
        IF header[i] = "" \/ \E j \in 1 .. i - 1 : header[j] = header[i] THEN Renamed
        ELSE folded[header[i]]]

\* Line after line below the header; blank ones are skipped.
Rows(lines, index) ==
    LET read[i \in index .. Len(lines)] ==
            IF i = index THEN << >>
            ELSE IF lines[i] = << >> THEN read[i - 1]
            ELSE Append(read[i - 1], lines[i])
    IN  read[Len(lines)]

\* A first row that is wider than the header makes the table wider ...
Width(header, rows) ==
    IF rows # << >> /\ Len(rows[1]) > Len(header) THEN Len(rows[1]) ELSE Len(header)

\* ... a later one that is wider than the table is an error.
ReadsAsTable(header, rows) == \A i \in DOMAIN rows : Len(rows[i]) <= Width(header, rows)

\* What is too many in the first row goes to an index on the left: every cell is
\* found that much further to the right.  A row that ends early has empty cells.
Cell(header, rows, row, i) ==
    LET at == i + Width(header, rows) - Len(header)
    IN  IF at \in DOMAIN row THEN row[at] ELSE ""

-----------------------------------------------------------------------------
\* A heading of spaces has a name for pandas and none once it is stripped: nobody
\* expects it, and it is not reported.
missing_columns(columns)    == RequiredColumns \ ToSet(columns)
unexpected_columns(columns) == {c \in ToSet(columns) : c # "" /\ c \notin KnownColumns}

is_valid(columns) == missing_columns(columns) = {} /\ unexpected_columns(columns) = {}

\* Whether parse_export returns at all.
Parses(lines) ==
    /\ HeaderLines(lines) # {}
    /\ LET index  == detect_header_line_index(lines)
           header == lines[index]
       IN  ReadsAsTable(header, Rows(lines, index)) /\ is_valid(Columns(header))

\* Faulty: columns are taken in the order of the known schema.
CellByPosition(header, rows, row, column) ==
    LET order == <<"first name", "last name", "url", "email address", "company",
                   "position", "connected on">>
    IN  stripped[Cell(header, rows, row, CHOOSE i \in DOMAIN order : order[i] = column)]

\* The cell of a row under a column, without its outer spaces; a column the export
\* does not have is stored empty.  Where two headings are spelled differently but
\* fold to one column, either of them may be the one that is stored.
CellUnder(header, rows, row, column) ==
    LET named == {i \in DOMAIN header : Columns(header)[i] = column}
    IN  IF named = {} THEN "" ELSE stripped[Cell(header, rows, row, CHOOSE i \in named : TRUE)]

\* What parse_export and append_bronze_batch make of an export that parses.
BronzeRows(lines) ==
    LET index  == detect_header_line_index(lines)
        header == lines[index]
        rows   == Rows(lines, index)
    IN  [n \in DOMAIN rows |->
            [column \in KnownColumns |-> CellUnder(header, rows, rows[n], column)]]
=============================================================================
