----------------------------- MODULE CsvReader -----------------------------
(***************************************************************************)
(* csv.Read (internal/csv/reader.go): the records of a file as rows of     *)
(* typed values, one step per field.                                       *)
(*                                                                         *)
(* A file is the sequence of its lines, a line the sequence of its fields, *)
(* so that a blank line is a single empty field.  Quotes are left out.     *)
(***************************************************************************)
EXTENDS Catalog

CONSTANTS
    Blank,          \* the empty field
    Parsed          \* for INT, FLOAT and BOOL the fields that strconv parses,
                    \* for TEXT every field, each with its value

ASSUME ParsedAssumption ==
    \A t \in {TInt, TFloat, TText, TBool} : \A field \in DOMAIN Parsed[t] :
        Parsed[t][field] \in Values /\ Parsed[t][field].type = t /\ ~IsNull(Parsed[t][field])

VARIABLES
    records, cols,  \* the arguments: the records of the file, the columns
    row, rows,      \* the row being filled, and those before it
    read            \* "idle", "reading", "loaded" or "failed"

readerVars == <<records, cols, row, rows, read>>

\* encoding/csv skips blank lines.
Records(file) ==
    LET kept[n \in 0 .. Len(file)] ==
            IF n = 0 THEN <<>>
            ELSE IF file[n] = <<Blank>> THEN kept[n - 1] ELSE Append(kept[n - 1], file[n])
    IN  kept[Len(file)]

\* FieldsPerRecord
Rectangular(file, width) == \A n \in DOMAIN Records(file) : Len(Records(file)[n]) = width

Parses(field, t) == field = Blank \/ field \in DOMAIN Parsed[t]

\* Mutant: NULL has one type.
ParseFieldUntyped(field, t) == IF field = Blank THEN NullOf(TInt) ELSE Parsed[t][field]

ParseField(field, t) == IF field = Blank THEN NullOf(t) ELSE Parsed[t][field]

-----------------------------------------------------------------------------
Open(file, columns) ==
    /\ cols' = columns
    /\ row' = <<>> /\ rows' = <<>>
    /\ IF file # NoFile /\ Rectangular(file, Len(columns))
       THEN records' = Records(file) /\ read' = "reading"
       ELSE records' = <<>> /\ read' = "failed"

Reading == read = "reading"

MoreRecords == Len(rows) < Len(records)

Field == records[Len(rows) + 1][Len(row) + 1]

FieldType == cols[Len(row) + 1].type

TakeField ==
    /\ Reading /\ MoreRecords /\ Len(row) < Len(cols)
    /\ Parses(Field, FieldType)
    /\ row' = Append(row, ParseField(Field, FieldType))
    /\ UNCHANGED <<records, cols, rows, read>>

\* Mutant: the rows before a bad field are kept.
RefuseFieldKeepingRows ==
    /\ Reading /\ MoreRecords /\ Len(row) < Len(cols)
    /\ ~Parses(Field, FieldType)
    /\ read' = "loaded"
    /\ UNCHANGED <<records, cols, row, rows>>

\* The error result has no rows.
RefuseField ==
    /\ Reading /\ MoreRecords /\ Len(row) < Len(cols)
    /\ ~Parses(Field, FieldType)
    /\ read' = "failed" /\ row' = <<>> /\ rows' = <<>>
    /\ UNCHANGED <<records, cols>>

EndRow ==
    /\ Reading /\ MoreRecords /\ Len(row) = Len(cols)
    /\ rows' = Append(rows, row) /\ row' = <<>>
    /\ UNCHANGED <<records, cols, read>>

EndRecords ==
    /\ Reading /\ ~MoreRecords
    /\ read' = "loaded"
    /\ UNCHANGED <<records, cols, row, rows>>

Read == TakeField \/ RefuseField \/ EndRow \/ EndRecords

InitReader == records = <<>> /\ cols = <<>> /\ row = <<>> /\ rows = <<>> /\ read = "idle"
=============================================================================
