------------------------------ MODULE Catalog ------------------------------
(***************************************************************************)
(* The catalog (internal/catalog/catalog.go) and LoadSchema, which fills   *)
(* it from the schema file, one step per line (internal/repl/repl.go).     *)
(*                                                                         *)
(* A line is [form, name, parts]: form is "skip" for a blank line or a     *)
(* comment, "bad" for one without its parentheses, and "table"; parts are  *)
(* the pieces between the commas, each the sequence of its words.          *)
(***************************************************************************)
EXTENDS Values

CONSTANTS
    SchemaFiles,    \* what schema.txt may hold
    NoFile,         \* a file that cannot be read
    Capitals        \* strings.ToUpper on the words in use

SchemaLines == [form : {"skip", "bad", "table"}, name : STRING, parts : Seq(Seq(STRING))]

ASSUME SchemaFilesAssumption ==
    \A file \in SchemaFiles \ {NoFile} :
        /\ file \in Seq(SchemaLines)
        /\ \A n \in DOMAIN file : file[n].form # "table" => file[n].parts = <<>>

VARIABLES
    lines, ln,      \* the file and the line read next
    cat,            \* table name to its columns, each [name, type]
    schema          \* "loading", "loaded" or "failed"

catalogVars == <<lines, ln, cat, schema>>

Types == [word \in {"INT", "FLOAT", "TEXT", "BOOL"} |->
    CASE word = "INT" -> TInt [] word = "FLOAT" -> TFloat
      [] word = "TEXT" -> TText [] word = "BOOL" -> TBool]

\* parseType succeeds.
ParsesType(word) == word \in DOMAIN Capitals /\ Capitals[word] \in DOMAIN Types

ParseType(word) == Types[Capitals[word]]

IsColumn(part) == Len(part) = 2 /\ ParsesType(part[2])

Columns(parts) == [n \in DOMAIN parts |-> [name |-> parts[n][1], type |-> ParseType(parts[n][2])]]

\* Mutant: the first declaration of a name stays.
AddNew(tables, name, cols) ==
    [t \in DOMAIN tables \cup {name} |-> IF t \in DOMAIN tables THEN tables[t] ELSE cols]

Add(tables, name, cols) ==
    [t \in DOMAIN tables \cup {name} |-> IF t = name THEN cols ELSE tables[t]]

-----------------------------------------------------------------------------
Loading == schema = "loading"

MoreLines == lines # NoFile /\ ln <= Len(lines)

Line == lines[ln]

SkipLine ==
    /\ Loading /\ MoreLines /\ Line.form = "skip"
    /\ ln' = ln + 1
    /\ UNCHANGED <<lines, cat, schema>>

AddTable ==
    /\ Loading /\ MoreLines /\ Line.form = "table"
    /\ \A n \in DOMAIN Line.parts : IsColumn(Line.parts[n])
    /\ cat' = Add(cat, Line.name, Columns(Line.parts))
    /\ ln' = ln + 1
    /\ UNCHANGED <<lines, schema>>

\* The error result has no catalog.
RefuseLine ==
    /\ Loading /\ MoreLines
    /\ \/ Line.form = "bad"
       \/ Line.form = "table" /\ \E n \in DOMAIN Line.parts : ~IsColumn(Line.parts[n])
    /\ schema' = "failed" /\ cat' = <<>>
    /\ UNCHANGED <<lines, ln>>

NoSchema ==
    /\ Loading /\ lines = NoFile
    /\ schema' = "failed"
    /\ UNCHANGED <<lines, ln, cat>>

EndOfSchema ==
    /\ Loading /\ lines # NoFile /\ ~MoreLines
    /\ schema' = "loaded"
    /\ UNCHANGED <<lines, ln, cat>>

LoadSchema == SkipLine \/ AddTable \/ RefuseLine \/ NoSchema \/ EndOfSchema

InitSchema == lines \in SchemaFiles /\ ln = 1 /\ cat = <<>> /\ schema = "loading"
=============================================================================
