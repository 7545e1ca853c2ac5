------------------------------ MODULE Session ------------------------------
(***************************************************************************)
(* A run of minisql: the schema is loaded (cmd/minisql/main.go), then one  *)
(* statement per line is answered (internal/repl/repl.go), each reading    *)
(* the files of its tables anew (scanTable, internal/plan/plan.go).  Who   *)
(* keeps the files may replace them at any time, each as a whole.          *)
(*                                                                         *)
(* A line is [form, tables, accepted]: form is "blank", "long" for one     *)
(* that the scanner's buffer cannot hold, "garbage" if the lexer or the    *)
(* parser refuses it, and "select", with the tables of its FROM and JOIN   *)
(* and whether the planner accepts the rest of it (Planner.tla).  What a   *)
(* plan makes of its tables' rows is left to Pipeline.tla.                 *)
(***************************************************************************)
EXTENDS CsvReader

CONSTANTS
    Sessions,       \* the lines typed
    Names,          \* the tables
    Contents,       \* what a table's file may hold
    MaxVersions     \* bound on the contents of one file

StatementLines == [form : {"blank", "long", "garbage", "select"},
                   tables : Seq(STRING), accepted : BOOLEAN]

ASSUME SessionsAssumption ==
    /\ Sessions \subseteq Seq(StatementLines)
    /\ \A file \in Contents \ {NoFile} : file \in Seq(Seq(STRING))
    /\ \A file \in SchemaFiles \ {NoFile} : \A n \in DOMAIN file :
          file[n].form = "table" => file[n].name \in Names

VARIABLES
    input, k,       \* the lines and the one read next
    files,          \* the contents each table's file has had, the current one last
    scans,          \* the tables read for the running statement, each [version, rows]
    begun,          \* the versions of the files when it began
    out,            \* the answers
    pc              \* "schema", "ready", "planning", "scanning", "ended" or "exited"

sessionVars == <<input, k, scans, begun, out>>

vars == <<catalogVars, readerVars, sessionVars, files, pc>>

Versions == [name \in Names |-> Len(files[name])]

\* Mutant: a table is read once.
FirstVersion(name) == 1

Current(name) == Versions[name]

-----------------------------------------------------------------------------
At(point) == pc = point

\* main: an error ends the program.
Schema ==
    /\ At("schema") /\ LoadSchema
    /\ pc' = CASE schema' = "loading" -> "schema"
               [] schema' = "loaded" -> "ready"
               [] schema' = "failed" -> "exited"
    /\ UNCHANGED <<readerVars, sessionVars, files>>

Statement == input[k]

Has(form) == At("ready") /\ k <= Len(input) /\ Statement.form = form

\* Mutant: a blank line is looked at again.
SkipBlankStays == Has("blank") /\ UNCHANGED vars

\* After its spaces and its semicolon are cut off.
SkipBlank ==
    /\ Has("blank")
    /\ k' = k + 1
    /\ UNCHANGED <<catalogVars, readerVars, input, scans, begun, out, files, pc>>

\* Scan returns false, and the loop does not ask why.
EndOfLines ==
    /\ At("ready")
    /\ k > Len(input) \/ Has("long")
    /\ pc' = "ended"
    /\ UNCHANGED <<catalogVars, readerVars, sessionVars, files>>

\* Mutant: a failing statement has no answer.
AnswerTables(kind) ==
    /\ out' = IF kind = "error" THEN out
              ELSE Append(out, [line |-> k, kind |-> kind, begun |-> begun, scans |-> scans])
    /\ k' = k + 1
    /\ pc' = "ready"
    /\ UNCHANGED <<catalogVars, input, scans, begun, files>>

\* Run prints the table or the error of runOne and goes on.
Answer(kind) ==
    /\ out' = Append(out, [line |-> k, kind |-> kind, begun |-> begun, scans |-> scans])
    /\ k' = k + 1
    /\ pc' = "ready"
    /\ UNCHANGED <<catalogVars, input, scans, begun, files>>

Begin ==
    /\ Has("garbage") \/ Has("select")
    /\ scans' = <<>> /\ begun' = Versions
    /\ pc' = "planning"
    /\ UNCHANGED <<catalogVars, readerVars, input, k, out, files>>

Refuse ==
    /\ At("planning") /\ Statement.form = "garbage"
    /\ Answer("error")
    /\ UNCHANGED readerVars

Planning == At("planning") /\ Statement.form = "select"

Name == Statement.tables[Len(scans) + 1]

UnknownTable ==
    /\ Planning /\ Len(scans) < Len(Statement.tables) /\ Name \notin DOMAIN cat
    /\ Answer("error")
    /\ UNCHANGED readerVars

ScanTable ==
    /\ Planning /\ Len(scans) < Len(Statement.tables) /\ Name \in DOMAIN cat
    /\ Open(files[Name][Current(Name)], cat[Name])
    /\ scans' = Append(scans, [version |-> Current(Name), rows |-> <<>>])
    /\ pc' = "scanning"
    /\ UNCHANGED <<catalogVars, input, k, begun, out, files>>

ReadStep ==
    /\ At("scanning") /\ Read
    /\ UNCHANGED <<catalogVars, sessionVars, files, pc>>

Unreadable ==
    /\ At("scanning") /\ read = "failed"
    /\ Answer("error")
    /\ UNCHANGED readerVars

Scanned ==
    /\ At("scanning") /\ read = "loaded"
    /\ scans' = [scans EXCEPT ![Len(scans)].rows = rows]
    /\ pc' = "planning"
    /\ UNCHANGED <<catalogVars, readerVars, input, k, begun, out, files>>

\* The rest of Build, and printTable.
Finish ==
    /\ Planning /\ Len(scans) = Len(Statement.tables)
    /\ Answer(IF Statement.accepted THEN "table" ELSE "error")
    /\ UNCHANGED readerVars

Program == \/ Schema \/ SkipBlank \/ EndOfLines \/ Begin \/ Refuse \/ UnknownTable
           \/ ScanTable \/ ReadStep \/ Unreadable \/ Scanned \/ Finish

\* A file is replaced.
Replace ==
    /\ \E name \in Names, content \in Contents :
          /\ Len(files[name]) < MaxVersions
          /\ files' = [files EXCEPT ![name] = Append(@, content)]
    /\ UNCHANGED <<catalogVars, readerVars, sessionVars, pc>>

Init ==
    /\ InitSchema /\ InitReader
    /\ input \in Sessions /\ k = 1
    /\ files \in [Names -> {<<content>> : content \in Contents}]
    /\ scans = <<>> /\ begun = Versions /\ out = <<>>
    /\ pc = "schema"

Next == Program \/ Replace

Spec == Init /\ [][Next]_vars /\ WF_vars(Program)

-----------------------------------------------------------------------------
(* Properties *)

Answered == {n \in 1 .. k - 1 : input[n].form \in {"garbage", "select"}}

(* Every line read so far that is not blank has one answer, in the order of
   the lines (repl.go:19). *)
AnswersFollowTheLines ==
    /\ {out[n].line : n \in DOMAIN out} = Answered
    /\ \A m, n \in DOMAIN out : m < n => out[m].line < out[n].line

\* What one file and one table make of each other: no row, or all of them.
Reads(file, columns) ==
    /\ file # NoFile
    /\ \A line \in ToSet(file) \ { <<Blank>> } :
          Len(line) = Len(columns) /\ \A j \in DOMAIN line : Parses(line[j], columns[j].type)

File(a, n) == files[input[a.line].tables[n]][a.scans[n].version]

ColumnsOf(a, n) == cat[input[a.line].tables[n]]

(* A statement fails exactly for a reason of its own: its text, a table that is
   not declared or whose file cannot be read, or what the planner finds.  No
   earlier failure shows. *)
FailsForItsOwnReason ==
    \A a \in ToSet(out) :
        LET line == input[a.line]
        IN  a.kind = "table" <=> /\ line.form = "select" /\ line.accepted
                                 /\ ToSet(line.tables) \subseteq DOMAIN cat
                                 /\ Len(a.scans) = Len(line.tables)
                                 /\ \A n \in DOMAIN a.scans : Reads(File(a, n), ColumnsOf(a, n))

(* The rows of a table are the records of its file, in order, each field as its
   column's type, an empty field as NULL (README.md:113-116). *)
EveryLineIsARow ==
    \A a \in ToSet(out) : a.kind = "table" =>
        \A n \in DOMAIN a.scans :
            LET file == File(a, n)
                columns == ColumnsOf(a, n)
            IN  (\A line \in ToSet(file) : Len(line) = Len(columns)) =>
                    /\ Len(a.scans[n].rows) = Len(file)
                    /\ \A m \in DOMAIN file, j \in DOMAIN columns :
                          LET v == a.scans[n].rows[m][j]
                          IN  /\ v.type = columns[j].type
                              /\ IsNull(v) <=> file[m][j] = Blank
                              /\ file[m][j] # Blank => v = Parsed[v.type][file[m][j]]

(* A statement sees its tables' files as they were after it began, and a later
   read of a file never sees an earlier content of it. *)
ReadsAreFresh ==
    \A a \in ToSet(out) : input[a.line].form = "select" =>
        \A n \in DOMAIN a.scans :
            /\ a.scans[n].version >= a.begun[input[a.line].tables[n]]
            /\ \A b \in ToSet(out) : a.line < b.line /\ input[b.line].form = "select" =>
                  \A m \in DOMAIN b.scans : input[b.line].tables[m] = input[a.line].tables[n]
                                               => b.scans[m].version >= a.scans[n].version

Declares(n, name) == lines[n].form = "table" /\ lines[n].name = name

(* Statements run over the whole schema file or not at all, and of two
   declarations of one table the later one is in force (catalog.go:36). *)
SchemaIsWhole ==
    /\ out # <<>> => schema = "loaded"
    /\ schema = "loaded" =>
          /\ \A line \in ToSet(lines) : line.form # "bad" /\ \A part \in ToSet(line.parts) : IsColumn(part)
          /\ DOMAIN cat = {lines[n].name : n \in {m \in DOMAIN lines : lines[m].form = "table"}}
          /\ \A name \in DOMAIN cat :
                \E n \in DOMAIN lines :
                    /\ Declares(n, name)
                    /\ \A m \in DOMAIN lines : Declares(m, name) => m <= n
                    /\ cat[name] = Columns(lines[n].parts)
    /\ schema = "failed" => cat = <<>>

(* The loop reaches the end of its input, or the program ends on its schema. *)
Ends == <>(pc \in {"ended", "exited"})

(* The loop answers every line that is not blank before it ends. *)
EveryLineIsAnswered ==
    At("ended") => \A n \in DOMAIN input : input[n].form # "blank" => \E a \in ToSet(out) : a.line = n

-----------------------------------------------------------------------------
(* The inductive invariant. *)

\* The catalog holds the declarations of the lines read.
DeclaredBefore(n) == {m \in 1 .. n - 1 : lines[m].form = "table"}

CatalogIsRead ==
    /\ \A m \in 1 .. ln - 1 : lines[m].form # "bad" /\ \A part \in ToSet(lines[m].parts) : IsColumn(part)
    /\ DOMAIN cat = {lines[m].name : m \in DeclaredBefore(ln)}
    /\ \A name \in DOMAIN cat : \E n \in DeclaredBefore(ln) :
          /\ lines[n].name = name
          /\ \A m \in DeclaredBefore(ln) : lines[m].name = name => m <= n
          /\ cat[name] = Columns(lines[n].parts)

CatalogInv ==
    /\ lines \in SchemaFiles
    /\ schema \in {"loading", "loaded", "failed"}
    /\ schema = "failed" \/ lines = NoFile => cat = <<>>
    /\ schema # "failed" /\ lines # NoFile => ln \in 1 .. Len(lines) + 1 /\ CatalogIsRead
    /\ schema = "loaded" => lines # NoFile /\ ln = Len(lines) + 1

\* Nothing runs before the schema is loaded.
Phases ==
    /\ pc \in {"schema", "ready", "planning", "scanning", "ended", "exited"}
    /\ pc = "schema" => schema = "loading"
    /\ pc \in {"ready", "planning", "scanning", "ended"} \/ out # <<>> => schema = "loaded"
    /\ pc \in {"planning", "scanning"} => /\ k <= Len(input)
                                          /\ Statement.form \in {"garbage", "select"}
    /\ pc = "scanning" => Statement.form = "select" /\ scans # <<>>

SessionTypes ==
    /\ input \in Sessions /\ k \in 1 .. Len(input) + 1
    /\ DOMAIN files = Names
    /\ \A name \in Names : files[name] \in Seq(Contents) /\ files[name] # <<>>
    /\ scans \in Seq(ToSet(scans)) /\ out \in Seq(ToSet(out))
    /\ \A n \in DOMAIN scans : DOMAIN scans[n] = {"version", "rows"}

Running == [line |-> k, kind |-> "", begun |-> begun, scans |-> scans]

\* The reads of one statement, by its answer or while it runs.
Fresh(a) ==
    /\ Len(a.scans) <= Len(input[a.line].tables)
    /\ \A n \in DOMAIN a.scans :
          LET name == input[a.line].tables[n]
          IN  /\ name \in DOMAIN cat
              /\ a.begun[name] \in Nat
              /\ a.scans[n].version \in a.begun[name] .. Len(files[name])
              /\ a.scans[n].version >= 1

\* Statement b began when a had made its reads.
After(b, a) ==
    \A n \in DOMAIN a.scans : a.scans[n].version <= b.begun[input[a.line].tables[n]]

BegunBefore ==
    /\ begun \in [Names -> Nat]
    /\ \A name \in Names : begun[name] <= Len(files[name])

Freshness ==
    /\ BegunBefore
    /\ \A a \in ToSet(out) : Fresh(a) /\ \A b \in ToSet(out) : a.line < b.line => After(b, a)
    /\ pc \in {"planning", "scanning"} => Fresh(Running) /\ \A a \in ToSet(out) : After(Running, a)

RowOf(record, columns) == [j \in DOMAIN columns |-> ParseField(record[j], columns[j].type)]

\* The n-th read of a statement went through and has all its rows.
Whole(a, n) ==
    LET file == File(a, n)
        columns == ColumnsOf(a, n)
    IN  /\ Reads(file, columns)
        /\ a.scans[n].rows = [m \in DOMAIN Records(file) |-> RowOf(Records(file)[m], columns)]

\* The reader is on the way through the file.
Underway(file, columns) ==
    /\ cols = columns
    /\ read \in {"reading", "loaded", "failed"}
    /\ read = "failed" => ~Reads(file, columns)
    /\ read # "failed" =>
          /\ file # NoFile /\ records = Records(file) /\ Rectangular(file, Len(columns))
          /\ rows \in Seq(ToSet(rows)) /\ row \in Seq(ToSet(row))
          /\ Len(rows) <= Len(records)
          /\ \A m \in DOMAIN rows : /\ rows[m] = RowOf(records[m], columns)
                                    /\ \A j \in DOMAIN columns : Parses(records[m][j], columns[j].type)
          /\ Len(row) <= Len(columns) /\ (row # <<>> => MoreRecords)
          /\ \A j \in DOMAIN row :
                LET field == records[Len(rows) + 1][j]
                IN  row[j] = ParseField(field, columns[j].type) /\ Parses(field, columns[j].type)
    /\ read = "loaded" => Len(rows) = Len(records)

Succeeds(a) ==
    LET line == input[a.line]
    IN  /\ line.form = "select" /\ line.accepted
        /\ ToSet(line.tables) \subseteq DOMAIN cat
        /\ Len(a.scans) = Len(line.tables)
        /\ \A n \in DOMAIN a.scans : Reads(File(a, n), ColumnsOf(a, n))

ScansAreWhole ==
    /\ \A a \in ToSet(out) : /\ a.kind = "table" <=> Succeeds(a)
                             /\ a.kind = "table" => \A n \in DOMAIN a.scans : Whole(a, n)
    /\ pc = "planning" => \A n \in DOMAIN scans : Whole(Running, n)
    /\ pc = "scanning" => /\ \A n \in 1 .. Len(scans) - 1 : Whole(Running, n)
                          /\ Underway(File(Running, Len(scans)), ColumnsOf(Running, Len(scans)))

IInv == /\ CatalogInv /\ Phases /\ SessionTypes /\ AnswersFollowTheLines
        /\ Freshness /\ ScansAreWhole
=============================================================================
