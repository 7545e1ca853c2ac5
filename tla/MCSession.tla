----------------------------- MODULE MCSession -----------------------------
(* Sessions of up to MaxLines lines over two tables, and what their files
   and the schema file may hold. *)
EXTENDS Session, SmallDomain

CONSTANTS
    MaxLines,
    LongLines       \* whether a line may exceed the buffer

TableLine(name, parts) == [form |-> "table", name |-> name, parts |-> parts]

T == TableLine("t", << <<"a", "int">>, <<"b", "TEXT">> >>)
U == TableLine("u", << <<"c", "FLOAT">>, <<"d", "BOOL">> >>)
OldT == TableLine("t", << <<"d", "BOOL">>, <<"c", "FLOAT">> >>)
NoType == TableLine("u", << <<"a", "INT">>, <<"b", "BLOB">> >>)
NoWord == TableLine("u", << <<"a">>, <<"b", "TEXT">> >>)
Comment == [form |-> "skip", name |-> "", parts |-> <<>>]
NoParentheses == [form |-> "bad", name |-> "", parts |-> <<>>]

TwoTables == { <<T, Comment, U>>, <<OldT, T>>, <<T, NoType>>, <<NoWord, T>>, <<T, NoParentheses>>, NoFile }

OneColumn == { << TableLine("t", << <<"a", "INT">> >>) >> }

UpperTypes == [w \in {"int", "INT", "FLOAT", "TEXT", "BOOL", "BLOB"} |-> IF w = "int" THEN "INT" ELSE w]

Fields == [INT   |-> "1" :> Int64(1),
           FLOAT |-> ("1" :> Float64(2)) @@ ("NaN" :> NaN),
           BOOL  |-> ("1" :> Bool(TRUE)) @@ ("t" :> Bool(TRUE)),
           TEXT  |-> ("1" :> Text(2)) @@ ("NaN" :> Text(3)) @@ ("t" :> Text(4))]

\* The first is readable as both tables, the second as t alone, with a blank
\* line that is no row of it, the third as neither.
TwoColumns == { << <<"1", "t">>, <<"", "">> >>, << <<"1", "NaN">>, <<"">>, <<"", "t">> >>,
                << <<"1", "t">>, <<"1">> >>, NoFile }

ThreeNumbers == { << <<"1">>, <<"">>, <<"1">> >> }

Select(tables, accepted) == [form |-> "select", tables |-> tables, accepted |-> accepted]
Other(form) == [form |-> form, tables |-> <<>>, accepted |-> FALSE]

Lines == {Select(<<"t">>, TRUE), Select(<<"u", "t">>, TRUE), Select(<<"t", "t">>, FALSE),
          Other("garbage"), Other("blank")} \cup (IF LongLines THEN {Other("long")} ELSE {})

AllSessions == UNION {[1 .. n -> Lines] : n \in 0 .. MaxLines}
=============================================================================
