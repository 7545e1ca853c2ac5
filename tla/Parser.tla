------------------------------- MODULE Parser -------------------------------
(***************************************************************************)
(* The recursive-descent parser (internal/parser/parser.go).               *)
(*                                                                         *)
(* A call of ParseSelect, ParseExpr, parseBinary, parseUnary, parsePostfix *)
(* or parsePrimary is a frame of stack, the running one last; its at is    *)
(* where the call continues, and result is what the call above it has      *)
(* returned.  A call whose result is returned as it is has a frame too.    *)
(* The helpers peek, next, atEOF, expectKeyword and peekBinaryOp are part  *)
(* of the steps that call them.  Every step looks at no other token than   *)
(* the one at the cursor.  An error ends every call at once, as each       *)
(* caller returns the error of the one it called.                          *)
(*                                                                         *)
(* A token is [kind, text].  Positions serve messages only, and are left   *)
(* out.                                                                    *)
(***************************************************************************)
EXTENDS Values, Syntax

CONSTANTS
    Inputs,     \* the token sequences
    Upper,      \* strings.ToUpper on the names in use
    Spelled     \* what the text of a well-formed literal spells: an integer, a
                \* count of half units, the place of a string in Texts

VARIABLES
    toks, pos,  \* the tokens and the cursor
    stack,      \* the calls
    result,     \* the expression returned last
    st,         \* the statement built so far
    outcome     \* "running", "parsed" or "error"

vars == <<toks, pos, stack, result, st, outcome>>

Token == [kind : STRING, text : STRING]

\* Every token sequence ends in its only EOF.
ASSUME InputsAssumption ==
    \A s \in Inputs : /\ s \in Seq(Token) /\ s # <<>>
                      /\ \A n \in DOMAIN s : s[n].kind = "eof" <=> n = Len(s)

Star == [kind |-> "star"]

\* limit is at most one count.
NoStatement == [projections |-> <<>>, from |-> "", joins |-> <<>>, where |-> None,
                groupBy |-> <<>>, having |-> None, orderBy |-> <<>>, limit |-> <<>>]

-----------------------------------------------------------------------------
(* The token at the cursor *)

Tok == toks[pos]

Kind(kind)  == Tok.kind = kind
Keyword(kw) == Tok.kind = "keyword" /\ Tok.text = kw

\* binaryPrec: the operators from the loosest to the tightest.
Levels == << {"OR"}, {"AND"}, Comparisons, {"+", "-"}, {"*", "/"} >>

Prec(op) == CHOOSE n \in DOMAIN Levels : op \in Levels[n]

\* peekBinaryOp, and the test that follows it.
Binds(min) == /\ Tok.kind \in {"op", "star"} \/ Keyword("AND") \/ Keyword("OR")
              /\ Prec(Tok.text) >= min

\* ParseInt cuts a number beyond int64 to the greatest integer.
AsInt(n) == IF n < IntCutoff THEN n ELSE IntCutoff - 1

\* The errors of ParseInt and ParseFloat are ignored: what has two points is 0.
LiteralValue ==
    CASE Kind("int") -> Int64(AsInt(Spelled[Tok.text]))
      [] Kind("float") -> Float64(IF Tok.text \in DOMAIN Spelled THEN Round[Spelled[Tok.text]] ELSE 0)
      [] Kind("string") -> Text(Spelled[Tok.text])
      [] Keyword("TRUE") -> Bool(TRUE)
      [] Keyword("FALSE") -> Bool(FALSE)
      [] Keyword("NULL") -> NullOf(TInt)

IsLiteral == \/ Tok.kind \in {"int", "float", "string"}
             \/ Keyword("TRUE") \/ Keyword("FALSE") \/ Keyword("NULL")

-----------------------------------------------------------------------------
(* Calls and returns *)

Top == stack[Len(stack)]

Callers == SubSeq(stack, 1, Len(stack) - 1)

Running == outcome = "running"

At(point) == Running /\ Top.at = point

Consume == pos' = pos + 1
Peek    == pos' = pos

\* The running call goes on as the frames given, the last of which runs next.
Become(frames) == stack' = Callers \o frames /\ UNCHANGED <<result, st, outcome>>

Return(e) == stack' = Callers /\ result' = e /\ UNCHANGED <<st, outcome>>

Error == outcome' = "error" /\ UNCHANGED <<stack, result, st>>

Goto(point) == [Top EXCEPT !.at = point]

\* Mutant: a call for each level of precedence.
CallLevels(min) ==
    [n \in 1 .. 6 - min |-> [at |-> "operator", min |-> n + min - 1, op |-> "", left |-> None]]
    \o << [at |-> "unary"] >>

\* parseBinary calls parseUnary before it looks at any token.
Call(min) == << [at |-> "operator", min |-> min, op |-> "", left |-> None], [at |-> "unary"] >>

CallExpr == << [at |-> "expression"] >> \o Call(1)

-----------------------------------------------------------------------------
(* Expressions *)

\* The call of parseUnary that waits for its operand, under op or, for "", none.
Waiting(op) == [at |-> "operand", op |-> op]

\* parseUnary, which calls itself or parsePostfix, which calls parsePrimary
Unary ==
    /\ At("unary")
    /\ IF Keyword("NOT") \/ (Kind("op") /\ Tok.text = "-")
       THEN Consume /\ Become(<< Waiting(Tok.text), [at |-> "unary"] >>)
       ELSE Peek /\ Become(<< Waiting(""), [at |-> "postfix"], [at |-> "primary"] >>)

Operand ==
    /\ At("operand")
    /\ Peek
    /\ Return(IF Top.op = "" THEN result ELSE UnaryExpr(Top.op, result))

\* Mutant: the right operand may hold an operator of the same precedence.
RightMinSame(op) == Prec(op)

RightMin(op) == Prec(op) + 1

\* parseBinary, whenever an operand has been parsed
Operator ==
    /\ At("operator")
    /\ LET left == IF Top.op = "" THEN result ELSE BinaryExpr(Top.op, Top.left, result)
       IN  IF Binds(Top.min)
           THEN /\ Consume
                /\ Become(<< [Top EXCEPT !.op = Tok.text, !.left = left] >>
                             \o Call(RightMin(Tok.text)))
           ELSE Peek /\ Return(left)

\* ParseExpr, which returns what parseBinary does.  Called for itself, it leaves
\* the tokens that follow the expression.
ParseExpr ==
    /\ At("expression")
    /\ Peek
    /\ IF Len(stack) = 1 THEN outcome' = "parsed" /\ UNCHANGED <<stack, result, st>>
       ELSE Return(result)

\* parsePostfix
Postfix ==
    /\ At("postfix")
    /\ IF Keyword("IS") THEN Consume /\ Become(<< [at |-> "IS", arg |-> result] >>)
       ELSE Peek /\ Return(result)

\* Mutant: NOT is looked at again.
IsNotAgain ==
    /\ At("IS")
    /\ Peek
    /\ Become(<< [at |-> IF Keyword("NOT") THEN "IS" ELSE "NULL", arg |-> Top.arg, negate |-> FALSE] >>)

IsNot ==
    /\ At("IS")
    /\ IF Keyword("NOT") THEN Consume ELSE Peek
    /\ Become(<< [at |-> "NULL", arg |-> Top.arg, negate |-> Keyword("NOT")] >>)

IsNullEnd ==
    /\ At("NULL")
    /\ IF Keyword("NULL") THEN Consume /\ Return(IsNullTest(Top.arg, Top.negate))
       ELSE Peek /\ Error

\* parsePrimary
Primary ==
    /\ At("primary")
    /\ Consume
    /\ \/ Kind("lparen") /\ Become(<< [at |-> "paren"] >> \o CallExpr)
       \/ IsLiteral /\ Return(Literal(LiteralValue))
       \/ Kind("ident") /\ Become(<< [at |-> "name", name |-> Tok.text] >>)
       \/ ~IsLiteral /\ ~Kind("lparen") /\ ~Kind("ident") /\ Error

Paren ==
    /\ At("paren")
    /\ IF Kind("rparen") THEN Consume /\ Return(result) ELSE Peek /\ Error

Name ==
    /\ At("name")
    /\ CASE Kind("lparen") -> Consume /\ Become(<< [at |-> "call", name |-> Upper[Top.name]] >>)
         [] Kind("dot") -> Consume /\ Become(<< [at |-> "field", table |-> Top.name] >>)
         [] OTHER -> Peek /\ Return(ColumnRef(Unqualified, Top.name))

AggregateArg ==
    /\ At("call")
    /\ CASE Kind("star") -> Consume /\ Become(<< [at |-> "close", name |-> Top.name, star |-> TRUE] >>)
         [] Kind("rparen") -> Peek /\ Error
         [] OTHER -> /\ Peek
                     /\ Become(<< [at |-> "close", name |-> Top.name, star |-> FALSE] >> \o CallExpr)

TakesStar(name) == name = "COUNT"

AggregateEnd ==
    /\ At("close")
    /\ IF Kind("rparen") THEN Consume ELSE Peek
    /\ IF Kind("rparen") /\ (Top.star => TakesStar(Top.name))
       THEN Return(AggregateCall(pos, Top.name, Top.star, IF Top.star THEN None ELSE result))
       ELSE Error

ColumnName ==
    /\ At("field")
    /\ Consume
    /\ IF Kind("ident") THEN Return(ColumnRef(Top.table, Tok.text)) ELSE Error

-----------------------------------------------------------------------------
(* ParseSelect.  It is the first call, and each of its clauses in turn is
   where it continues. *)

\* The running call goes on at point and the statement becomes s.
Build(point, s) == /\ stack' = Callers \o << Goto(point) >>
                   /\ st' = s
                   /\ UNCHANGED <<result, outcome>>

\* expectKeyword: the points named for a keyword, and where each leads.
Then == [kw \in {"SELECT", "FROM", "ON", "BY"} |->
    CASE kw = "SELECT" -> "projection" [] kw = "FROM" -> "table"
      [] kw = "ON" -> "condition" [] kw = "BY" -> "item"]

ExpectKeyword ==
    /\ Running /\ Top.at \in DOMAIN Then
    /\ IF Keyword(Top.at) THEN Consume /\ Become(<< Goto(Then[Top.at]) >>) ELSE Peek /\ Error

\* The points where ParseExpr is called, and where each goes on.
After == [projection |-> "projected", condition |-> "joined", item |-> "listed"]

Expression ==
    /\ Running /\ Top.at \in DOMAIN After
    /\ ~(Top.at = "projection" /\ Kind("star"))
    /\ Peek
    /\ Become(<< Goto(After[Top.at]) >> \o CallExpr)

ProjectStar ==
    /\ At("projection") /\ Kind("star")
    /\ Consume
    /\ result' = Star
    /\ stack' = Callers \o << Goto("projected") >>
    /\ UNCHANGED <<st, outcome>>

Projected ==
    /\ At("projected")
    /\ IF Kind("comma") THEN Consume ELSE Peek
    /\ Build(IF Kind("comma") THEN "projection" ELSE "FROM",
             [st EXCEPT !.projections = Append(@, result)])

\* Mutant: the table's name is not checked.
FromUnchecked == At("table") /\ Consume /\ Build("joins", [st EXCEPT !.from = Tok.text])

From ==
    /\ At("table")
    /\ Consume
    /\ IF Kind("ident") THEN Build("joins", [st EXCEPT !.from = Tok.text]) ELSE Error

Clause(kw) == [at |-> "clause", kw |-> kw]

Joins ==
    /\ At("joins")
    /\ IF Keyword("INNER") THEN Consume ELSE Peek
    /\ Become(<< IF Keyword("INNER") \/ Keyword("JOIN") THEN Goto("JOIN") ELSE Clause("WHERE") >>)

MaxJoins == 1

Join ==
    /\ At("JOIN")
    /\ IF Keyword("JOIN") THEN Consume ELSE Peek
    /\ IF Keyword("JOIN") /\ Len(st.joins) < MaxJoins THEN Become(<< Goto("joined table") >>)
       ELSE Error

JoinedTable ==
    /\ At("joined table")
    /\ Consume
    /\ IF Kind("ident") THEN Become(<< [at |-> "ON", table |-> Tok.text] >>) ELSE Error

Joined ==
    /\ At("joined")
    /\ Peek
    /\ Build("joins", [st EXCEPT !.joins = Append(@, [table |-> Top.table, on |-> result])])

\* The optional clauses: where each begins, and which is next.
Begins(kw) == CASE kw \in {"WHERE", "HAVING"} -> "item"
                [] kw \in {"GROUP", "ORDER"} -> "BY"
                [] OTHER -> "count"

Follows == [WHERE |-> "GROUP", GROUP |-> "HAVING", HAVING |-> "ORDER", ORDER |-> "LIMIT"]

NextClause == << IF Top.kw = "LIMIT" THEN Goto("end") ELSE Clause(Follows[Top.kw]) >>

OptionalClause ==
    /\ At("clause")
    /\ IF Keyword(Top.kw) THEN Consume ELSE Peek
    /\ Become(IF Keyword(Top.kw) THEN << Goto(Begins(Top.kw)) >> ELSE NextClause)

\* An expression of a clause, with its direction under ORDER BY.
Listed ==
    /\ At("listed")
    /\ IF Top.kw = "ORDER" /\ (Keyword("ASC") \/ Keyword("DESC")) THEN Consume ELSE Peek
    /\ Build("comma",
             CASE Top.kw = "WHERE"  -> [st EXCEPT !.where = result]
               [] Top.kw = "GROUP"  -> [st EXCEPT !.groupBy = Append(@, result)]
               [] Top.kw = "HAVING" -> [st EXCEPT !.having = result]
               [] Top.kw = "ORDER"  -> [st EXCEPT !.orderBy =
                      Append(@, [expr |-> result, desc |-> Keyword("DESC")])])

\* Only the lists go on after a comma.
Comma ==
    /\ At("comma")
    /\ LET more == Kind("comma") /\ Top.kw \in {"GROUP", "ORDER"}
       IN  /\ IF more THEN Consume ELSE Peek
           /\ Become(IF more THEN << Goto("item") >> ELSE NextClause)

\* Atoi, its error ignored.
Limit ==
    /\ At("count")
    /\ Consume
    /\ IF Kind("int") THEN Build("end", [st EXCEPT !.limit = <<AsInt(Spelled[Tok.text])>>]) ELSE Error

\* The statement must end where the tokens do.
End ==
    /\ At("end")
    /\ Peek
    /\ IF Kind("eof") THEN outcome' = "parsed" /\ UNCHANGED <<stack, result, st>> ELSE Error

-----------------------------------------------------------------------------
\* New: nothing is taken.  The first call is of ParseSelect, with start SELECT,
\* or of ParseExpr.
New(start) ==
    /\ pos = 1
    /\ stack = IF start = "SELECT" THEN << [at |-> "SELECT"] >> ELSE CallExpr
    /\ result = None
    /\ st = NoStatement

Init == /\ toks \in Inputs
        /\ New("SELECT") \/ New("expression")
        /\ outcome = "running"

Next ==
    /\ \/ Unary \/ Operand \/ Operator \/ ParseExpr \/ Postfix \/ IsNot \/ IsNullEnd \/ Primary \/ Paren
       \/ Name \/ AggregateArg \/ AggregateEnd \/ ColumnName
       \/ ExpectKeyword \/ Expression \/ ProjectStar \/ Projected \/ From
       \/ Joins \/ Join \/ JoinedTable \/ Joined
       \/ OptionalClause \/ Listed \/ Comma \/ Limit \/ End
    /\ UNCHANGED toks

Spec == Init /\ [][Next]_vars /\ WF_vars(Next)

-----------------------------------------------------------------------------
(* next advances without a bound, and peek indexes without one (parser.go:21-22):
   a token past the EOF would be a panic.  The EOF is never behind the cursor of
   a parser that goes on. *)
CursorInRange == Running => \A n \in DOMAIN toks : toks[n].kind = "eof" => pos <= n

(* Recursion is bounded by the input: at most five calls are on the stack for
   each token up to the cursor, which is what one opening parenthesis adds
   (parser.go:121-122: parsePrimary, ParseExpr, parseBinary, parseUnary,
   parsePostfix).  No other limit on the depth is set. *)
DepthBounded == Len(stack) <= 5 * pos

-----------------------------------------------------------------------------
(* The inductive invariant of the depth. *)

\* The points of the first call, of ParseSelect or of ParseExpr.
Points == {"SELECT", "projection", "projected", "FROM", "table", "joins", "JOIN", "joined table",
           "ON", "condition", "joined", "clause", "BY", "item", "listed", "comma", "count", "end",
           "expression"}

\* The calls that a frame makes before it takes a token.
Ahead(point) == CASE point \in DOMAIN After \cup {"call"} -> 5
                  [] point = "unary" -> 2
                  [] OTHER -> 0

\* The first call alone is of ParseSelect, and every frame has room for what it
\* calls ahead of the tokens.
FramesInv ==
    /\ pos \in Nat
    /\ stack \in Seq(ToSet(stack)) /\ stack # <<>>
    /\ stack[1].at \in Points
    /\ \A n \in DOMAIN stack : "at" \in DOMAIN stack[n] /\ n + Ahead(stack[n].at) <= 5 * pos
=============================================================================
