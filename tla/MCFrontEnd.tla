----------------------------- MODULE MCFrontEnd -----------------------------
(***************************************************************************)
(* The front end on inputs of six families: short lines for the lexer;     *)
(* labels, which are lexed and read back as expressions; the tokens of     *)
(* operators, of calls and literals, and of clauses, for the parser; and   *)
(* generated statements, which are parsed and planned.                     *)
(*                                                                         *)
(* As every step of the parser looks only at the token at the cursor, a    *)
(* token of the three families of tokens is chosen when the cursor gets    *)
(* to it.                                                                  *)
(***************************************************************************)
EXTENDS Difftest, Labels, Grammar, SmallDomain

CONSTANTS
    Families,       \* those of the instance
    MaxLine,        \* characters of a line
    MaxDepth,       \* levels of a labelled tree
    MaxOperators,   \* tokens of an expression of operators
    MaxCalls,       \* tokens of an expression of calls and literals
    MaxMarks        \* tokens of a statement that are neither keywords nor names

VARIABLES
    family,         \* of the input
    tree            \* the expression labelled

-----------------------------------------------------------------------------
(* Lines: one or two characters of each class; "#" begins nothing. *)

LineChars == {"i", "S", "1", ".", "'", "<", "=", ">", " ", "#"}

ShortLines == UNION {{FoldLeft(LAMBDA s, c : s \o c, "", cs) : cs \in [1 .. n -> LineChars]} :
                        n \in 0 .. MaxLine}

(* Labels: one operator of each precedence, both unary ones, null tests and an
   aggregate's argument, over a column, and a level of them over every kind of
   leaf. *)

\* 0.5; 2.0, which is printed as 2 is; 10.0 and 12.0, which have an exponent.
Numbers == {Int64(2), Float64(1), Float64(4), Float64(20), Float64(24), Float64(Inf)}

Leaves == {Literal(v) : v \in Numbers \cup {Text(2), Bool(TRUE), NullOf(TInt)}}
          \cup {ColumnRef("t", "a"), ColumnRef("", "d"), AggregateCall(0, "COUNT", TRUE, None)}

TextSpelling == (2 :> "s")

Larger(trees) ==
    {UnaryExpr(op, e) : op \in {"NOT", "-"}, e \in trees}
    \cup {IsNullTest(e, negate) : e \in trees, negate \in BOOLEAN}
    \cup {AggregateCall(0, "MAX", FALSE, e) : e \in trees}
    \cup {BinaryExpr(op, l, r) : op \in {"OR", "AND", "<=", "-", "*"}, l, r \in trees}

Trees == Leaves \cup Larger(Leaves)
         \cup FoldLeft(LAMBDA trees, d : trees \cup Larger(trees), {ColumnRef("t", "a")},
                       [d \in 1 .. MaxDepth - 1 |-> d])

(* Tokens. *)

OperatorTokens == {A, Kw("OR"), Kw("AND"), Tk("op", "="), Tk("op", "-"), Asterisk, Kw("NOT"),
                   LParen, RParen, Kw("IS"), Kw("NULL")}

CallTokens == {A, Tk("ident", "count"), Tk("op", "-"), Asterisk, LParen, RParen, Dot, CommaToken,
               Tk("int", "9"), Tk("int", "99"), Tk("float", "0.5"), Tk("float", "1.2.3"),
               Tk("string", "s"), Kw("TRUE")}

ClauseTokens ==
    {A, Asterisk, CommaToken, Tk("int", "9")}
    \cup {Kw(kw) : kw \in {"SELECT", "FROM", "INNER", "JOIN", "ON", "WHERE", "GROUP", "BY",
                           "HAVING", "ORDER", "ASC", "DESC", "LIMIT"}}

Alphabet == [operators |-> OperatorTokens, calls |-> CallTokens, clauses |-> ClauseTokens]

UpperNames == [n \in {"a", "count", "COUNT", "SUM", "AVG", "MIN", "MAX"} |->
                  IF n \in DOMAIN FunctionNames THEN FunctionNames[n] ELSE n]

\* 99 is beyond int64, 1.2 rounded to a half, 1.2.3 not well-formed.
Spellings == ("9" :> 9) @@ ("99" :> 99) @@ ("0.5" :> 1) @@ ("s" :> 2) @@ ("2" :> 2)
             @@ ("1.2" :> 2) @@ ("0" :> 0) @@ ("1" :> 1) @@ ("bob" :> 2)

(* The tables and words of generated statements. *)

Column(n, type) == [name |-> n, type |-> type]

TablesWithBool == [users  |-> << Column("id", TInt), Column("name", TText), Column("vip", TBool) >>,
                   orders |-> << Column("id", TInt), Column("total", TFloat) >>]

SomeWords == [INT |-> {"1"}, FLOAT |-> {"0.5"}, TEXT |-> {"bob"}, LIMIT |-> {"1"}, HAVING |-> {"0"}]

-----------------------------------------------------------------------------
allVars == <<frontEndVars, genVars, family, tree>>

FromText(line) == input = line /\ place = 1 /\ toks = <<>> /\ outcome = "lexing"
FromTokens(start) == input = "" /\ place = 1 /\ toks = <<>> /\ outcome = start

FrontEndInit ==
    /\ family \in Families
    /\ \/ family = "lines" /\ New("SELECT") /\ tree = None /\ L!Begin
       \/ family = "labels" /\ New("expression") /\ tree \in Trees /\ FromText(String(tree))
       \/ family \in {"operators", "calls"} /\ New("expression") /\ tree = None /\ FromTokens("running")
       \/ family = "clauses" /\ New("SELECT") /\ tree = None /\ FromTokens("running")
       \/ family = "generated" /\ New("SELECT") /\ tree = None /\ FromTokens("generating")
    /\ G!Init
    /\ plan = None

\* The next token, as soon as it is looked at.
Fits(ts) == CASE family = "operators" -> Len(ts) < MaxOperators
              [] family = "calls" -> Len(ts) < MaxCalls
              [] OTHER -> Marks(ts) <= MaxMarks

Supply ==
    /\ family \in DOMAIN Alphabet
    /\ Running /\ pos > Len(toks)
    /\ \E t \in Alphabet[family] \cup {EOF} :
          /\ toks' = Append(toks, t)
          /\ t = EOF \/ Fits(toks')
    /\ UNCHANGED <<pos, stack, result, st, outcome, input, place, plan>>

FrontEndNext ==
    \/ Lex /\ UNCHANGED <<genVars, family, tree>>
    \/ family # "lines" /\ Handover /\ UNCHANGED <<genVars, family, tree>>
    \/ Supply /\ UNCHANGED <<genVars, family, tree>>
    \/ pos <= Len(toks) /\ Parse /\ UNCHANGED <<genVars, family, tree>>
    \/ Generate /\ UNCHANGED <<family, tree>>
    \/ family = "generated" /\ UNCHANGED <<genVars, family, tree>> /\ Plan

FrontEndSpec == FrontEndInit /\ [][FrontEndNext]_allVars /\ WF_allVars(FrontEndNext)

-----------------------------------------------------------------------------
(* The lexer's tokens are the lexemes of the line and cover it; a line that is
   refused has none where it stops. *)
LexesTheLine ==
    family = "lines" => L!TokensAreLongestLexemes /\ L!CoversTheLine /\ L!RefusesNoLexeme

RECURSIVE Anonymous(_)
Anonymous(e) ==
    CASE e.kind = "aggregate" -> [e EXCEPT !.id = 0, !.arg = Anonymous(@)]
      [] e.kind \in {"unary", "isnull"} -> [e EXCEPT !.arg = Anonymous(@)]
      [] e.kind = "binary" -> [e EXCEPT !.left = Anonymous(@), !.right = Anonymous(@)]
      [] OTHER -> e

OperatorPhrases == ExpressionsOf(OperatorTokens, MaxOperators - 1)
CallPhrases     == ExpressionsOf(CallTokens, MaxCalls - 1)
Statements      == Selects(ExpressionsOf(ClauseTokens, 2 * MaxMarks + 1), NoStatement, MaxMarks)

OperatorBeginnings  == Beginnings(OperatorPhrases)
CallBeginnings      == Beginnings(CallPhrases)
StatementBeginnings == Beginnings(Statements)

\* What was taken is a phrase, no longer one was there to take, and nothing
\* that begins one was refused.
Takes(taken, phrases, beginnings) ==
    /\ outcome = "parsed" => taken \in phrases /\ SubSeq(toks, 1, pos) \notin beginnings
    /\ outcome = "error" => toks \notin beginnings

Expression1 == Phrase(SubSeq(toks, 1, pos - 1), Anonymous(result))

(* ParseExpr takes the longest expression the tokens begin with, and its tree
   is the one the grammar and the precedences give; ParseSelect takes all of
   the tokens as one statement, each clause as it is written.  What could go on
   to an expression or a statement is never refused. *)
ParsesTheGrammar ==
    /\ family = "operators" => Takes(Expression1, OperatorPhrases, OperatorBeginnings)
    /\ family = "calls" => Takes(Expression1, CallPhrases, CallBeginnings)
    /\ family = "clauses" => /\ outcome = "parsed" => Phrase(toks, st) \in Statements
                             /\ outcome = "error" => toks \notin StatementBeginnings

\* The grouping of an expression: neither the type of a whole number nor the
\* identity of a call shows.
RECURSIVE Grouping(_)
Grouping(e) ==
    CASE e.kind = "literal" ->
           Literal(IF e.val.type = TFloat /\ e.val.x % 2 = 0 THEN Int64(e.val.x \div 2) ELSE e.val)
      [] e.kind \in {"unary", "isnull", "aggregate"} -> [e EXCEPT !.arg = Grouping(@)]
      [] e.kind = "binary" -> [e EXCEPT !.left = Grouping(@), !.right = Grouping(@)]
      [] OTHER -> e

\* One IS NULL of another, or a FLOAT with an exponent.
RECURSIVE Unreadable(_)
Unreadable(e) ==
    CASE e.kind = "literal" -> e.val.type = TFloat /\ HasExponent(e.val.x)
      [] e.kind = "isnull" -> e.arg.kind = "isnull" \/ Unreadable(e.arg)
      [] e.kind \in {"unary", "aggregate"} -> Unreadable(e.arg)
      [] e.kind = "binary" -> Unreadable(e.left) \/ Unreadable(e.right)
      [] OTHER -> FALSE

Ended == outcome \in {"parsed", "error"}

ReadBack == outcome = "parsed" /\ Kind("eof")

(* A rendered label cannot be read with the wrong grouping (string.go:53-54):
   when the lexer and the parser read its whole text as an expression, that is
   the one the label was made from.  They read every label but two kinds: one
   IS NULL of another, whose parentheses are dropped (string.go:57-62), and a FLOAT
   that value.go:49 gives an exponent, which the lexer splits (2e+06, +Inf). *)
LabelsReadBack ==
    family = "labels" /\ Ended =>
        /\ ReadBack <=> ~Unreadable(tree)
        /\ ReadBack => Grouping(Anonymous(result)) = Grouping(tree)

(* The engine refuses no generated statement: the differential test fails on
   one that it refuses (differential_test.go:78-79). *)
GeneratedStatementsAreAccepted ==
    family = "generated" => outcome # "error" /\ plan # P!Rejected

(* The lexer and the parser end on whatever they are given. *)
Terminates == []<>(outcome \notin {"lexing", "running"})
=============================================================================
