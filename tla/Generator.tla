----------------------------- MODULE Generator -----------------------------
(***************************************************************************)
(* The random statements of the differential tests                         *)
(* (internal/difftest/generator.go), one step per clause.  A choice of the *)
(* seeded source is any choice.  A statement is its tokens but the EOF.    *)
(***************************************************************************)
EXTENDS Values, Syntax

CONSTANTS
    Tables,     \* the catalog: table name to its columns, each [name, type]
    Ops,        \* comparisons, some of the six
    Words,      \* type to the literals of that type
    MaxTerms,   \* bound on the comparisons of a predicate, unbounded in the code
    MaxTokens   \* bound on the tokens of a statement

VARIABLES
    text,       \* the tokens so far
    scope,      \* the tables of the statement
    from,       \* the text of its FROM
    pred,       \* the predicate so far
    terms,      \* the comparisons in it
    at          \* what comes next

vars == <<text, scope, from, pred, terms, at>>

Tk(kind, word) == [kind |-> kind, text |-> word]
Kw(word) == Tk("keyword", word)
Id(word) == Tk("ident", word)

-----------------------------------------------------------------------------
(* Columns, each [table, name, type] *)

ColumnsOf(tables) == UNION {{[table |-> t, name |-> c.name, type |-> c.type] : c \in ToSet(Tables[t])} : t \in tables}

\* Mutant: booleans are used as well.
AllColumns(tables) == ColumnsOf(tables)

UsableColumns(tables) == {c \in ColumnsOf(tables) : c.type # TBool}

NumericColumns(tables) == {c \in ColumnsOf(tables) : c.type \in {TInt, TFloat}}

Ref(c) == << Id(c.table), Tk("dot", "."), Id(c.name) >>

Literals(t) == {Tk(CASE t = TInt -> "int" [] t = TFloat -> "float" [] OTHER -> "string", w) :
                   w \in Words[IF t \in {TInt, TFloat} THEN t ELSE TText]}

Comparison(tables) ==
    UNION {{Ref(c) \o << Kw("IS"), Kw("NULL") >>, Ref(c) \o << Kw("IS"), Kw("NOT"), Kw("NULL") >>}
           \cup {Ref(c) \o << Tk("op", op), l >> : op \in Ops, l \in Literals(c.type)}
             : c \in UsableColumns(tables)}

\* joinKeys: a column of each table, of one type.
JoinKeys(left, right) ==
    {p \in UsableColumns({left}) \X UsableColumns({right}) : p[1].type = p[2].type}

Call(name, arg) == << Id(name), Tk("lparen", "(") >> \o arg \o << Tk("rparen", ")") >>

CountStar == Call("COUNT", << Tk("star", "*") >>)

Aggregate(tables) ==
    {CountStar} \cup {Call(fn, Ref(c)) : fn \in {"COUNT", "SUM", "AVG", "MIN", "MAX"}, c \in NumericColumns(tables)}

-----------------------------------------------------------------------------
\* The text goes on with words, then the statement with what comes next.
Say(words, next) ==
    /\ Len(text \o words) <= MaxTokens
    /\ text' = text \o words
    /\ at' = next

\* Query and joinQuery: a plain or an aggregate query.
SingleTable ==
    /\ at = "query"
    /\ \E t \in DOMAIN Tables : scope' = {t} /\ from' = << Kw("FROM"), Id(t) >>
    /\ \E next \in {"aggregate", "projections"} : Say(<< Kw("SELECT") >>, next)
    /\ UNCHANGED <<pred, terms>>

JoinQuery ==
    /\ at = "query"
    /\ \E left, right \in DOMAIN Tables :
          /\ left # right
          /\ scope' = {left, right}
          /\ \E p \in JoinKeys(left, right) :
                from' = << Kw("FROM"), Id(left), Kw("JOIN"), Id(right), Kw("ON") >>
                        \o Ref(p[1]) \o << Tk("op", "=") >> \o Ref(p[2])
    /\ \E next \in {"aggregate", "projections"} : Say(<< Kw("SELECT") >>, next)
    /\ UNCHANGED <<pred, terms>>

Projections ==
    /\ at = "projections"
    /\ \/ Say(<< Tk("star", "*") >> \o from, "where")
       \/ \E c \in UsableColumns(scope) : Say(Ref(c) \o from, "where")
       \/ \E c, d \in UsableColumns(scope) : Say(Ref(c) \o << Tk("comma", ",") >> \o Ref(d) \o from, "where")
    /\ UNCHANGED <<scope, from, pred, terms>>

NoPredicate == at = "where" /\ Say(<<>>, "order") /\ UNCHANGED <<scope, from, pred, terms>>

\* predicate: the first comparison, then any number of others.
AddComparison ==
    /\ at \in {"where", "predicate"} /\ terms < MaxTerms
    /\ \E c \in Comparison(scope), op \in {"AND", "OR"} :
          pred' = IF at = "where" THEN c ELSE pred \o << Kw(op) >> \o c
    /\ terms' = terms + 1
    /\ at' = "predicate"
    /\ UNCHANGED <<text, scope, from>>

Predicate ==
    /\ at = "predicate"
    /\ \/ Say(<< Kw("WHERE") >> \o pred, "order")
       \/ Say(<< Kw("WHERE"), Kw("NOT"), Tk("lparen", "(") >> \o pred \o << Tk("rparen", ")") >>, "order")
    /\ UNCHANGED <<scope, from, pred, terms>>

OrderBy ==
    /\ at = "order"
    /\ \/ Say(<<>>, "limit")
       \/ \E c \in UsableColumns(scope), dir \in {<<>>, << Kw("DESC") >>} :
             Say(<< Kw("ORDER"), Kw("BY") >> \o Ref(c) \o dir, "limit")
    /\ UNCHANGED <<scope, from, pred, terms>>

Limit ==
    /\ at = "limit"
    /\ \/ Say(<<>>, "done")
       \/ \E n \in Words.LIMIT : Say(<< Kw("LIMIT"), Tk("int", n) >>, "done")
    /\ UNCHANGED <<scope, from, pred, terms>>

AggregateQuery ==
    /\ at = "aggregate"
    /\ \E g \in UsableColumns(scope), call \in Aggregate(scope) :
          Say(Ref(g) \o << Tk("comma", ",") >> \o call \o from \o << Kw("GROUP"), Kw("BY") >> \o Ref(g), "having")
    /\ UNCHANGED <<scope, from, pred, terms>>

Having ==
    /\ at = "having"
    /\ \/ Say(<<>>, "done")
       \/ \E n \in Words.HAVING :
             Say(<< Kw("HAVING") >> \o CountStar \o << Tk("op", ">"), Tk("int", n) >>, "done")
    /\ UNCHANGED <<scope, from, pred, terms>>

Init == /\ text = <<>> /\ scope = {} /\ from = <<>> /\ pred = <<>> /\ terms = 0
        /\ at = "query"

Next == SingleTable \/ JoinQuery \/ Projections \/ NoPredicate \/ AddComparison \/ Predicate
        \/ OrderBy \/ Limit \/ AggregateQuery \/ Having
=============================================================================
