------------------------------ MODULE Grammar ------------------------------
(***************************************************************************)
(* What the parser should take, as the phrases of a bounded length over an *)
(* alphabet of tokens: the grammar of README.md:93-105, widened as         *)
(* parser.go means it to be, with `*` among other projections, lists in    *)
(* GROUP BY, HAVING without GROUP BY, and any condition in ON.             *)
(*                                                                         *)
(* A phrase is its tokens and its tree.  The tree of a clause is the       *)
(* fields of the statement that it sets.                                   *)
(***************************************************************************)
EXTENDS Values, Syntax

Phrase(ts, e) == [toks |-> ts, tree |-> e]

Tk(kind, word) == [kind |-> kind, text |-> word]
Kw(word) == Tk("keyword", word)

EOF == Tk("eof", "")
A == Tk("ident", "a")
LParen == Tk("lparen", "(")
RParen == Tk("rparen", ")")
Asterisk == Tk("star", "*")
Dot == Tk("dot", ".")
CommaToken == Tk("comma", ",")

-----------------------------------------------------------------------------
(* Expressions *)

\* Identities of calls do not matter.
Aggregate(name, star, e) == AggregateCall(0, name, star, e)

Idents(alphabet) == {t \in alphabet : t.kind = "ident"}

WordPhrases(alphabet) ==
    {Phrase(<<t>>, ColumnRef("", t.text)) : t \in Idents(alphabet)}
    \cup {Phrase(<<p[1]>>, Literal(p[2])) :
            p \in {q \in { <<Kw("NULL"), NullOf(TInt)>>, <<Kw("TRUE"), Bool(TRUE)>>,
                           <<Tk("int", "9"), Int64(9)>>, <<Tk("int", "99"), Int64(IntCutoff - 1)>>,
                           <<Tk("float", "0.5"), Float64(1)>>, <<Tk("float", "1.2.3"), Float64(0)>>,
                           <<Tk("string", "s"), Text(2)>> } : q[1] \in alphabet}}

\* The binary operators, loosest first.
Rank == << Kw("OR"), Kw("AND"), Tk("op", "="), Tk("op", "-"), Asterisk >>

Signs == {Tk("op", "-"), Kw("NOT")}

FunctionNames == [a |-> "A", count |-> "COUNT"]

\* The phrases of one length, by form, given those of the shorter lengths:
\* form 7 is a primary, 6 a unary expression, 1 .. 5 hold operators of at
\* least that rank.
PhrasesOf(alphabet, table) ==
    LET n == Len(table) + 1
        Shorter(k, form) == IF k \in DOMAIN table THEN table[k][form] ELSE {}
        idents == Idents(alphabet)
        primary ==
            {p \in WordPhrases(alphabet) : n = 1}
            \cup {Phrase(<<LParen>> \o p.toks \o <<RParen>>, p.tree) : p \in Shorter(n - 2, 1)}
            \cup {Phrase(<<t, Dot, c>>, ColumnRef(t.text, c.text)) : t, c \in {x \in idents : n = 3}}
            \cup {Phrase(<<f, LParen, Asterisk, RParen>>, Aggregate("COUNT", TRUE, None)) :
                    f \in {x \in idents : n = 4 /\ x.text = "count"}}
            \cup {Phrase(<<f, LParen>> \o p.toks \o <<RParen>>,
                         Aggregate(FunctionNames[f.text], FALSE, p.tree)) :
                    f \in idents, p \in Shorter(n - 3, 1)}
        unary ==
            primary
            \cup {Phrase(p.toks \o <<Kw("IS"), Kw("NULL")>>, IsNullTest(p.tree, FALSE)) :
                    p \in Shorter(n - 2, 7)}
            \cup {Phrase(p.toks \o <<Kw("IS"), Kw("NOT"), Kw("NULL")>>, IsNullTest(p.tree, TRUE)) :
                    p \in Shorter(n - 3, 7)}
            \cup {Phrase(<<s>> \o p.toks, UnaryExpr(s.text, p.tree)) : s \in Signs, p \in Shorter(n - 1, 6)}
        Binary(form) ==
            {Phrase(l.toks \o <<Rank[form]>> \o r.toks, BinaryExpr(Rank[form].text, l.tree, r.tree)) :
                <<l, r>> \in UNION {Shorter(k, form) \X Shorter(n - 1 - k, form + 1) : k \in 1 .. n - 2}}
        AtLeast(form, tighter) ==
            tighter \cup {p \in Binary(form) : Rank[form] \in alphabet}
        products    == AtLeast(5, unary)
        sums        == AtLeast(4, products)
        comparisons == AtLeast(3, sums)
        conjunctions == AtLeast(2, comparisons)
    IN  << AtLeast(1, conjunctions), conjunctions, comparisons, sums, products, unary, primary >>

\* The expressions of at most n tokens.
ExpressionsOf(alphabet, n) ==
    LET table[m \in 0 .. n] == IF m = 0 THEN <<>>
                               ELSE LET t == table[m - 1] IN Append(t, PhrasesOf(alphabet, t))
    IN  UNION {{p \in row[1] : ToSet(p.toks) \subseteq alphabet} : row \in ToSet(table[n])}

\* What a phrase may begin with.
Beginnings(phrases) == UNION {{SubSeq(p.toks, 1, n) : n \in DOMAIN p.toks} : p \in phrases}

-----------------------------------------------------------------------------
(* Statements over the given expressions *)

\* The tokens whose number is bounded in a statement.
Marks(ts) == Cardinality({n \in DOMAIN ts : ts[n].kind \in {"star", "comma", "int"}})

Bounded(phrases, marks) == {p \in phrases : Marks(p.toks) <= marks}

Lists(items, field) ==
    LET Longer(ls) == {Phrase(l.toks \o <<CommaToken>> \o x.toks, field :> (l.tree[field] \o <<x.tree>>)) :
                          l \in ls, x \in items}
        one == {Phrase(x.toks, field :> <<x.tree>>) : x \in items}
    IN  one \cup Longer(one) \cup Longer(Longer(one))

Setting(items, field) == {Phrase(x.toks, field :> x.tree) : x \in items}

Led(kws, phrases) == {Phrase(kws \o p.toks, p.tree) : p \in phrases}

Absent == Phrase(<<>>, <<>>)

Clauses(items) ==
    LET sorted == {Phrase(x.toks \o d[1], [expr |-> x.tree, desc |-> d[2]]) : x \in items,
                      d \in { << <<>>, FALSE >>, << <<Kw("ASC")>>, FALSE >>, << <<Kw("DESC")>>, TRUE >> }}
        on == {Phrase(<<Kw("JOIN"), A, Kw("ON")>> \o x.toks,
                      [joins |-> << [table |-> "a", on |-> x.tree] >>]) : x \in items}
    IN  << Led(<<Kw("SELECT")>>, Lists(items \cup {Phrase(<<Asterisk>>, [kind |-> "star"])}, "projections")),
           {Phrase(<<Kw("FROM"), A>>, [from |-> "a"])},
           on \cup Led(<<Kw("INNER")>>, on) \cup {Absent},
           Led(<<Kw("WHERE")>>, Setting(items, "where")) \cup {Absent},
           Led(<<Kw("GROUP"), Kw("BY")>>, Lists(items, "groupBy")) \cup {Absent},
           Led(<<Kw("HAVING")>>, Setting(items, "having")) \cup {Absent},
           Led(<<Kw("ORDER"), Kw("BY")>>, Lists(sorted, "orderBy")) \cup {Absent},
           {Phrase(<<Kw("LIMIT"), Tk("int", "9")>>, [limit |-> <<9>>]), Absent},
           {Phrase(<<EOF>>, <<>>)} >>

\* Clause by clause, each after all that may precede it.
Selects(items, empty, marks) ==
    LET clauses == Clauses(Bounded(items, marks))
        begun[n \in 0 .. Len(clauses)] ==
            IF n = 0 THEN {Phrase(<<>>, empty)}
            ELSE LET before == begun[n - 1]
                 IN  Bounded({Phrase(b.toks \o c.toks, c.tree @@ b.tree) :
                                b \in before, c \in Bounded(clauses[n], marks)}, marks)
    IN  begun[Len(clauses)]
=============================================================================
