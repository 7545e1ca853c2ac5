----------------------------- MODULE MCPlanner -----------------------------
(***************************************************************************)
(* Statements for Planner, and the values that the rows of an execution     *)
(* are made of: one of each type, and NULL.                                *)
(*                                                                         *)
(* Statements rest on expressions and those on values, so one run checks   *)
(* the three on one domain: a behaviour is about a pair of rows, a growing *)
(* expression or a statement, and the variables of the others are idle.    *)
(***************************************************************************)
EXTENDS Execution, MCValues, MCExpressions

CONSTANT Subjects   \* some of "values", "expressions" and "statements"

VARIABLE subject

OneOfEach == [type \in Types |-> {NullOf(type)} \cup CASE type = TInt -> {Int64(3)}
                                                     [] type = TFloat -> {Float64(1)}
                                                     [] type = TBool -> {Bool(TRUE)}
                                                     [] type = TText -> {Text(2)}]

CallIds == 1 .. 6

\* Results that tell the calls apart.
Numbered == [type \in Types |-> [id \in CallIds |->
                IF type = TBool THEN Bool(id % 2 = 0) ELSE [Int64(id) EXCEPT !.type = type]]]

Column(n, type) == [name |-> n, type |-> type]

Tables == [t |-> << Column("a", TInt), Column("b", TFloat) >>,
           u |-> << Column("a", TInt), Column("c", TBool) >>]

\* A schema line may name a column twice.
RepeatingTables == [t |-> Tables.t, w |-> << Column("a", TInt), Column("a", TFloat) >>]

A == ColumnRef("", "a")
B == ColumnRef("", "b")
C == ColumnRef("", "c")
TA == ColumnRef("t", "a")
UA == ColumnRef("u", "a")
One == Literal(Int64(1))
Star == [kind |-> "star"]

Count(id)  == AggregateCall(id, "COUNT", TRUE, None)
Agg(id, name, e) == AggregateCall(id, name, FALSE, e)

On(l, r) == BinaryExpr("=", l, r)

Statement(projections, from, join, where, groupBy, having, orderBy) ==
    [projections |-> projections, from |-> from, join |-> join, where |-> where,
     groupBy |-> groupBy, having |-> having, orderBy |-> orderBy]

Join(table, on) == [kind |-> "join", table |-> table, on |-> on]

\* Plain, compound, ambiguous, unknown, constant, spanning and ill-typed sides.
JoinOperands ==
    {TA, UA, A, B, C, One, ColumnRef("t", "c"), UnaryExpr("-", B), IsNullTest(B, FALSE),
     BinaryExpr("+", TA, B), BinaryExpr("*", UA, One), BinaryExpr("+", TA, UA),
     BinaryExpr("+", TA, A), On(TA, TA), BinaryExpr("<", UA, One), Agg(1, "MAX", TA)}

JoinStatements ==
    {Statement(<<Star>>, "t", Join(table, BinaryExpr(op, l, r)), None, <<>>, None, <<>>) :
        table \in {"t", "u"}, op \in {"=", "<"}, l, r \in JoinOperands}

\* Each call has an identity of its own within a statement.
ProjectionLists ==
    { <<Star>>, <<B>>, <<TA, BinaryExpr("+", B, TA)>>, <<BinaryExpr("AND", TA, B)>>,
      <<Count(1)>>, <<TA, Agg(1, "SUM", B), Agg(2, "MIN", TA)>>,
      <<Agg(1, "AVG", TA), BinaryExpr("/", Agg(2, "SUM", TA), Agg(3, "COUNT", B)), B>>,
      <<BinaryExpr("+", Count(1), TA), UnaryExpr("-", B)>>,
      <<Agg(1, "SUM", Agg(2, "MAX", TA))>>, <<Agg(1, "SUM", IsNullTest(B, TRUE))>>,
      <<Agg(1, "SUM", ColumnRef("", "x"))>> }

SelectStatements ==
    {Statement(projections, from, join, where, groupBy, having, orderBy) :
        projections \in ProjectionLists,
        from \in {"t", "u"},
        join \in {None, Join("u", On(UA, TA)), Join("x", On(UA, TA))},
        where \in {None, BinaryExpr("<", TA, B), BinaryExpr("+", TA, B),
                   On(Agg(4, "MAX", TA), One)},
        groupBy \in {<<>>, <<TA>>, <<B, TA>>, <<TA, ColumnRef("t", "a")>>, <<One>>},
        having \in {None, BinaryExpr(">", Agg(5, "MAX", B), One), IsNullTest(B, FALSE), Count(5)},
        orderBy \in {<<>>, <<UnaryExpr("-", TA), Agg(6, "COUNT", TA)>>, <<B>>}}

AllStatements == JoinStatements \cup SelectStatements

\* SELECT of `*`, and of one column, from each table.
NamingStatements ==
    {Statement(projections, from, join, None, groupBy, None, orderBy) :
        projections \in {<<Star>>, <<ColumnRef("w", "a")>>, <<A>>, <<Count(1)>>},
        from \in DOMAIN RepeatingTables,
        join \in {None, Join("w", On(TA, ColumnRef("w", "a"))), Join("t", On(A, B))},
        groupBy \in {<<>>, <<A>>}, orderBy \in {<<>>, <<A>>, <<B>>}}

-----------------------------------------------------------------------------
EvaluationVars == <<subject, left, right, expr, depth, st, plan>>

NoPlan == st = Statement(<<Star>>, "t", None, None, <<>>, None, <<>>) /\ plan = None

EvaluationInit ==
    /\ subject \in Subjects
    /\ PairInit
    /\ IF subject = "expressions" THEN ExprInit ELSE NoExpr
    /\ IF subject = "statements" THEN Init ELSE NoPlan

Pairs == subject = "values" /\ PairNext /\ UNCHANGED <<subject, expr, depth, st, plan>>

GrowExpr == subject = "expressions" /\ Grow /\ UNCHANGED <<subject, left, right, st, plan>>

Plans == subject = "statements" /\ Next /\ UNCHANGED <<subject, left, right, expr, depth>>

EvaluationNext == Pairs \/ GrowExpr \/ Plans

EvaluationSpec == EvaluationInit /\ [][EvaluationNext]_EvaluationVars
=============================================================================
