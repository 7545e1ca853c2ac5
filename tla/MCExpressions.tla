--------------------------- MODULE MCExpressions ---------------------------
(***************************************************************************)
(* Grows expressions over one schema and evaluates each on rows of it: a   *)
(* leaf, then any operator over leaves, then a representative operator of  *)
(* each family over what the type checker accepted.                        *)
(***************************************************************************)
EXTENDS Expressions, SmallDomain

CONSTANT MaxDepth

\* A test of an expression of MaxDepth levels has MaxDepth operators.
ASSUME MaxDepthAssumption == MaxDepth \in 1 .. MaxHeight

\* The rows below are rows of values.
ASSUME RowsAssumption == Int64(3) \in Values /\ Text(2) \in Values

VARIABLES expr, depth     \* None and 0 while there is no expression

Qualified(t, n, type) == [table |-> t, name |-> n, type |-> type]

\* Two joined tables that share the name of a column.
Schema == << Qualified("t", "a", TInt), Qualified("t", "b", TFloat), Qualified("t", "c", TBool),
             Qualified("t", "d", TText), Qualified("u", "a", TInt) >>

Leaves == {ColumnRef("t", "a"), ColumnRef("u", "a"), ColumnRef("", "b"), ColumnRef("", "c"),
           ColumnRef("", "d"), ColumnRef("", "a"), ColumnRef("u", "b"),
           Literal(NullOf(TInt)), SlotRef(3), SlotRef(6)}

\* Their names are strings, and their literal is a value.
ASSUME LeavesAssumption == Leaves \subseteq LeafExprs

\* Rows are one plain row and its corner cases.
Plain == <<Int64(3), Float64(1), Bool(TRUE), Text(2), Int64(1)>>

Ints == {Int64(-IntCutoff), Int64(IntCutoff - 1), NullOf(TInt)}

Corners == << Ints, {Float64(Inf), NaN, NegZero, NullOf(TFloat)},
              {Bool(FALSE), NullOf(TBool)}, {NullOf(TText)}, Ints >>

\* The positions of the columns in an expression.
Mentioned(e) ==
    LET mentioned[x \in Exprs] ==
            CASE x.kind = "column" -> {Index(Schema, x.table, x.name)} \ {Unresolved}
              [] x.kind = "slot" -> {x.index} \cap DOMAIN Schema
              [] x.kind = "binary" -> mentioned[x.left] \cup mentioned[x.right]
              [] x.kind \in {"unary", "isnull"} -> mentioned[x.arg]
              [] OTHER -> {}
    IN  mentioned[e]

\* Corner cases in up to two columns that the expression mentions.
Rows ==
    LET pairs == {p \in Mentioned(expr) \X Mentioned(expr) : p[1] <= p[2]}
    IN  {Plain} \cup UNION {{[Plain EXCEPT ![p[1]] = v, ![p[2]] = w] :
                                v \in Corners[p[1]] \cup {Plain[p[1]]}, w \in Corners[p[2]]} :
                            p \in pairs}

\* On one target, or on both kinds.
Envs(targets) == [schema : {Schema}, saturates : targets, row : Rows]

Type == IF depth = 0 THEN NoType ELSE InferExprType(expr, Schema)

NoExpr == expr = None /\ depth = 0

ExprInit == expr \in Leaves /\ depth = 1

\* The other operand: any leaf at first, then one of a fitting type.
Partners(op) ==
    CASE depth = 1 -> Leaves
      [] depth > 1 /\ op = "<" -> {ColumnRef("t", "a")}
      [] depth > 1 /\ op = "*" -> {ColumnRef("", "b")}
      [] depth > 1 /\ op = "AND" -> {ColumnRef("", "c")}
      [] OTHER -> {}

Grow ==
    /\ depth < MaxDepth
    /\ depth = 1 \/ Type # NoType
    /\ depth' = depth + 1
    /\ \/ \E op \in {"NOT", "-"} : expr' = UnaryExpr(op, expr)
       \/ \E negate \in BOOLEAN : expr' = IsNullTest(expr, negate)
       \/ \E op \in Comparisons \cup ArithmeticOps \cup Connectives : \E e \in Partners(op) :
             expr' \in {BinaryExpr(op, expr, e), BinaryExpr(op, e, expr)}

-----------------------------------------------------------------------------
(* An expression the type checker accepts evaluates on every row, without an
   error, to a value of the inferred type: NULLs too keep the type, and INT
   results never leave int64, whatever out-of-range conversions do. *)
InferredTypeIsRuntimeType ==
    Type # NoType =>
        \A env \in Envs(BOOLEAN) : LET v == Eval(expr, env)
                          IN  v \in Values /\ v.type = Type

\* Of the six comparisons of two values, and of < with the values swapped: >= is
\* NOT <, <= is < OR =, <> is NOT =, and > is < with the operands swapped.
OneOrder(on, swapped) ==
    /\ on["<>"] = Not(on["="])
    /\ on["<="] = Or(on["<"], on["="])
    /\ on[">"] = swapped
    /\ on[">="] = IF IsNull(on["="]) THEN on["="] ELSE Not(on["<"])

(* A condition is true, false or unknown: on every row exactly one of c, NOT c
   and c IS NULL selects it (design-notes.md:81-83 tells what this means for
   WHERE), and the six comparisons are one three-valued order, for mixed
   numbers, NULL and NaN alike. *)
ConditionsPartitionRows ==
    Type = TBool =>
        \A env \in Envs({TRUE}) : LET value(e) == Eval(e, env) IN
            /\ Cardinality({e \in {expr, UnaryExpr("NOT", expr), IsNullTest(expr, FALSE)} :
                               IsTrue(value(e))}) = 1
            /\ expr.kind = "binary" /\ expr.op \in Comparisons =>
                  OneOrder([op \in Comparisons |-> value([expr EXCEPT !.op = op])],
                           value(BinaryExpr("<", expr.right, expr.left)))

ExactResult(op, i, j) == CASE op = "+" -> i + j [] op = "-" -> i - j [] op = "*" -> i * j

Exactly(op, l, r, result) ==
    LET exact == ExactResult(op, l.x, r.x)
    IN  /\ ~IsNull(l) /\ ~IsNull(r) /\ ExactKey(l) /\ ExactKey(r)
        /\ exact \in IntRange /\ 2 * exact \in Floats
        => result = Int64(exact)

(* INT arithmetic, which goes through float64, is exact as long as operands
   and result are INTs that float64 holds. *)
IntArithmeticIsExact ==
    expr.kind = "binary" /\ expr.op \in {"+", "-", "*"} /\ Type = TInt =>
        \A env \in Envs({TRUE}) :
            Exactly(expr.op, Eval(expr.left, env), Eval(expr.right, env), Eval(expr, env))
=============================================================================
