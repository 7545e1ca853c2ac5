------------------------------- MODULE Syntax -------------------------------
(***************************************************************************)
(* Expression trees (internal/ast/ast.go), which the parser builds, the    *)
(* planner checks and the operators evaluate.  Each call of an aggregate   *)
(* has an identity of its own, as its node's address is in the code.       *)
(***************************************************************************)

Literal(v)             == [kind |-> "literal", val |-> v]
ColumnRef(t, n)        == [kind |-> "column", table |-> t, name |-> n]
SlotRef(i)             == [kind |-> "slot", index |-> i]
IsNullTest(e, negate)  == [kind |-> "isnull", arg |-> e, negate |-> negate]
UnaryExpr(op, e)       == [kind |-> "unary", op |-> op, arg |-> e]
BinaryExpr(op, l, r)   == [kind |-> "binary", op |-> op, left |-> l, right |-> r]
AggregateCall(id, n, star, e) ==
    [kind |-> "aggregate", id |-> id, name |-> n, star |-> star, arg |-> e]

\* An absent expression or clause.
None == [kind |-> "none"]

\* The table of a column named without one.
Unqualified == ""

Comparisons == {"=", "<>", "<", "<=", ">", ">="}
ArithmeticOps == {"+", "-", "*", "/"}
Connectives == {"AND", "OR"}
=============================================================================
