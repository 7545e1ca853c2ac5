---------------------------- MODULE Expressions ----------------------------
(***************************************************************************)
(* Evaluation of expressions (internal/exec/eval.go), resolution of names  *)
(* (internal/exec/schema.go) and the plan-time type checker               *)
(* (internal/plan/typecheck.go), which must predict what Eval returns.     *)
(*                                                                         *)
(* Expressions are the trees of module Syntax.  An environment is a schema, *)
(* a row of it, and saturates, the behaviour of the target's float-to-int  *)
(* conversion out of range.                                                *)
(***************************************************************************)
EXTENDS Values, Syntax

CONSTANT MaxHeight   \* bound on the operators between the root and a leaf

ASSUME MaxHeightAssumption == MaxHeight \in Nat

-----------------------------------------------------------------------------
(* The expressions.  A function of expressions is defined by recursion on     *)
(* them: its step gives the result for a node from those for its operands.    *)

\* Only the planner makes slots, the others are what the parser can make.
WrittenLeaves ==
    [kind : {"literal"}, val : Values]
    \cup [kind : {"column"}, table : STRING, name : STRING]
    \cup [kind : {"star", "none"}]

LeafExprs == WrittenLeaves \cup [kind : {"slot"}, index : Int]

NodesOver(exprs) ==
    [kind : {"isnull"}, arg : exprs, negate : BOOLEAN]
    \cup [kind : {"unary"}, op : {"NOT", "-"}, arg : exprs]
    \cup [kind : {"binary"}, op : Comparisons \cup ArithmeticOps \cup Connectives,
          left : exprs, right : exprs]
    \cup [kind : {"aggregate"}, id : Nat, name : STRING, star : BOOLEAN, arg : exprs]

\* The expressions over the leaves, of up to so many levels of operators.
Levels(leaves) ==
    LET level[height \in 0 .. MaxHeight] ==
            IF height = 0 THEN leaves ELSE leaves \cup NodesOver(level[height - 1])
    IN  level

Exprs   == Levels(LeafExprs)[MaxHeight]
Written == Levels(WrittenLeaves)[MaxHeight]

-----------------------------------------------------------------------------
\* A column is [table, name, type]; a name that stands for no one column is
\* Unresolved.
Unresolved == 0

\* Schema.Index: the only column of the name, and of the table if one is given.
Index(schema, table, name) ==
    LET found == {i \in DOMAIN schema :
                     /\ schema[i].name = name
                     /\ table = Unqualified \/ schema[i].table = table}
    IN  IF Cardinality(found) = 1 THEN CHOOSE i \in found : TRUE ELSE Unresolved

\* The error result of Eval.
NoValue == [type |-> "ERROR", cls |-> "error", x |-> 0]

-----------------------------------------------------------------------------
(* float64 arithmetic, with signed zeros and infinities. *)

IsInf(v)    == v.type = TFloat /\ v.x \in {Inf, -Inf}
IsZero(v)   == ~IsNaN(v) /\ v.x = 0
Negative(v) == v.cls = "neg0" \/ v.x < 0

Signed(h, negative) == IF h # 0 THEN Float64(h)
                       ELSE IF negative THEN NegZero ELSE Float64(0)

SignedInf(negative) == Float64(IF negative THEN -Inf ELSE Inf)

\* The double nearest to the quotient p / q of half units, ties to even.
RoundRatio(p, q) ==
    LET h == p \div q
        lo == CHOOSE f \in Floats : IsFloor(f, h)
        hi == CHOOSE f \in Floats : IsCeil(f, h + 1)
    IN  CASE p % q = 0 -> IF h > Inf THEN Inf ELSE IF h < -Inf THEN -Inf ELSE Round[h]
          [] p % q # 0 /\ h >= Inf -> Inf
          [] p % q # 0 /\ h < -Inf -> -Inf
          [] OTHER -> IF p - lo * q < hi * q - p
                         \/ (p - lo * q = hi * q - p /\ lo % (2 * (hi - lo)) = 0)
                      THEN lo ELSE hi

FloatNeg(v) == IF IsNaN(v) THEN NaN ELSE Signed(-v.x, ~Negative(v))

FloatSum(a, b) == IF IsZero(a) /\ IsZero(b) THEN Signed(0, Negative(a) /\ Negative(b))
                  ELSE FloatAdd(a, b)

FloatMul(a, b) ==
    LET negative == Negative(a) # Negative(b)
    IN  IF \/ IsNaN(a) \/ IsNaN(b)
           \/ IsInf(a) /\ IsZero(b)
           \/ IsInf(b) /\ IsZero(a)
        THEN NaN
        ELSE IF IsInf(a) \/ IsInf(b) THEN SignedInf(negative)
        ELSE Signed(RoundRatio(a.x * b.x, 2), negative)

\* The divisor is not zero.
FloatDiv(a, b) ==
    LET negative == Negative(a) # Negative(b)
    IN  IF IsNaN(a) \/ IsNaN(b) \/ (IsInf(a) /\ IsInf(b)) THEN NaN
        ELSE IF IsInf(a) THEN SignedInf(negative)
        ELSE IF IsInf(b) THEN Signed(0, negative)
        ELSE IF b.x > 0 THEN Signed(RoundRatio(2 * a.x, b.x), negative)
        ELSE Signed(RoundRatio(-2 * a.x, -b.x), negative)

\* int64(f).  Out of range the result is the target's: one saturates and takes
\* NaN to 0, another answers the least integer throughout.
ConvertInt(f, saturates) ==
    IF ~IsNaN(f) /\ -(2 * IntCutoff) <= f.x /\ f.x < 2 * IntCutoff
    THEN Int64(Truncate(f.x))
    ELSE IF ~saturates THEN Int64(-IntCutoff)
    ELSE Int64(IF IsNaN(f) THEN 0 ELSE IF f.x > 0 THEN IntCutoff - 1 ELSE -IntCutoff)

-----------------------------------------------------------------------------
(* Eval *)

\* Mutant: an INT goes through a narrower integer.
ToFNarrow(v) == IF v.type = TInt THEN Float64(ToFloat(v.x % (IntCutoff \div 4))) ELSE v

ToF(v) == IF v.type = TInt THEN Float64(ToFloat(v.x)) ELSE v

\* Mutant: a NULL result is a FLOAT, whatever the operands.
NullResultUntyped(ints) == NullOf(TFloat)

NullResult(ints) == NullOf(IF ints THEN TInt ELSE TFloat)

FloatArithmetic(op, a, b) ==
    CASE op = "+" -> FloatSum(a, b)
      [] op = "-" -> FloatSum(a, FloatNeg(b))
      [] op = "*" -> FloatMul(a, b)
      [] op = "/" -> FloatDiv(a, b)

\* INTs come back from float64.
NumberResult(f, ints, saturates) == IF ints THEN ConvertInt(f, saturates) ELSE f

Arithmetic(op, l, r, saturates) ==
    LET ints == op # "/" /\ l.type = TInt /\ r.type = TInt
    IN  IF IsNull(l) \/ IsNull(r) THEN NullResult(ints)
        ELSE IF op = "/" /\ IsZero(ToF(r)) THEN NullOf(TFloat)
        ELSE NumberResult(FloatArithmetic(op, ToF(l), ToF(r)), ints, saturates)

CompareResult(op, ord) ==
    CASE op = "="  -> ord = 0
      [] op = "<>" -> ord # 0
      [] op = "<"  -> ord < 0
      [] op = "<=" -> ord <= 0
      [] op = ">"  -> ord > 0
      [] op = ">=" -> ord >= 0

EvalBinary(op, l, r, saturates) ==
    CASE op = "AND" -> And(l, r)
      [] op = "OR"  -> Or(l, r)
      [] op \in Comparisons ->
           LET c == Compare(l, r)
           IN  IF c.known THEN Bool(CompareResult(op, c.ord)) ELSE NullOf(TBool)
      [] op \in ArithmeticOps -> Arithmetic(op, l, r, saturates)

\* -v.I wraps around at the least integer.
EvalUnary(op, v) ==
    CASE op = "NOT" -> Not(v)
      [] op = "-" /\ IsNull(v) -> v
      [] op = "-" /\ ~IsNull(v) /\ v.type = TInt -> Int64(IntAdd(0, -v.x))
      [] op = "-" /\ ~IsNull(v) /\ v.type # TInt -> FloatNeg(v)

EvalNode(e, value, env) ==
    CASE e.kind = "literal" -> e.val
      [] e.kind = "column" ->
           LET i == Index(env.schema, e.table, e.name)
           IN  IF i = Unresolved THEN NoValue ELSE env.row[i]
      [] e.kind = "slot" -> IF e.index \in DOMAIN env.row THEN env.row[e.index] ELSE NoValue
      [] e.kind = "isnull" ->
           LET v == value[e.arg]
           IN  IF v = NoValue THEN NoValue ELSE Bool(IsNull(v) # e.negate)
      [] e.kind = "unary" ->
           LET v == value[e.arg]
           IN  IF v = NoValue THEN NoValue ELSE EvalUnary(e.op, v)
      [] e.kind = "binary" ->
           LET l == value[e.left]
               r == value[e.right]
           IN  IF NoValue \in {l, r} THEN NoValue
               ELSE EvalBinary(e.op, l, r, env.saturates)
      [] OTHER -> NoValue

Evaluator(env) == LET value[e \in Exprs] == EvalNode(e, value, env) IN value

Eval(e, env) == Evaluator(env)[e]

-----------------------------------------------------------------------------
(* inferExprType *)

\* The error result.
NoType == "ERROR"

Types == {TInt, TFloat, TText, TBool}

NumericType(t) == t \in {TInt, TFloat}

ComparableTypes(l, r) == (NumericType(l) /\ NumericType(r)) \/ l = r

BinaryType(op, l, r) ==
    CASE op \in ArithmeticOps ->
           IF ~NumericType(l) \/ ~NumericType(r) THEN NoType
           ELSE IF op = "/" \/ TFloat \in {l, r} THEN TFloat ELSE TInt
      [] op \in Comparisons -> IF ComparableTypes(l, r) THEN TBool ELSE NoType
      [] op \in Connectives -> IF l = TBool /\ r = TBool THEN TBool ELSE NoType

UnaryType(op, t) ==
    CASE op = "-"   -> IF NumericType(t) THEN t ELSE NoType
      [] op = "NOT" -> IF t = TBool THEN TBool ELSE NoType

InferNode(e, type, schema) ==
    CASE e.kind = "literal" -> e.val.type
      [] e.kind = "column" ->
           LET i == Index(schema, e.table, e.name)
           IN  IF i = Unresolved THEN NoType ELSE schema[i].type
      [] e.kind = "slot" -> IF e.index \in DOMAIN schema THEN schema[e.index].type ELSE NoType
      [] e.kind = "isnull" -> IF type[e.arg] = NoType THEN NoType ELSE TBool
      [] e.kind = "unary" -> IF type[e.arg] = NoType THEN NoType ELSE UnaryType(e.op, type[e.arg])
      [] e.kind = "binary" -> IF NoType \in {type[e.left], type[e.right]} THEN NoType
                              ELSE BinaryType(e.op, type[e.left], type[e.right])
      [] OTHER -> NoType

Typing(schema) == LET type[e \in Exprs] == InferNode(e, type, schema) IN type

InferExprType(e, schema) == Typing(schema)[e]
=============================================================================
