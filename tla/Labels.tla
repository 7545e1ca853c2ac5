------------------------------- MODULE Labels -------------------------------
(***************************************************************************)
(* Rendering of expressions as column labels (internal/ast/string.go), in  *)
(* the words, blanks and parentheses of their text.                        *)
(***************************************************************************)
EXTENDS Values, Syntax

CONSTANTS
    Spelling,   \* what a TEXT holds, by its place in Texts
    Eprec       \* where strconv takes to exponents, 6 in the library

ASSUME EprecAssumption == Eprec \in Nat \ {0}

-----------------------------------------------------------------------------
(* value.Value.String, on the values a literal can have: no FLOAT is below 0,
   -0 or NaN. *)

\* The digits up to the last that is not 0, the first always.
Shortest(digits) ==
    SubSeq(digits, 1, CHOOSE n \in 1 .. Len(digits) :
                         /\ n = 1 \/ SubSeq(digits, n, n) # "0"
                         /\ \A m \in n + 1 .. Len(digits) : SubSeq(digits, m, m) = "0")

\* d.dde+dd, from the digits of a number of tenths
Scientific(digits) ==
    LET kept == Shortest(digits)
        exp  == Len(digits) - 2
    IN  SubSeq(kept, 1, 1) \o (IF Len(kept) > 1 THEN "." \o SubSeq(kept, 2, Len(kept)) ELSE "")
        \o (IF exp < 10 THEN "e+0" ELSE "e+") \o ToString(exp)

\* Numbers below 0.0001 have an exponent too; no half unit lies there.
HasExponent(h) == h >= 2 * 10 ^ Eprec

\* strconv.FormatFloat(f, 'g', -1, 64), on half units
FormatFloat(h) ==
    CASE h = Inf -> "+Inf"
      [] h # Inf /\ HasExponent(h) -> Scientific(ToString(5 * h))
      [] OTHER -> ToString(h \div 2) \o (IF h % 2 = 1 THEN ".5" ELSE "")

ValueString(v) ==
    CASE IsNull(v) -> "NULL"
      [] ~IsNull(v) /\ v.type = TInt -> ToString(v.x)
      [] ~IsNull(v) /\ v.type = TFloat -> FormatFloat(v.x)
      [] ~IsNull(v) /\ v.type = TText -> Spelling[v.x]
      [] ~IsNull(v) /\ v.type = TBool -> IF IsTrue(v) THEN "true" ELSE "false"

-----------------------------------------------------------------------------
(* ast.String *)

\* Mutant: only binary operands are parenthesized.
NestedBinary(e) == e.kind = "binary"

\* operand: which sub-expressions are parenthesized.
Nested(e) == e.kind \in {"binary", "unary"}

RECURSIVE String(_)
String(e) ==
    LET Operand(x) == IF Nested(x) THEN "(" \o String(x) \o ")" ELSE String(x)
    IN  CASE e.kind = "column" -> IF e.table = Unqualified THEN e.name ELSE e.table \o "." \o e.name
          [] e.kind = "literal" ->
               IF ~IsNull(e.val) /\ e.val.type = TText THEN "'" \o ValueString(e.val) \o "'"
               ELSE ValueString(e.val)
          [] e.kind = "unary" -> (IF e.op = "NOT" THEN "NOT " ELSE e.op) \o Operand(e.arg)
          [] e.kind = "isnull" -> Operand(e.arg) \o (IF e.negate THEN " IS NOT NULL" ELSE " IS NULL")
          [] e.kind = "binary" -> Operand(e.left) \o " " \o e.op \o " " \o Operand(e.right)
          [] e.kind = "aggregate" -> e.name \o "(" \o (IF e.star THEN "*" ELSE String(e.arg)) \o ")"
          [] OTHER -> "expr"
=============================================================================
