----------------------------- MODULE Normalize -----------------------------
(***************************************************************************)
(* How the differential tests compare two results                          *)
(* (internal/difftest/normalize.go), and how a value goes to SQLite        *)
(* (driverValue, internal/difftest/oracle.go).                             *)
(*                                                                         *)
(* A driver value is [go, cls, x], go being its Go type.  A cell is        *)
(* [tag, cls, x].  The joined texts of the cells of a row are left as the  *)
(* row of the cells, and two sorted results that are equal as one result   *)
(* being an order of the other.                                            *)
(***************************************************************************)
EXTENDS Values

CONSTANT SigDigits      \* significant digits kept of a number, 6 in the code

-----------------------------------------------------------------------------
(* Driver values *)

Driver(go, v) == [go |-> go, cls |-> v.cls, x |-> v.x]

Nil == [go |-> "nil", cls |-> "null", x |-> 0]

DriverValue(v) ==
    CASE IsNull(v) -> Nil
      [] ~IsNull(v) /\ v.type = TInt -> Driver("int64", v)
      [] ~IsNull(v) /\ v.type = TFloat -> Driver("float64", v)
      [] ~IsNull(v) /\ v.type = TBool -> Driver("bool", v)
      [] ~IsNull(v) /\ v.type = TText -> Driver("string", v)

-----------------------------------------------------------------------------
(* Cells *)

NullCell == [tag |-> "null", cls |-> "null", x |-> 0]

Cell(tag, v) == [tag |-> tag, cls |-> v.cls, x |-> v.x]

Pow10[n \in Nat] == IF n = 0 THEN 1 ELSE 10 * Pow10[n - 1]

\* The digits before the point of a count of half units.
IntDigits(h) == CHOOSE d \in 1 .. 6 : h < 2 * Pow10[d] /\ (d > 1 => h >= 2 * Pow10[d - 1])

\* The multiple of q nearest to h, the even one of two.
Nearest(h, q) == LET down == h \div q
                     rest == h % q
                 IN  q * IF 2 * rest > q \/ (2 * rest = q /\ down % 2 = 1) THEN down + 1 ELSE down

\* %.6g on a natural number of half units; halves below 10^(SigDigits-1) stay.
Digits(h) == IF h < 2 * Pow10[SigDigits - 1] THEN h
             ELSE Nearest(h, 2 * Pow10[IntDigits(h) - SigDigits])

IsFinite(v) == v.cls = "num" /\ v.x \notin {Inf, -Inf}

\* num, on a float64: n:-0, n:NaN, n:+Inf and n:-Inf have no digits to cut.
Num(v) == IF IsFinite(v)
          THEN [tag |-> "n", cls |-> "num", x |-> IF v.x < 0 THEN -Digits(-v.x) ELSE Digits(v.x)]
          ELSE [tag |-> "n", cls |-> IF v.cls = "num" THEN "inf" ELSE v.cls, x |-> v.x]

\* One cell of normalizeEngineRow.
NormalizeEngine(v) ==
    CASE IsNull(v) -> NullCell
      [] ~IsNull(v) /\ v.type = TInt -> Num(Float64(ToFloat(v.x)))
      [] ~IsNull(v) /\ v.type = TFloat -> Num(v)
      [] ~IsNull(v) /\ v.type = TBool -> Cell("b", v)
      [] ~IsNull(v) /\ v.type = TText -> Cell("s", v)


\* One cell of normalizeOracleRow.
NormalizeOracle(d) ==
    CASE d.go = "nil" -> NullCell
      [] d.go = "int64" -> Num(Float64(ToFloat(d.x)))
      [] d.go = "float64" -> Num(d)
      [] d.go = "bool" -> Cell("b", d)
      [] d.go \in {"[]byte", "string"} -> Cell("s", d)
      [] OTHER -> Cell("?", d)
=============================================================================
