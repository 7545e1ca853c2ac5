------------------------------ MODULE MCValues ------------------------------
(***************************************************************************)
(* Checks the comparison, the logic, the two key encodings of Values and   *)
(* the cells of the differential tests on every pair of rows of a small    *)
(* domain: two rows grow in lock step, first by any value each, then by a  *)
(* corner case, and start over when they are full.  Integers stop being    *)
(* exact as doubles well inside int64's range, as they do in Go.           *)
(***************************************************************************)
EXTENDS Normalize, SmallDomain

\* The corner cases, for pairs of two-column rows.
CornerValues == Values \cap
    ({Text(i) : i \in 1 .. 5}
     \cup {Bool(TRUE), NullOf(TBool), NullOf(TText), NullOf(TInt)}
     \cup {Int64(0), Int64(10), NegZero, Float64(20), Float64(1), NaN})

VARIABLES left, right

PairInit == left = <<>> /\ right = <<>>

Widen(domain) == \E v, w \in domain : left' = Append(left, v) /\ right' = Append(right, w)

PairNext ==
    \/ left = <<>> /\ Widen(Values)
    \/ Len(left) = 1 /\ left[1] \in CornerValues /\ right[1] \in CornerValues /\ Widen(CornerValues)
    \/ Len(left) = 2 /\ left' = <<>> /\ right' = <<>>

-----------------------------------------------------------------------------
(* value.Compare orders an INT against a FLOAT by their exact values, on both
   sides of 2^53 and at int64's ends, and knows no order only for NULL, NaN. *)
CompareIsExact ==
    \A n \in DOMAIN left : LET a == left[n]  b == right[n] IN
        Comparable(a, b) =>
            /\ Compare(a, b).known <=> Ordinary(a) /\ Ordinary(b)
            /\ Compare(a, b).known => Compare(a, b).ord = Sign(Exact(a), Exact(b))

(* exec.groupKey is canonical and free of collisions: two rows have one key
   exactly when they agree column by column, whatever bytes TEXTs hold. *)
GroupKeyIdentifiesRows ==
    GroupKey(left) = GroupKey(right)
        <=> \A n \in DOMAIN left : SameGroup(left[n], right[n])

(* exec.encodeKey loses no match: values that compare equal have one key.  On
   INTs that float64 represents it invents none either. *)
JoinKeyAgreesWithCompare ==
    \A n \in DOMAIN left : LET a == left[n]  b == right[n] IN
        Comparable(a, b) =>
            /\ Equal(a, b) => SameKey(a, b)
            /\ ExactKey(a) /\ ExactKey(b) /\ SameKey(a, b) => Equal(a, b)

\* The values an operand may turn out to be, and what all the ways agree on.
Fillings(v)   == IF IsNull(v) THEN BoolValues ELSE {v}
Verdict(ways) == IF Cardinality(ways) = 1 THEN CHOOSE way \in ways : TRUE ELSE NullOf(TBool)

Conj(v, w) == Bool(IsTrue(v) /\ IsTrue(w))
Disj(v, w) == Bool(IsTrue(v) \/ IsTrue(w))
Neg(v)     == Bool(IsFalse(v))

LogicAgrees(a, b) ==
    /\ And(a, b) = Verdict({Conj(v, w) : v \in Fillings(a), w \in Fillings(b)})
    /\ Or(a, b) = Verdict({Disj(v, w) : v \in Fillings(a), w \in Fillings(b)})
    /\ Not(a) = Verdict({Neg(v) : v \in Fillings(a)})

(* value.And, Or and Not answer exactly what every way of filling in the
   unknown operands agrees on, and are unknown when the ways differ. *)
LogicIsThreeValued ==
    \A n \in DOMAIN left : left[n].type = TBool /\ right[n].type = TBool => LogicAgrees(left[n], right[n])

\* What SQLite may return for a value, which has TEXT as one or the other type.
Drivers(v) == {DriverValue(v)}
              \cup IF ~IsNull(v) /\ v.type = TText THEN {Driver("[]byte", v)} ELSE {}

Magnitude(n) == IF n < 0 THEN -n ELSE n

\* The numbers of at most SigDigits digits, in tenths, as far as the instance goes.
Decimals == {sign * m * 10 ^ k : sign \in {-1, 1}, m \in 0 .. 10 ^ SigDigits - 1, k \in 0 .. 3}

\* Those that no other is nearer to a FLOAT than; two where it lies between them.
Closest == [h \in Floats |->
    {d \in Decimals : \A e \in Decimals : Magnitude(5 * h - d) <= Magnitude(5 * h - e)}]

ClosestTo(v) == Closest[IF v.type = TInt THEN ToFloat(v.x) ELSE v.x]

IsNumber(v) == IsNumeric(v) /\ IsFinite(v)

\* No two numbers have one cell that do not round to one decimal, and no two
\* have two that can only round to one.
RoundAlike(a, d, ofA, ofD) ==
    /\ NormalizeEngine(a) = NormalizeOracle(d) => ofA \cap ofD # {}
    /\ ofA = ofD /\ Cardinality(ofA) = 1 => NormalizeEngine(a) = NormalizeOracle(d)

\* NULLs are one whatever their type; the others are what they are: NaN, -0,
\* an infinity, a truth value, a text.
Same(a, b) == \/ IsNull(a) /\ IsNull(b)
              \/ a = b

NumbersRoundAlike ==
    \A n \in DOMAIN left : \A d \in Drivers(right[n]) :
        IsNumber(left[n]) /\ IsNumber(right[n])
            => RoundAlike(left[n], d, ClosestTo(left[n]), ClosestTo(right[n]))

OthersMatch ==
    \A n \in DOMAIN left : \A d \in Drivers(right[n]) :
        ~(IsNumber(left[n]) /\ IsNumber(right[n]))
            => (NormalizeEngine(left[n]) = NormalizeOracle(d) <=> Same(left[n], right[n]))

=============================================================================
