------------------------------- MODULE Values -------------------------------
(***************************************************************************)
(* The value domain of the engine and the three encodings of equality that *)
(* must agree on it: value.Compare (internal/value/logic.go), the hash     *)
(* join's encodeKey (internal/exec/key.go) and the aggregate's groupKey    *)
(* (internal/exec/groupkey.go).                                            *)
(*                                                                         *)
(* int64 and float64 are kept at reduced size.  Every number is an integer *)
(* count: an INT counts units, a FLOAT counts half units, so that 3 is     *)
(* stored as 3 and 1.5 as 3 as well.  What the code depends on is kept:    *)
(*   - int64 is the range -IntCutoff .. IntCutoff-1 (IntCutoff is 2^63);   *)
(*   - only the half units in Floats are doubles, the others are rounded,  *)
(*     half to even, so large INTs collide as they do beyond 2^53;         *)
(*   - the doubles reach beyond int64, their ends standing for +-Inf;      *)
(*   - NaN, -0 and typed NULLs are values.                                 *)
(***************************************************************************)
EXTENDS Integers, Sequences, SequencesExt

CONSTANTS
    IntCutoff,   \* 2^63: the first integer past int64
    FloatExact,  \* half units up to this magnitude are all doubles
    Floats,      \* the half-unit counts that a float64 can hold
    Texts        \* the strings in use, in string order, each a sequence of bytes

ASSUME IntCutoffAssumption ==
    /\ IntCutoff \in Nat \ {0}
    /\ FloatExact \in Nat \ {0}
    /\ 2 * FloatExact <= 2 * IntCutoff

\* The shape of the double lattice: dense and symmetric around zero, even
\* (integral) elsewhere, and holding the cutoffs the code compares with.
ASSUME FloatsAssumption ==
    /\ Floats \subseteq Int
    /\ -FloatExact .. FloatExact \subseteq Floats
    /\ \A f \in Floats : -f \in Floats
    /\ \A f \in Floats : f % 2 = 0 \/ f \in -FloatExact .. FloatExact
    /\ 2 * IntCutoff \in Floats
    /\ \E f \in Floats : f > 2 * IntCutoff /\ \A g \in Floats : g <= f

ASSUME TextsAssumption ==
    /\ Texts \in Seq(Seq(Nat))
    /\ \A m, n \in DOMAIN Texts : Texts[m] = Texts[n] => m = n

-----------------------------------------------------------------------------
(* Values.  cls tells apart NULL, NaN, -0 and the ordinary ("num") values. *)

TInt   == "INT"
TFloat == "FLOAT"
TText  == "TEXT"
TBool  == "BOOL"

NullOf(t)  == [type |-> t, cls |-> "null", x |-> 0]
Int64(i)   == [type |-> TInt, cls |-> "num", x |-> i]
Float64(h) == [type |-> TFloat, cls |-> "num", x |-> h]
Text(i)    == [type |-> TText, cls |-> "num", x |-> i]
Bool(b)    == [type |-> TBool, cls |-> "num", x |-> IF b THEN 1 ELSE 0]
NaN        == [type |-> TFloat, cls |-> "nan", x |-> 0]
NegZero    == [type |-> TFloat, cls |-> "neg0", x |-> 0]

IntRange == -IntCutoff .. IntCutoff - 1

IntValues   == {Int64(i) : i \in IntRange}
FloatValues == {Float64(h) : h \in Floats} \cup {NaN, NegZero}
TextValues  == {Text(i) : i \in DOMAIN Texts}
BoolValues  == {Bool(b) : b \in BOOLEAN}
NullValues  == {NullOf(t) : t \in {TInt, TFloat, TText, TBool}}
Values      == IntValues \cup FloatValues \cup TextValues \cup BoolValues \cup NullValues

IsNull(v)    == v.cls = "null"
IsNaN(v)     == v.cls = "nan"
IsNumeric(v) == v.type \in {TInt, TFloat}

(* Type compatibility is guaranteed by the planner: Compare is only defined
   here on operands that plan.comparableTypes accepts. *)
Comparable(a, b) == a.type = b.type \/ (IsNumeric(a) /\ IsNumeric(b))

-----------------------------------------------------------------------------
(* float64(i) for an integer number of half units, and int64(f). *)

IsFloor(f, h) == f \in Floats /\ f <= h /\ \A g \in Floats : g <= h => g <= f
IsCeil(f, h)  == f \in Floats /\ h <= f /\ \A g \in Floats : h <= g => f <= g

\* Round to the nearest double, ties to the one with the even mantissa.
Round == [h \in Int |->
    IF h \in Floats THEN h
    ELSE LET lo == CHOOSE f \in Floats : IsFloor(f, h)
             hi == CHOOSE f \in Floats : IsCeil(f, h)
         IN  IF h - lo < hi - h \/ (h - lo = hi - h /\ lo % (2 * (hi - lo)) = 0)
             THEN lo ELSE hi]

ToFloat(i) == Round[2 * i]

\* The largest element of the lattice stands for +Inf.
Inf == CHOOSE f \in Floats : \A g \in Floats : g <= f

\* IEEE addition of FLOATs; sums here start from +0, so none of them is -0.
FloatAdd(a, b) ==
    IF IsNaN(a) \/ IsNaN(b) \/ {a.x, b.x} = {Inf, -Inf} THEN NaN
    ELSE IF Inf \in {a.x, b.x} \/ a.x + b.x > Inf THEN Float64(Inf)
    ELSE IF -Inf \in {a.x, b.x} \/ a.x + b.x < -Inf THEN Float64(-Inf)
    ELSE Float64(Round[a.x + b.x])

\* int64 addition wraps around.
IntAdd(i, j) == ((i + j + IntCutoff) % (2 * IntCutoff)) - IntCutoff

\* Go's int64(f) for f inside int64's range: truncation towards zero.
Truncate(h) == IF h >= 0 THEN h \div 2 ELSE -((-h) \div 2)

-----------------------------------------------------------------------------
(* value.Compare: [known, ord] stands for the pair (ord, known). *)

Sign(a, b) == IF a < b THEN -1 ELSE IF a > b THEN 1 ELSE 0

\* Mutant: compare as floats, losing integers beyond 2^53.
CmpIntFloatRounded(i, f) == Sign(ToFloat(i), f)

CmpIntFloat(i, f) ==
    CASE f >= 2 * IntCutoff  -> -1
      [] f < -(2 * IntCutoff) -> 1
      [] OTHER ->
           LET t == Truncate(f)
           IN  IF i # t THEN Sign(i, t)
               ELSE IF f = ToFloat(t) THEN 0
               ELSE IF f > 0 THEN -1 ELSE 1

Unknown    == [known |-> FALSE, ord |-> 0]
Known(ord) == [known |-> TRUE, ord |-> ord]

Compare(a, b) ==
    IF IsNull(a) \/ IsNull(b) \/ IsNaN(a) \/ IsNaN(b) THEN Unknown
    ELSE Known(CASE a.type = TInt /\ b.type = TFloat -> CmpIntFloat(a.x, b.x)
                 [] a.type = TFloat /\ b.type = TInt -> -CmpIntFloat(b.x, a.x)
                 [] OTHER -> Sign(a.x, b.x))

Equal(a, b) == Compare(a, b) = Known(0)

-----------------------------------------------------------------------------
(* Three-valued logic over BOOL values, NULL being unknown. *)

IsTrue(v)  == ~IsNull(v) /\ v.type = TBool /\ v.x = 1
IsFalse(v) == ~IsNull(v) /\ v.type = TBool /\ v.x = 0

\* Mutant: unknown wins over false.
AndNullFirst(a, b) == IF IsNull(a) \/ IsNull(b) THEN NullOf(TBool)
                      ELSE Bool(IsTrue(a) /\ IsTrue(b))

And(a, b) == IF IsFalse(a) \/ IsFalse(b) THEN Bool(FALSE)
             ELSE IF IsNull(a) \/ IsNull(b) THEN NullOf(TBool) ELSE Bool(TRUE)

Or(a, b) == IF IsTrue(a) \/ IsTrue(b) THEN Bool(TRUE)
            ELSE IF IsNull(a) \/ IsNull(b) THEN NullOf(TBool) ELSE Bool(FALSE)

\* Mutant: NOT unknown is true.
NotWithoutNull(a) == Bool(a.x # 1)

Not(a) == IF IsNull(a) THEN NullOf(TBool) ELSE Bool(a.x # 1)

-----------------------------------------------------------------------------
(* exec.encodeKey.  The string "n:" plus the shortest decimal of a float is
   one-to-one on floats once -0 is normalised, so the record of the prefix and
   the number stands for the string; NoKey is the false result. *)

NoKey == [domain |-> "none", x |-> 0]

\* Mutant: FLOAT keys live in a domain of their own.
EncodeKeyByType(v) ==
    IF IsNull(v) \/ IsNaN(v) THEN NoKey
    ELSE [domain |-> v.type, x |-> v.x]

EncodeKey(v) ==
    IF IsNull(v) \/ IsNaN(v) THEN NoKey
    ELSE CASE v.type = TInt   -> [domain |-> "n", x |-> ToFloat(v.x)]
           [] v.type = TFloat -> [domain |-> "n", x |-> v.x]
           [] v.type = TBool  -> [domain |-> "b", x |-> v.x]
           [] OTHER           -> [domain |-> "s", x |-> v.x]

-----------------------------------------------------------------------------
(* exec.groupKey: the bytes appended for each value of a grouping tuple, with
   every 8-byte word as one cell.  Tags are the letters' codes. *)

TypeCode(t) == CASE t = TInt -> 0 [] t = TFloat -> 1 [] t = TText -> 2 [] t = TBool -> 3

TagN == 110
TagI == 105
TagF == 102
TagS == 115
TagB == 98

\* math.Float64bits is one-to-one; the quiet NaN's pattern is no number's (an
\* odd count beyond FloatExact is in no lattice of doubles).
Float64bits(h) == h
NaNBits        == 2 * IntCutoff + 1

CanonicalNumber(v) ==
    IF v.type = TInt THEN <<TagI, v.x>>
    ELSE IF IsNaN(v) THEN <<TagF, NaNBits>>
    ELSE IF v.x = 0 THEN <<TagI, 0>>
    ELSE IF /\ -(2 * IntCutoff) <= v.x /\ v.x < 2 * IntCutoff
            /\ ToFloat(Truncate(v.x)) = v.x
         THEN <<TagI, Truncate(v.x)>>
         ELSE <<TagF, Float64bits(v.x)>>

\* Mutant: TEXT without its length.
GroupCellsNoLength(v) ==
    IF IsNull(v) THEN <<TagN, TypeCode(v.type)>>
    ELSE CASE IsNumeric(v)   -> CanonicalNumber(v)
           [] v.type = TText -> <<TagS>> \o Texts[v.x]
           [] v.type = TBool -> <<TagB, v.x>>

GroupCells(v) ==
    IF IsNull(v) THEN <<TagN, TypeCode(v.type)>>
    ELSE CASE IsNumeric(v)   -> CanonicalNumber(v)
           [] v.type = TText -> <<TagS, Len(Texts[v.x])>> \o Texts[v.x]
           [] v.type = TBool -> <<TagB, v.x>>

GroupKey(values) == FlattenSeq([n \in DOMAIN values |-> GroupCells(values[n])])

-----------------------------------------------------------------------------
(* What the encodings are for, stated without them. *)

\* A value's place in the common order of its kind: numbers in half units.
Exact(v) == IF v.type = TInt THEN 2 * v.x ELSE v.x

Ordinary(v) == ~IsNull(v) /\ ~IsNaN(v)

\* NULLs of one type, NaNs, or values that compare equal, group together.
SameGroup(a, b) == \/ IsNull(a) /\ IsNull(b) /\ a.type = b.type
                   \/ IsNaN(a) /\ IsNaN(b)
                   \/ Comparable(a, b) /\ Equal(a, b)

\* An INT that float64 represents; every other value is its own key.
ExactKey(v) == v.type = TInt /\ ~IsNull(v) => 2 * v.x \in Floats

SameKey(a, b) == EncodeKey(a) # NoKey /\ EncodeKey(a) = EncodeKey(b)
=============================================================================
