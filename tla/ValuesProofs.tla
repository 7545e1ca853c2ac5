---------------------------- MODULE ValuesProofs ----------------------------
(***************************************************************************)
(* What the comparison and the join key compute, for every lattice of      *)
(* doubles that satisfies FloatsAssumption.                                *)
(***************************************************************************)
EXTENDS Values, SequenceTheorems, WellFoundedInduction, TLAPS

(* A set of naturals that is not empty has a least element.  Applied to the
   numbers without a property, this is induction. *)
LEMMA Smallest ==
    ASSUME NEW S, S \subseteq Nat, S # {}
    PROVE  \E x \in S : \A y \in S : x <= y
<1>1. PICK x \in S : \A y \in S : <<y, x>> \notin OpToRel(<, Nat)
  BY NatLessThanWellFounded, WFMin
<1>2. \A y \in S : ~(y < x)
  BY <1>1 DEF OpToRel
<1> QED
  BY <1>2

(* Facts about sequences that the steps of the operators need. *)
LEMMA SeqWiden ==
    ASSUME NEW S, NEW T, S \subseteq T, NEW s \in Seq(S)
    PROVE  s \in Seq(T)
OBVIOUS

LEMMA SeqElements ==
    ASSUME NEW S, NEW s \in Seq(S)
    PROVE  /\ Len(s) \in Nat /\ DOMAIN s = 1 .. Len(s)
           /\ \A n \in 1 .. Len(s) : s[n] \in S
OBVIOUS

LEMMA AppendFacts ==
    ASSUME NEW T, NEW s \in Seq(T), NEW e \in T
    PROVE  /\ Append(s, e) \in Seq(T)
           /\ Len(s) \in Nat /\ DOMAIN s = 1 .. Len(s)
           /\ Len(Append(s, e)) = Len(s) + 1
           /\ DOMAIN Append(s, e) = 1 .. Len(s) + 1
           /\ \A n \in 1 .. Len(s) : Append(s, e)[n] = s[n] /\ s[n] \in T
           /\ Append(s, e)[Len(s) + 1] = e
OBVIOUS

LEMMA SeqIsFunction ==
    ASSUME NEW T, NEW s \in Seq(T)
    PROVE  s \in [1 .. Len(s) -> T]
OBVIOUS

LEMMA FunctionIsSeq ==
    ASSUME NEW T, NEW n \in Nat, NEW f \in [1 .. n -> T]
    PROVE  f \in Seq(T) /\ Len(f) = n
OBVIOUS

LEMMA ElementsOf ==
    ASSUME NEW T, NEW s \in Seq(T)
    PROVE  /\ ToSet(s) \subseteq T
           /\ s \in Seq(ToSet(s))
           /\ \A x : x \in ToSet(s) <=> \E n \in 1 .. Len(s) : x = s[n]
<1>1. Len(s) \in Nat /\ DOMAIN s = 1 .. Len(s) /\ \A n \in 1 .. Len(s) : s[n] \in T
  BY SeqElements
<1>2. s \in [1 .. Len(s) -> T]
  BY SeqIsFunction
<1>3. s \in [1 .. Len(s) -> ToSet(s)]
  BY <1>1, <1>2 DEF ToSet
<1> QED
  BY <1>1, <1>3, FunctionIsSeq DEF ToSet

-----------------------------------------------------------------------------
(* A double is its own rounding. *)
LEMMA RoundFloat ==
    ASSUME NEW f \in Floats
    PROVE  Round[f] = f
BY FloatsAssumption DEF Round

(* Truncation towards zero drops at most the half unit of an odd count. *)
LEMMA TruncateBounds ==
    ASSUME NEW f \in Int
    PROVE  /\ Truncate(f) \in Int
           /\ f >= 0 => 2 * Truncate(f) \in {f - 1, f}
           /\ f < 0 => 2 * Truncate(f) \in {f, f + 1}
           /\ f % 2 = 0 <=> 2 * Truncate(f) = f
BY DEF Truncate

(* float64(int64(f)) = f, the test of cmpIntFloat and canonicalNumber, holds
   exactly when f is an integer. *)
LEMMA RoundTruncated ==
    ASSUME NEW f \in Floats
    PROVE  ToFloat(Truncate(f)) = f <=> f % 2 = 0
<1> DEFINE t == Truncate(f)
<1>1. f \in Int
  BY FloatsAssumption
<1>2. CASE f % 2 = 0
  <2>1. 2 * t = f
    BY <1>1, <1>2, TruncateBounds
  <2> QED
    BY <1>2, <2>1, RoundFloat DEF ToFloat
<1>3. CASE f % 2 # 0
  <2>1. f \in -FloatExact .. FloatExact
    BY <1>3, FloatsAssumption
  <2>2. 2 * t \in -FloatExact .. FloatExact /\ 2 * t # f
    BY <1>1, <1>3, <2>1, TruncateBounds, IntCutoffAssumption
  <2>3. 2 * t \in Floats
    BY <2>2, FloatsAssumption
  <2>4. ToFloat(t) = 2 * t
    BY <2>3, RoundFloat DEF ToFloat
  <2> QED
    BY <1>3, <2>2, <2>4
<1> QED
  BY <1>1, <1>2, <1>3

(* value.cmpIntFloat compares an int64 with a float64 exactly: no precision is
   lost near 2^53 and nothing overflows at the ends of int64. *)
THEOREM CmpIntFloatExact ==
    ASSUME NEW i \in IntRange, NEW f \in Floats
    PROVE  CmpIntFloat(i, f) = Sign(2 * i, f)
<1> DEFINE t == Truncate(f)
<1>1. /\ f \in Int /\ t \in Int /\ i \in Int /\ IntCutoff \in Int
      /\ 2 * i >= -(2 * IntCutoff) /\ 2 * i < 2 * IntCutoff
  BY FloatsAssumption, TruncateBounds, IntCutoffAssumption DEF IntRange
<1>2. CASE f >= 2 * IntCutoff
  BY <1>1, <1>2 DEF CmpIntFloat, Sign
<1>3. CASE f < -(2 * IntCutoff)
  BY <1>1, <1>3, IntCutoffAssumption DEF CmpIntFloat, Sign
<1>4. CASE ~(f >= 2 * IntCutoff) /\ ~(f < -(2 * IntCutoff))
  <2>1. CmpIntFloat(i, f) = IF i # t THEN Sign(i, t)
                            ELSE IF f % 2 = 0 THEN 0
                            ELSE IF f > 0 THEN -1 ELSE 1
    BY <1>4, RoundTruncated DEF CmpIntFloat
  <2>2. /\ f >= 0 => 2 * t \in {f - 1, f}
        /\ f < 0 => 2 * t \in {f, f + 1}
        /\ f % 2 = 0 <=> 2 * t = f
    BY <1>1, TruncateBounds
  <2>3. CASE i # t
    BY <1>1, <2>1, <2>2, <2>3 DEF Sign
  <2>4. CASE i = t
    BY <1>1, <2>1, <2>2, <2>4 DEF Sign
  <2> QED
    BY <2>3, <2>4
<1> QED
  BY <1>2, <1>3, <1>4

-----------------------------------------------------------------------------
(* The kinds of values that are neither NULL nor NaN. *)
LEMMA OrdinaryShape ==
    ASSUME NEW v \in Values, Ordinary(v)
    PROVE  /\ \/ v.type = TInt /\ v.cls = "num" /\ v.x \in IntRange
              \/ v.type = TFloat /\ v.cls \in {"num", "neg0"} /\ v.x \in Floats
              \/ v.type = TText /\ v.cls = "num" /\ v.x \in DOMAIN Texts
              \/ v.type = TBool /\ v.cls = "num" /\ v.x \in {0, 1}
           /\ v.x \in Int /\ Exact(v) \in Int
<1>1. /\ 0 \in Floats /\ Floats \subseteq Int /\ IntRange \subseteq Int
      /\ DOMAIN Texts \subseteq Int
  <2>1. 0 \in Floats /\ Floats \subseteq Int /\ IntRange \subseteq Int
    BY FloatsAssumption, IntCutoffAssumption DEF IntRange
  <2>2. DOMAIN Texts = 1 .. Len(Texts)
    BY TextsAssumption
  <2> QED
    BY <2>1, <2>2
<1>1a. SUFFICES /\ \/ v.type = TInt /\ v.cls = "num" /\ v.x \in IntRange
                   \/ v.type = TFloat /\ v.cls \in {"num", "neg0"} /\ v.x \in Floats
                   \/ v.type = TText /\ v.cls = "num" /\ v.x \in DOMAIN Texts
                   \/ v.type = TBool /\ v.cls = "num" /\ v.x \in {0, 1}
                /\ v.x \in Int
  BY DEF Exact
<1>2. CASE v \in IntValues
  BY <1>1, <1>2 DEF IntValues, Int64
<1>3. CASE v \in FloatValues
  BY <1>1, <1>3 DEF FloatValues, Float64, NaN, NegZero, Ordinary, IsNaN
<1>4. CASE v \in TextValues
  BY <1>1, <1>4 DEF TextValues, Text
<1>5. CASE v \in BoolValues
  BY <1>5 DEF BoolValues, Bool
<1>6. CASE v \in NullValues
  BY <1>6 DEF NullValues, NullOf, Ordinary, IsNull
<1> QED
  BY <1>2, <1>3, <1>4, <1>5, <1>6 DEF Values

(* value.Compare orders any two comparable values by their exact places, an
   INT against a FLOAT included. *)
THEOREM CompareExact ==
    ASSUME NEW a \in Values, NEW b \in Values, Comparable(a, b),
           Ordinary(a), Ordinary(b)
    PROVE  Compare(a, b) = Known(Sign(Exact(a), Exact(b)))
<1>0. TInt # TFloat /\ TInt # TText /\ TInt # TBool /\ TFloat # TText
      /\ TFloat # TBool /\ TText # TBool
  BY DEF TInt, TFloat, TText, TBool
<1>1. CASE a.type = TInt /\ b.type = TFloat
  <2>1. a.x \in IntRange /\ b.x \in Floats
    BY <1>0, <1>1, OrdinaryShape
  <2>2. CmpIntFloat(a.x, b.x) = Sign(Exact(a), Exact(b))
    BY <1>0, <1>1, <2>1, CmpIntFloatExact DEF Exact
  <2> QED
    BY <1>0, <1>1, <2>2 DEF Compare, Ordinary
<1>2. CASE a.type = TFloat /\ b.type = TInt
  <2>1. b.x \in IntRange /\ a.x \in Floats
    BY <1>0, <1>2, OrdinaryShape
  <2>2. CmpIntFloat(b.x, a.x) = Sign(Exact(b), Exact(a))
    BY <1>0, <1>2, <2>1, CmpIntFloatExact DEF Exact
  <2>3. Exact(a) \in Int /\ Exact(b) \in Int
    BY OrdinaryShape
  <2>4. -Sign(Exact(b), Exact(a)) = Sign(Exact(a), Exact(b))
    BY <2>3 DEF Sign
  <2> QED
    BY <1>0, <1>2, <2>2, <2>4 DEF Compare, Ordinary
<1>3. CASE ~(a.type = TInt /\ b.type = TFloat) /\ ~(a.type = TFloat /\ b.type = TInt)
  <2>1. a.type = b.type
    BY <1>0, <1>3 DEF Comparable, IsNumeric
  <2>2. Compare(a, b) = Known(Sign(a.x, b.x))
    BY <1>3 DEF Compare, Ordinary
  <2>3. CASE a.type = TInt
    <3>1. a.x \in Int /\ b.x \in Int
      BY OrdinaryShape
    <3>2. Sign(2 * a.x, 2 * b.x) = Sign(a.x, b.x)
      BY <3>1 DEF Sign
    <3> QED
      BY <2>1, <2>2, <2>3, <3>2 DEF Exact
  <2>4. CASE a.type # TInt
    BY <2>1, <2>2, <2>4 DEF Exact
  <2> QED
    BY <2>3, <2>4
<1> QED
  BY <1>1, <1>2, <1>3

(* exec.encodeKey loses no match, and invents none while INTs are doubles:
   two keys meet in the hash table exactly when Compare calls them equal. *)
THEOREM JoinKeyAgrees ==
    ASSUME NEW a \in Values, NEW b \in Values, Comparable(a, b)
    PROVE  /\ Equal(a, b) => SameKey(a, b)
           /\ ExactKey(a) /\ ExactKey(b) /\ SameKey(a, b) => Equal(a, b)
<1>0. TInt # TFloat /\ TInt # TText /\ TInt # TBool /\ TFloat # TText
      /\ TFloat # TBool /\ TText # TBool
  BY DEF TInt, TFloat, TText, TBool
<1>1. ~Ordinary(a) \/ ~Ordinary(b) => ~Equal(a, b) /\ ~SameKey(a, b)
  BY DEF Ordinary, Equal, SameKey, Compare, EncodeKey, Unknown, Known
<1>2. ASSUME Ordinary(a), Ordinary(b)
      PROVE  /\ Equal(a, b) <=> Exact(a) = Exact(b)
             /\ Exact(a) \in Int /\ Exact(b) \in Int
  <2>1. Exact(a) \in Int /\ Exact(b) \in Int
    BY <1>2, OrdinaryShape
  <2>2. Sign(Exact(a), Exact(b)) = 0 <=> Exact(a) = Exact(b)
    BY <2>1 DEF Sign
  <2> QED
    BY <1>2, <2>1, <2>2, CompareExact DEF Equal, Known
<1> DEFINE Side(v) == /\ IsNumeric(v) => EncodeKey(v) = [domain |-> "n", x |-> Round[Exact(v)]]
                      /\ v.type = TBool => EncodeKey(v) = [domain |-> "b", x |-> Exact(v)]
                      /\ v.type = TText => EncodeKey(v) = [domain |-> "s", x |-> Exact(v)]
<1>3. ASSUME NEW v \in Values, Ordinary(v)
      PROVE  Side(v) /\ v.type \in {TInt, TFloat, TText, TBool}
  <2>1. v.type = TFloat => Round[Exact(v)] = v.x
    BY <1>0, <1>3, OrdinaryShape, RoundFloat DEF Exact
  <2> QED
    BY <1>0, <1>3, <2>1, OrdinaryShape DEF Ordinary, EncodeKey, IsNumeric, Exact, ToFloat
<1>4. ASSUME NEW v \in Values, Ordinary(v), IsNumeric(v), ExactKey(v)
      PROVE  Round[Exact(v)] = Exact(v)
  BY <1>0, <1>4, OrdinaryShape, RoundFloat DEF Exact, ExactKey, IsNumeric, Ordinary
<1>5. CASE Ordinary(a) /\ Ordinary(b)
  <2>1. Side(a) /\ Side(b)
    BY <1>3, <1>5
  <2>2. IsNumeric(a) <=> IsNumeric(b)
    BY DEF Comparable, IsNumeric
  <2>3. CASE IsNumeric(a)
    <3>1. SameKey(a, b) <=> Round[Exact(a)] = Round[Exact(b)]
      BY <2>1, <2>2, <2>3 DEF SameKey, NoKey
    <3> QED
      BY <1>2, <1>4, <1>5, <2>2, <2>3, <3>1
  <2>4. CASE ~IsNumeric(a)
    <3>1. a.type = b.type /\ a.type \in {TText, TBool}
      BY <1>3, <1>5, <2>4 DEF Comparable, IsNumeric
    <3>2. SameKey(a, b) <=> Exact(a) = Exact(b)
      BY <2>1, <3>1 DEF SameKey, NoKey
    <3> QED
      BY <1>2, <1>5, <3>2
  <2> QED
    BY <2>3, <2>4
<1> QED
  BY <1>1, <1>5

-----------------------------------------------------------------------------
(* Arithmetic stays in its types. *)

LEMMA IntAddRange ==
    ASSUME NEW i \in Int, NEW j \in Int
    PROVE  IntAdd(i, j) \in IntRange
<1> DEFINE n == i + j + IntCutoff
           w == 2 * IntCutoff
<1>1. n \in Int /\ w \in Nat \ {0} /\ IntCutoff \in Nat
  BY IntCutoffAssumption
<1> HIDE DEF n, w
<1>2. n % w \in 0 .. w - 1
  BY <1>1
<1> QED
  BY <1>1, <1>2 DEF IntAdd, IntRange, n, w

LEMMA InfFacts ==
    /\ Inf \in Floats /\ -Inf \in Floats /\ Inf \in Int /\ Inf > 2 * IntCutoff
    /\ \A f \in Floats : -Inf <= f /\ f <= Inf
<1>1. PICK f \in Floats : f > 2 * IntCutoff /\ \A g \in Floats : g <= f
  BY FloatsAssumption
<1>2. Inf \in Floats /\ \A g \in Floats : g <= Inf
  BY <1>1 DEF Inf
<1>3. Floats \subseteq Int /\ \A g \in Floats : -g \in Floats
  BY FloatsAssumption
<1>4. Inf > 2 * IntCutoff
  BY <1>1, <1>2, <1>3, IntCutoffAssumption
<1>5. \A g \in Floats : -Inf <= g
  BY <1>2, <1>3
<1> QED
  BY <1>2, <1>3, <1>4, <1>5

(* Between the infinities there is a next double in each direction. *)
LEMMA Neighbours ==
    ASSUME NEW h \in Int, -Inf <= h, h <= Inf
    PROVE  (\E f \in Floats : IsFloor(f, h)) /\ (\E f \in Floats : IsCeil(f, h))
<1>1. Floats \subseteq Int /\ Inf \in Floats /\ -Inf \in Floats
  BY InfFacts, FloatsAssumption
<1>2. \E f \in Floats : IsFloor(f, h)
  <2> DEFINE gaps == {d \in Nat : h - d \in Floats}
  <2>1. h + Inf \in gaps
    BY <1>1, InfFacts
  <2>2. PICK d \in gaps : \A e \in gaps : d <= e
    <3>1. gaps \subseteq Nat /\ gaps # {}
      BY <2>1
    <3> HIDE DEF gaps
    <3> QED
      BY <3>1, Smallest
  <2>3. h - d \in Floats /\ h - d <= h
    BY <2>2
  <2>4. ASSUME NEW g \in Floats, g <= h PROVE g <= h - d
    <3>1. g \in Int /\ h - g \in Nat /\ h - (h - g) = g
      BY <1>1, <2>4
    <3>2. h - g \in gaps
      BY <2>4, <3>1
    <3>3. d <= h - g /\ d \in Nat
      BY <2>2, <3>2
    <3> QED
      BY <3>1, <3>3
  <2> QED
    BY <2>3, <2>4 DEF IsFloor
<1>3. \E f \in Floats : IsCeil(f, h)
  <2> DEFINE gaps == {d \in Nat : h + d \in Floats}
  <2>1. Inf - h \in gaps
    BY <1>1, InfFacts
  <2>2. PICK d \in gaps : \A e \in gaps : d <= e
    <3>1. gaps \subseteq Nat /\ gaps # {}
      BY <2>1
    <3> HIDE DEF gaps
    <3> QED
      BY <3>1, Smallest
  <2>3. h + d \in Floats /\ h <= h + d
    BY <2>2
  <2>4. ASSUME NEW g \in Floats, h <= g PROVE h + d <= g
    <3>1. g \in Int /\ g - h \in Nat /\ h + (g - h) = g
      BY <1>1, <2>4
    <3>2. g - h \in gaps
      BY <2>4, <3>1
    <3>3. d <= g - h /\ d \in Nat
      BY <2>2, <3>2
    <3> QED
      BY <3>1, <3>3
  <2> QED
    BY <2>3, <2>4 DEF IsCeil
<1> QED
  BY <1>2, <1>3

(* Between the infinities rounding ends at a double. *)
LEMMA RoundIsFloat ==
    ASSUME NEW h \in Int, -Inf <= h, h <= Inf
    PROVE  Round[h] \in Floats
<1>1. Floats \subseteq Int /\ Inf \in Floats /\ -Inf \in Floats
  BY InfFacts, FloatsAssumption
<1>2. (\E f \in Floats : IsFloor(f, h)) /\ (\E f \in Floats : IsCeil(f, h))
  BY Neighbours
<1>4. PICK lo \in Floats, hi \in Floats :
          /\ lo = CHOOSE f \in Floats : IsFloor(f, h)
          /\ hi = CHOOSE f \in Floats : IsCeil(f, h)
  BY <1>2
<1>5. Round[h] \in {h, lo, hi} /\ (Round[h] = h => h \in Floats \/ h \in {lo, hi})
  BY <1>4 DEF Round
<1> QED
  BY <1>4, <1>5

LEMMA ValueNumber ==
    ASSUME NEW v \in Values
    PROVE  /\ v.x \in Int
           /\ v.type = TInt /\ ~IsNull(v) => v.x \in IntRange
<1>1. CASE Ordinary(v)
  <2>1. TInt # TFloat /\ TInt # TText /\ TInt # TBool
    BY DEF TInt, TFloat, TText, TBool
  <2> QED
    BY <1>1, <2>1, OrdinaryShape
<1>2. CASE v.cls \in {"null", "nan"}
  <2>1. CASE v \in IntValues
    BY <1>2, <2>1 DEF IntValues, Int64
  <2>2. CASE v \in FloatValues
    BY <1>2, <2>2 DEF FloatValues, Float64, NaN, NegZero, TInt, TFloat
  <2>3. CASE v \in TextValues
    BY <1>2, <2>3 DEF TextValues, Text
  <2>4. CASE v \in BoolValues
    BY <1>2, <2>4 DEF BoolValues, Bool
  <2>5. CASE v \in NullValues
    BY <1>2, <2>5 DEF NullValues, NullOf, IsNull
  <2> QED
    BY <2>1, <2>2, <2>3, <2>4, <2>5 DEF Values
<1> QED
  BY <1>1, <1>2 DEF Ordinary, IsNull, IsNaN

LEMMA FloatAddIsFloat ==
    ASSUME NEW a, a.x \in Int, NEW b, b.x \in Int
    PROVE  FloatAdd(a, b) \in FloatValues
<1>1. /\ Float64(Inf) \in FloatValues /\ Float64(-Inf) \in FloatValues /\ NaN \in FloatValues
      /\ Inf \in Int
  BY InfFacts DEF FloatValues
<1>2. ASSUME a.x + b.x <= Inf, a.x + b.x >= -Inf
      PROVE  Float64(Round[a.x + b.x]) \in FloatValues
  <2>1. Round[a.x + b.x] \in Floats
    BY <1>1, <1>2, RoundIsFloat
  <2> QED
    BY <2>1 DEF FloatValues
<1> HIDE DEF FloatValues
<1> QED
  BY <1>1, <1>2 DEF FloatAdd

LEMMA FloatNumber ==
    ASSUME NEW v \in FloatValues
    PROVE  v.x \in Int
BY FloatsAssumption DEF FloatValues, Float64, NaN, NegZero

LEMMA DivMod ==
    ASSUME NEW a \in Int, NEW w \in Nat \ {0}
    PROVE  \E k \in Int : a = w * k + (a % w) /\ a % w \in 0 .. w - 1
<1>1. a \div w \in Int /\ a = w * (a \div w) + (a % w) /\ a % w \in 0 .. w - 1
  OBVIOUS
<1> QED
  BY <1>1

LEMMA Multiple ==
    ASSUME NEW k \in Int, NEW w \in Nat \ {0}, w * k < w, w * k > -w
    PROVE  k = 0
<1>1. CASE k >= 1
  <2>1. w * k >= w
    BY <1>1
  <2> QED
    BY <2>1
<1>2. CASE k <= -1
  <2>1. w * k <= -w
    BY <1>2
  <2> QED
    BY <2>1
<1> QED
  BY <1>1, <1>2

LEMMA ModOfMultiple ==
    ASSUME NEW k \in Int, NEW w \in Nat \ {0}
    PROVE  (w * k) % w = 0
<1> DEFINE a == w * k
<1>1. a \in Int
  OBVIOUS
<1>2. PICK m \in Int : a = w * m + (a % w) /\ a % w \in 0 .. w - 1
  <2> HIDE DEF a
  <2> QED
    BY <1>1, DivMod
<1>3. w * (k - m) = a % w
  BY <1>2
<1>4. k - m = 0
  BY <1>2, <1>3, Multiple
<1> QED
  BY <1>2, <1>3, <1>4

-----------------------------------------------------------------------------
(* The group key (internal/exec/groupkey.go): the cells of a value identify its
   group, no value's cells begin another's, and so the key of a tuple identifies
   the groups of all its values. *)

-----------------------------------------------------------------------------
(* FlattenSeq: the concatenation of the first sequences, one by one. *)
IsFlatten(f, n, seqs) ==
    f = [i \in 1 .. n |-> IF i = 1 THEN seqs[i] ELSE f[i - 1] \o seqs[i]]

LEMMA FlattenExists ==
    ASSUME NEW seqs, NEW n \in Nat
    PROVE  \E f : IsFlatten(f, n, seqs)
<1> DEFINE missing == {m \in Nat : ~\E f : IsFlatten(f, m, seqs)}
<1> SUFFICES ASSUME missing # {} PROVE FALSE
  OBVIOUS
<1>1. PICK m \in missing : \A k \in missing : m <= k
  <2>1. missing \subseteq Nat
    OBVIOUS
  <2> HIDE DEF missing
  <2> QED
    BY <2>1, Smallest
<1>2. m # 0
  <2>1. IsFlatten(<<>>, 0, seqs)
    BY DEF IsFlatten
  <2> QED
    BY <2>1
<1>3. PICK g : IsFlatten(g, m - 1, seqs)
  <2>1. m - 1 \in Nat /\ ~(m <= m - 1)
    BY <1>1, <1>2
  <2> QED
    BY <1>1, <2>1
<1> DEFINE f == [i \in 1 .. m |-> IF i <= m - 1 THEN g[i]
                                  ELSE IF i = 1 THEN seqs[i] ELSE g[i - 1] \o seqs[i]]
<1>4. m \in Nat
  BY <1>1
<1>5. ASSUME NEW i \in 1 .. m
      PROVE  f[i] = IF i = 1 THEN seqs[i] ELSE f[i - 1] \o seqs[i]
  <2>1. i # 1 => f[i - 1] = g[i - 1]
    BY <1>4
  <2>2. f[i] = IF i = 1 THEN seqs[i] ELSE g[i - 1] \o seqs[i]
    <3>1. CASE i <= m - 1
      <4>1. f[i] = g[i] /\ i \in 1 .. m - 1
        BY <1>4, <3>1
      <4> HIDE DEF f
      <4> QED
        BY <1>3, <4>1 DEF IsFlatten
    <3>2. CASE ~(i <= m - 1)
      BY <3>2
    <3> QED
      BY <3>1, <3>2
  <2> HIDE DEF f
  <2> QED
    BY <2>1, <2>2
<1>6. IsFlatten(f, m, seqs)
  <2>1. f = [i \in 1 .. m |-> f[i]]
    OBVIOUS
  <2> HIDE DEF f
  <2> QED
    BY <1>5, <2>1 DEF IsFlatten
<1> QED
  BY <1>1, <1>6

LEMMA FlattenSteps ==
    ASSUME NEW T, NEW seqs \in Seq(Seq(T)), NEW len, len = Len(seqs), len # 0
    PROVE  \E f : /\ FlattenSeq(seqs) = f[len]
                  /\ f[1] = seqs[1]
                  /\ \A i \in 2 .. len : f[i] = f[i - 1] \o seqs[i]
                  /\ \A i \in 1 .. len : f[i] \in Seq(T)
<1> DEFINE S == Seq(T)
<1>1. Len(seqs) \in Nat \ {0} /\ \A i \in 1 .. Len(seqs) : seqs[i] \in Seq(T)
  <2>1. seqs \in Seq(S)
    OBVIOUS
  <2> HIDE DEF S
  <2>2. Len(seqs) \in Nat \ {0}
    BY <2>1, LenProperties
  <2>3. \A i \in 1 .. Len(seqs) : seqs[i] \in S
    BY <2>1, ElementOfSeq, Zenon
  <2> QED
    BY <2>2, <2>3, Zenon DEF S
<1> DEFINE f == CHOOSE g : IsFlatten(g, Len(seqs), seqs)
<1>2. IsFlatten(f, Len(seqs), seqs)
  BY <1>1, FlattenExists
<1>3. FlattenSeq(seqs) = f[Len(seqs)]
  BY <1>1 DEF FlattenSeq, IsFlatten
<1> HIDE DEF f
<1>4. /\ f[1] = seqs[1]
      /\ \A i \in 2 .. Len(seqs) : f[i] = f[i - 1] \o seqs[i]
  <2> DEFINE n == Len(seqs)
  <2>1. n \in Nat \ {0} /\ f = [i \in 1 .. n |-> IF i = 1 THEN seqs[i] ELSE f[i - 1] \o seqs[i]]
    BY <1>1, <1>2 DEF IsFlatten
  <2> HIDE DEF n
  <2>2. \A i \in 1 .. n : f[i] = IF i = 1 THEN seqs[i] ELSE f[i - 1] \o seqs[i]
    BY <2>1
  <2>3. 1 \in 1 .. n /\ \A i \in 2 .. n : i \in 1 .. n /\ i # 1
    BY <2>1
  <2> QED
    BY <2>2, <2>3, Zenon DEF n
<1>5. \A i \in 1 .. Len(seqs) : f[i] \in Seq(T)
  <2> DEFINE bad == {k \in 1 .. Len(seqs) : f[k] \notin Seq(T)}
  <2> SUFFICES ASSUME bad # {} PROVE FALSE
    OBVIOUS
  <2>1. PICK k \in bad : \A m \in bad : k <= m
    <3>1. bad \subseteq Nat
      <4>1. 1 .. Len(seqs) \subseteq Nat
        BY <1>1
      <4> QED
        BY <4>1
    <3> HIDE DEF bad
    <3> QED
      BY <3>1, Smallest
  <2>2. k # 1
    BY <1>1, <1>4
  <2>3. k \in 2 .. Len(seqs) /\ k - 1 \in 1 .. Len(seqs) /\ ~(k <= k - 1)
    BY <1>1, <2>1, <2>2
  <2>4. f[k - 1] \in Seq(T)
    BY <2>1, <2>3
  <2>5. f[k] = f[k - 1] \o seqs[k] /\ seqs[k] \in Seq(T)
    BY <1>1, <1>4, <2>3
  <2>6. f[k] \in Seq(T)
    <3> DEFINE a == f[k - 1]
               b == seqs[k]
    <3>1. a \in Seq(T) /\ b \in Seq(T) /\ f[k] = a \o b
      BY <2>4, <2>5
    <3> HIDE DEF a, b
    <3> QED
      BY <3>1, ConcatProperties
  <2> QED
    BY <2>1, <2>6
<1> QED
  BY <1>3, <1>4, <1>5

-----------------------------------------------------------------------------
(* canonicalNumber: an integral number inside int64 has the cells of the
   integer, every other number those of its bits. *)
LEMMA CanonicalCells ==
    ASSUME NEW v \in Values, IsNumeric(v), Ordinary(v)
    PROVE  \/ /\ \E n \in Int : CanonicalNumber(v) = <<TagI, n>> /\ 2 * n = Exact(v)
              /\ -(2 * IntCutoff) <= Exact(v) /\ Exact(v) < 2 * IntCutoff
           \/ /\ CanonicalNumber(v) = <<TagF, Exact(v)>> /\ Exact(v) \in Floats
              /\ ~(Exact(v) % 2 = 0 /\ -(2 * IntCutoff) <= Exact(v) /\ Exact(v) < 2 * IntCutoff)
<1>0. TInt # TFloat /\ TInt # TText /\ TInt # TBool /\ TFloat # TText
      /\ TFloat # TBool /\ TText # TBool
  BY DEF TInt, TFloat, TText, TBool
<1>1. IntCutoff \in Int /\ IntCutoff > 0
  BY IntCutoffAssumption
<1>2. CASE v.type = TInt
  <2>1. v.x \in IntRange /\ v.x \in Int
    BY <1>0, <1>2, OrdinaryShape
  <2>2. CanonicalNumber(v) = <<TagI, v.x>> /\ Exact(v) = 2 * v.x
    BY <1>2 DEF CanonicalNumber, Exact
  <2>3. -(2 * IntCutoff) <= 2 * v.x /\ 2 * v.x < 2 * IntCutoff
    BY <1>1, <2>1 DEF IntRange
  <2> QED
    BY <2>1, <2>2, <2>3
<1>3. CASE v.type = TFloat
  <2>1. v.x \in Floats /\ v.x \in Int /\ Exact(v) = v.x /\ ~IsNaN(v) /\ v.type # TInt
    BY <1>0, <1>3, OrdinaryShape DEF Exact, Ordinary
  <2>2. CASE v.x = 0
    <3>1. CanonicalNumber(v) = <<TagI, 0>>
      BY <2>1, <2>2 DEF CanonicalNumber
    <3>2. -(2 * IntCutoff) <= 0 /\ 0 < 2 * IntCutoff /\ 2 * 0 = 0
      BY <1>1
    <3> QED
      BY <2>1, <2>2, <3>1, <3>2
  <2>3. ASSUME v.x # 0, v.x % 2 = 0, -(2 * IntCutoff) <= v.x, v.x < 2 * IntCutoff
        PROVE  CanonicalNumber(v) = <<TagI, Truncate(v.x)>>
               /\ Truncate(v.x) \in Int /\ 2 * Truncate(v.x) = v.x
    <3>1. ToFloat(Truncate(v.x)) = v.x
      BY <2>1, <2>3, RoundTruncated
    <3>2. Truncate(v.x) \in Int /\ 2 * Truncate(v.x) = v.x
      BY <2>1, <2>3, TruncateBounds
    <3> QED
      BY <2>1, <2>3, <3>1, <3>2 DEF CanonicalNumber
  <2>4. ASSUME v.x # 0, ~(v.x % 2 = 0 /\ -(2 * IntCutoff) <= v.x /\ v.x < 2 * IntCutoff)
        PROVE  CanonicalNumber(v) = <<TagF, v.x>>
    <3>1. ToFloat(Truncate(v.x)) = v.x <=> v.x % 2 = 0
      BY <2>1, RoundTruncated
    <3> QED
      BY <2>1, <2>4, <3>1 DEF CanonicalNumber, Float64bits
  <2> QED
    BY <2>1, <2>2, <2>3, <2>4
<1> QED
  BY <1>2, <1>3 DEF IsNumeric

(* Equal is equality of exact places. *)
LEMMA EqualExact ==
    ASSUME NEW a \in Values, NEW b \in Values, Comparable(a, b), Ordinary(a), Ordinary(b)
    PROVE  /\ Equal(a, b) <=> Exact(a) = Exact(b)
           /\ Exact(a) \in Int /\ Exact(b) \in Int
<1>1. Exact(a) \in Int /\ Exact(b) \in Int
  BY OrdinaryShape
<1>2. Sign(Exact(a), Exact(b)) = 0 <=> Exact(a) = Exact(b)
  BY <1>1 DEF Sign
<1> QED
  BY <1>1, <1>2, CompareExact DEF Equal, Known

-----------------------------------------------------------------------------
(* groupKey: the cells of one value. *)
TextCells(v) == <<TagS, Len(Texts[v.x])>> \o Texts[v.x]

LEMMA GroupCellsKinds ==
    ASSUME NEW v \in Values
    PROVE  \/ /\ IsNull(v) /\ v.type \in {TInt, TFloat, TText, TBool}
              /\ GroupCells(v) = <<TagN, TypeCode(v.type)>>
           \/ /\ ~IsNull(v) /\ IsNaN(v) /\ v.type = TFloat
              /\ GroupCells(v) = <<TagF, NaNBits>>
           \/ /\ Ordinary(v) /\ IsNumeric(v)
              /\ GroupCells(v) = CanonicalNumber(v)
           \/ /\ Ordinary(v) /\ v.type = TText /\ v.x \in DOMAIN Texts
              /\ GroupCells(v) = TextCells(v)
           \/ /\ Ordinary(v) /\ v.type = TBool /\ v.x \in {0, 1}
              /\ GroupCells(v) = <<TagB, v.x>>
<1>0. TInt # TFloat /\ TInt # TText /\ TInt # TBool /\ TFloat # TText
      /\ TFloat # TBool /\ TText # TBool
  BY DEF TInt, TFloat, TText, TBool
<1>1. CASE IsNull(v)
  <2>1. v.type \in {TInt, TFloat, TText, TBool}
    BY DEF Values, IntValues, FloatValues, TextValues, BoolValues, NullValues,
           Int64, Float64, Text, Bool, NullOf, NaN, NegZero
  <2> QED
    BY <1>1, <2>1 DEF GroupCells
<1>2. CASE ~IsNull(v) /\ IsNaN(v)
  <2>1. v.type = TFloat
    BY <1>2 DEF Values, IntValues, FloatValues, TextValues, BoolValues, NullValues,
           Int64, Float64, Text, Bool, NullOf, NaN, NegZero, IsNaN
  <2> QED
    BY <1>0, <1>2, <2>1 DEF GroupCells, CanonicalNumber, IsNumeric
<1>3. CASE Ordinary(v)
  <2>1. CASE IsNumeric(v)
    BY <1>0, <1>3, <2>1 DEF GroupCells, Ordinary, IsNumeric
  <2>2. CASE ~IsNumeric(v)
    <3>1. ~IsNull(v) /\ \/ v.type = TText /\ v.x \in DOMAIN Texts
                        \/ v.type = TBool /\ v.x \in {0, 1}
      BY <1>3, <2>2, OrdinaryShape DEF Ordinary, IsNumeric
    <3>2. v.type = TText => GroupCells(v) = TextCells(v)
      BY <1>0, <2>2, <3>1 DEF GroupCells, TextCells
    <3>3. v.type = TBool => GroupCells(v) = <<TagB, v.x>>
      BY <1>0, <2>2, <3>1 DEF GroupCells
    <3> QED
      BY <1>3, <3>1, <3>2, <3>3
  <2> QED
    BY <2>1, <2>2
<1> QED
  BY <1>1, <1>2, <1>3 DEF Ordinary

\* Every value but a TEXT takes two cells, a tag and one word.
LEMMA GroupCellsPair ==
    ASSUME NEW v \in Values, v.type # TText \/ IsNull(v)
    PROVE  \E g \in {TagN, TagI, TagF, TagB} : \E n \in Int : GroupCells(v) = <<g, n>>
<1>1. CASE IsNull(v)
  <2>1. GroupCells(v) = <<TagN, TypeCode(v.type)>> /\ v.type \in {TInt, TFloat, TText, TBool}
    BY <1>1, GroupCellsKinds DEF Ordinary
  <2>2. TypeCode(v.type) \in Int
    BY <2>1 DEF TypeCode, TInt, TFloat, TText, TBool
  <2> QED
    BY <2>1, <2>2
<1>2. CASE ~IsNull(v) /\ IsNaN(v)
  <2>1. GroupCells(v) = <<TagF, NaNBits>>
    BY <1>2, GroupCellsKinds DEF Ordinary
  <2>2. NaNBits \in Int
    BY IntCutoffAssumption DEF NaNBits
  <2> QED
    BY <2>1, <2>2
<1>3. CASE Ordinary(v) /\ IsNumeric(v)
  <2>1. GroupCells(v) = CanonicalNumber(v)
    BY <1>3, GroupCellsKinds DEF Ordinary, IsNumeric, TInt, TFloat, TText, TBool
  <2>2. Exact(v) \in Int
    BY <1>3, OrdinaryShape
  <2> QED
    BY <1>3, <2>1, <2>2, CanonicalCells
<1>4. CASE Ordinary(v) /\ ~IsNumeric(v)
  <2>1. GroupCells(v) = <<TagB, v.x>> /\ v.x \in {0, 1}
    BY <1>4, GroupCellsKinds DEF Ordinary
  <2> QED
    BY <2>1
<1> QED
  BY <1>1, <1>2, <1>3, <1>4 DEF Ordinary

LEMMA TextCellsFacts ==
    ASSUME NEW v, v.x \in DOMAIN Texts
    PROVE  /\ Texts[v.x] \in Seq(Int) /\ Len(Texts[v.x]) \in Nat
           /\ TextCells(v) \in Seq(Int) /\ Len(TextCells(v)) = Len(Texts[v.x]) + 2
           /\ TextCells(v)[1] = TagS /\ TextCells(v)[2] = Len(Texts[v.x])
<1> DEFINE t == Texts[v.x]
<1>1. t \in Seq(Nat)
  <2> DEFINE S == Seq(Nat)
  <2>1. Texts \in Seq(S)
    BY TextsAssumption
  <2> HIDE DEF S
  <2>2. v.x \in 1 .. Len(Texts)
    BY <2>1, LenProperties
  <2>3. t \in S
    BY <2>1, <2>2, ElementOfSeq
  <2> QED
    BY <2>3 DEF S
<1>2. t \in Seq(Int) /\ Len(t) \in Nat
  BY <1>1, SeqWiden
<1>3. TagS \in Int
  BY DEF TagS
<1> HIDE DEF t
<1>4. <<TagS, Len(t)>> \in Seq(Int) /\ Len(<<TagS, Len(t)>>) = 2
  BY <1>2, <1>3
<1>5. /\ <<TagS, Len(t)>> \o t \in Seq(Int)
      /\ Len(<<TagS, Len(t)>> \o t) = Len(t) + 2
      /\ (<<TagS, Len(t)>> \o t)[1] = TagS /\ (<<TagS, Len(t)>> \o t)[2] = Len(t)
  BY <1>2, <1>3, <1>4, ConcatProperties
<1> QED
  BY <1>2, <1>5 DEF TextCells, t

(* The kinds of values, as SameGroup and the tags tell them apart. *)
LEMMA EqualIsOrdinary ==
    ASSUME NEW a, NEW b, Equal(a, b)
    PROVE  Ordinary(a) /\ Ordinary(b)
BY DEF Equal, Compare, Unknown, Known, Ordinary

(* Two values have the same cells exactly when they group together: groupKey is
   canonical, and free of collisions, on single values. *)
THEOREM GroupCellsAgree ==
    ASSUME NEW a \in Values, NEW b \in Values
    PROVE  GroupCells(a) = GroupCells(b) <=> SameGroup(a, b)
<1>0. TInt # TFloat /\ TInt # TText /\ TInt # TBool /\ TFloat # TText
      /\ TFloat # TBool /\ TText # TBool
  BY DEF TInt, TFloat, TText, TBool
<1>1. TagN # TagI /\ TagN # TagF /\ TagN # TagB /\ TagN # TagS /\ TagI # TagF
      /\ TagI # TagB /\ TagI # TagS /\ TagF # TagB /\ TagF # TagS /\ TagB # TagS
  BY DEF TagN, TagI, TagF, TagB, TagS
<1> DEFINE Kind(v) == IF IsNull(v) THEN 1 ELSE IF IsNaN(v) THEN 2
                      ELSE IF IsNumeric(v) THEN 3 ELSE IF v.type = TText THEN 4 ELSE 5
<1>2. ASSUME NEW v \in Values
      PROVE  /\ Kind(v) \in 1 .. 5
             /\ Kind(v) >= 3 => Ordinary(v)
             /\ Kind(v) = 1 => /\ v.type \in {TInt, TFloat, TText, TBool}
                               /\ GroupCells(v) = <<TagN, TypeCode(v.type)>>
             /\ Kind(v) = 2 => GroupCells(v) = <<TagF, NaNBits>>
             /\ Kind(v) = 3 => \/ /\ \E n \in Int : GroupCells(v) = <<TagI, n>> /\ 2 * n = Exact(v)
                                  /\ -(2 * IntCutoff) <= Exact(v) /\ Exact(v) < 2 * IntCutoff
                               \/ /\ GroupCells(v) = <<TagF, Exact(v)>> /\ Exact(v) \in Floats
                                  /\ ~(/\ Exact(v) % 2 = 0 /\ -(2 * IntCutoff) <= Exact(v)
                                       /\ Exact(v) < 2 * IntCutoff)
             /\ Kind(v) = 4 => /\ v.x \in DOMAIN Texts /\ GroupCells(v) = TextCells(v)
                               /\ v.type = TText
             /\ Kind(v) = 5 => /\ v.x \in {0, 1} /\ GroupCells(v) = <<TagB, v.x>>
                               /\ v.type = TBool
  <2>1. CASE IsNull(v)
    BY <1>2, <2>1, GroupCellsKinds DEF Ordinary
  <2>2. CASE ~IsNull(v) /\ IsNaN(v)
    BY <1>2, <2>2, GroupCellsKinds DEF Ordinary
  <2>3. CASE Ordinary(v) /\ IsNumeric(v)
    <3>1. GroupCells(v) = CanonicalNumber(v) /\ Kind(v) = 3
      BY <1>0, <1>2, <2>3, GroupCellsKinds DEF Ordinary, IsNumeric
    <3> QED
      BY <2>3, <3>1, CanonicalCells
  <2>4. CASE Ordinary(v) /\ ~IsNumeric(v)
    BY <1>0, <1>2, <2>4, GroupCellsKinds DEF Ordinary, IsNumeric
  <2> QED
    BY <2>1, <2>2, <2>3, <2>4 DEF Ordinary
<1> DEFINE Tag(v) == GroupCells(v)[1]
<1>3. ASSUME NEW v \in Values
      PROVE  /\ Kind(v) = 1 => Tag(v) = TagN
             /\ Kind(v) = 2 => Tag(v) = TagF
             /\ Kind(v) = 3 => Tag(v) \in {TagI, TagF}
             /\ Kind(v) = 4 => Tag(v) = TagS
             /\ Kind(v) = 5 => Tag(v) = TagB
  <2> HIDE DEF Kind
  <2>1. Kind(v) = 4 => Tag(v) = TagS
    BY <1>2, <1>3, TextCellsFacts
  <2> QED
    BY <1>2, <1>3, <2>1
<1>4. SameGroup(a, b) <=>
        /\ Kind(a) = Kind(b)
        /\ Kind(a) = 1 => a.type = b.type
        /\ Kind(a) >= 3 => Exact(a) = Exact(b)
  <2>1. Ordinary(a) /\ Ordinary(b) /\ Comparable(a, b) => (Equal(a, b) <=> Exact(a) = Exact(b))
    BY EqualExact
  <2>2. Ordinary(a) /\ Ordinary(b) => (Comparable(a, b) <=> Kind(a) = Kind(b))
    BY <1>0, OrdinaryShape DEF Comparable, IsNumeric, Ordinary
  <2>3. ~(IsNull(a) /\ IsNaN(a)) /\ ~(IsNull(b) /\ IsNaN(b))
    BY DEF IsNull, IsNaN
  <2>4. (Kind(a) >= 3 <=> Ordinary(a)) /\ (Kind(b) >= 3 <=> Ordinary(b))
    BY DEF Ordinary
  <2> QED
    BY <2>1, <2>2, <2>3, <2>4, EqualIsOrdinary DEF SameGroup, Ordinary
<1> HIDE DEF Kind
<1>5. CASE Kind(a) = Kind(b) /\ Kind(a) \in {1, 2, 5}
  <2>1. TypeCode(TInt) = 0 /\ TypeCode(TFloat) = 1 /\ TypeCode(TText) = 2 /\ TypeCode(TBool) = 3
    BY <1>0 DEF TypeCode
  <2>2. CASE Kind(a) = 1
    <3>1. /\ GroupCells(a) = <<TagN, TypeCode(a.type)>>
          /\ GroupCells(b) = <<TagN, TypeCode(b.type)>>
          /\ a.type \in {TInt, TFloat, TText, TBool} /\ b.type \in {TInt, TFloat, TText, TBool}
      BY <1>2, <1>5, <2>2
    <3>2. TypeCode(a.type) = TypeCode(b.type) <=> a.type = b.type
      BY <2>1, <3>1
    <3> QED
      BY <1>4, <1>5, <2>2, <3>1, <3>2
  <2>3. CASE Kind(a) = 2
    <3>1. GroupCells(a) = <<TagF, NaNBits>> /\ GroupCells(b) = <<TagF, NaNBits>>
      BY <1>2, <1>5, <2>3
    <3> QED
      BY <1>4, <1>5, <2>3, <3>1
  <2>4. CASE Kind(a) = 5
    <3>1. /\ GroupCells(a) = <<TagB, a.x>> /\ GroupCells(b) = <<TagB, b.x>>
          /\ a.type = TBool /\ b.type = TBool
      BY <1>2, <1>5, <2>4
    <3>2. Exact(a) = a.x /\ Exact(b) = b.x
      BY <1>0, <3>1 DEF Exact
    <3> QED
      BY <1>4, <1>5, <2>4, <3>1, <3>2
  <2> QED
    BY <1>5, <2>2, <2>3, <2>4
<1>6. CASE Kind(a) = 3 /\ Kind(b) = 3
  <2>1. Exact(a) \in Int /\ Exact(b) \in Int /\ IntCutoff \in Int
    BY <1>2, <1>6, OrdinaryShape, IntCutoffAssumption
  <2>2. \A n \in Int : (2 * n) % 2 = 0
    OBVIOUS
  <2>3. GroupCells(a) = GroupCells(b) <=> Exact(a) = Exact(b)
    BY <1>1, <1>2, <1>6, <2>1, <2>2
  <2> QED
    BY <1>4, <1>6, <2>3
<1>7. CASE Kind(a) = 4 /\ Kind(b) = 4
  <2>1. Exact(a) = a.x /\ Exact(b) = b.x
    BY <1>0, <1>2, <1>7 DEF Exact
  <2>2. ASSUME GroupCells(a) = GroupCells(b) PROVE Texts[a.x] = Texts[b.x]
    <3> DEFINE s == Texts[a.x]
               t == Texts[b.x]
    <3>1. /\ s \in Seq(Int) /\ t \in Seq(Int) /\ Len(s) \in Nat
          /\ <<TagS, Len(s)>> \o s = <<TagS, Len(t)>> \o t
          /\ Len(s) = Len(t)
      BY <1>2, <1>7, <2>2, TextCellsFacts DEF TextCells
    <3> HIDE DEF s, t
    <3>2. TagS \in Int
      BY DEF TagS
    <3>3. <<TagS, Len(s)>> \in Seq(Int)
      BY <3>1, <3>2
    <3>4. s = t
      BY <3>1, <3>3, ConcatSimplifications
    <3> QED
      BY <3>4 DEF s, t
  <2>3. Texts[a.x] = Texts[b.x] => a.x = b.x
    BY <1>2, <1>7, TextsAssumption
  <2>4. a.x = b.x => GroupCells(a) = GroupCells(b)
    BY <1>2, <1>7 DEF TextCells
  <2> QED
    BY <1>4, <1>7, <2>1, <2>2, <2>3, <2>4
<1>8. CASE {Kind(a), Kind(b)} = {2, 3}
  <2>1. NaNBits \notin Floats /\ NaNBits \in Int
    <3>1. NaNBits \in Int /\ NaNBits % 2 # 0 /\ ~(NaNBits \in -FloatExact .. FloatExact)
      BY IntCutoffAssumption DEF NaNBits
    <3> QED
      BY <3>1, FloatsAssumption
  <2> QED
    BY <1>1, <1>2, <1>4, <1>8, <2>1
<1>9. CASE Kind(a) # Kind(b) /\ {Kind(a), Kind(b)} # {2, 3}
  <2>1. Tag(a) # Tag(b)
    BY <1>1, <1>2, <1>3, <1>9
  <2> QED
    BY <1>4, <1>9, <2>1
<1> QED
  BY <1>2, <1>5, <1>6, <1>7, <1>8, <1>9

-----------------------------------------------------------------------------
(* groupKey: the cells of a tuple. *)
LEMMA GroupCellsLength ==
    ASSUME NEW v \in Values
    PROVE  /\ GroupCells(v) \in Seq(Int) /\ Len(GroupCells(v)) \in Nat /\ Len(GroupCells(v)) >= 2
           /\ Len(GroupCells(v)) = IF GroupCells(v)[1] = TagS THEN GroupCells(v)[2] + 2 ELSE 2
<1>1. CASE v.type # TText \/ IsNull(v)
  <2>1. PICK g \in {TagN, TagI, TagF, TagB}, n \in Int : GroupCells(v) = <<g, n>>
    BY <1>1, GroupCellsPair
  <2>2. g # TagS /\ g \in Int
    BY DEF TagN, TagI, TagF, TagB, TagS
  <2> QED
    BY <2>1, <2>2
<1>2. CASE ~(v.type # TText \/ IsNull(v))
  <2>1. v.x \in DOMAIN Texts /\ GroupCells(v) = TextCells(v)
    BY <1>2, GroupCellsKinds DEF Ordinary, IsNumeric, TInt, TFloat, TText, TBool
  <2> QED
    BY <2>1, TextCellsFacts
<1> QED
  BY <1>1, <1>2

LEMMA ConcatFirst ==
    ASSUME NEW T, NEW s \in Seq(T), NEW t \in Seq(T)
    PROVE  \A n \in 1 .. Len(s) : (s \o t)[n] = s[n]
OBVIOUS

(* No value's cells are the beginning of another's: the length of a TEXT is
   written before its bytes. *)
LEMMA GroupCellsPrefixFree ==
    ASSUME NEW a \in Values, NEW b \in Values, NEW s \in Seq(Int), NEW t \in Seq(Int),
           GroupCells(a) \o s = GroupCells(b) \o t
    PROVE  GroupCells(a) = GroupCells(b) /\ s = t
<1> DEFINE c == GroupCells(a)
           d == GroupCells(b)
<1>1. /\ c \in Seq(Int) /\ Len(c) \in Nat /\ Len(c) >= 2
      /\ Len(c) = IF c[1] = TagS THEN c[2] + 2 ELSE 2
      /\ d \in Seq(Int) /\ Len(d) \in Nat /\ Len(d) >= 2
      /\ Len(d) = IF d[1] = TagS THEN d[2] + 2 ELSE 2
      /\ c \o s = d \o t
  BY GroupCellsLength
<1> HIDE DEF c, d
<1>2. \A n \in 1 .. Len(c) : (c \o s)[n] = c[n]
  BY <1>1, ConcatFirst, Zenon
<1>3. \A n \in 1 .. Len(d) : (d \o t)[n] = d[n]
  BY <1>1, ConcatFirst, Zenon
<1>4. c[1] = d[1] /\ c[2] = d[2]
  <2>1. 1 \in 1 .. Len(c) /\ 2 \in 1 .. Len(c) /\ 1 \in 1 .. Len(d) /\ 2 \in 1 .. Len(d)
    BY <1>1
  <2>2. (c \o s)[1] = c[1] /\ (c \o s)[2] = c[2] /\ (d \o t)[1] = d[1] /\ (d \o t)[2] = d[2]
    BY <1>2, <1>3, <2>1
  <2> QED
    BY <1>1, <2>2
<1>5. Len(c) = Len(d)
  BY <1>1, <1>4
<1>6. c = d
  <2>1. \A n \in 1 .. Len(c) : c[n] = d[n]
    BY <1>1, <1>2, <1>3, <1>5, Zenon
  <2> QED
    BY <1>1, <1>5, <2>1, SeqEqual
<1>7. s = t
  <2>1. c \o s = c \o t
    BY <1>1, <1>6
  <2> QED
    BY <1>1, <2>1, ConcatSimplifications
<1> QED
  BY <1>6, <1>7 DEF c, d

LEMMA ConcatShift ==
    ASSUME NEW p \in Seq(Int), NEW a \in Seq(Int), NEW x \in Seq(Int), NEW pa, pa = p \o a
    PROVE  pa \o x = p \o (a \o x) /\ a \o x \in Seq(Int)
BY ConcatAssociative

\* The last cells of two tuples can be taken off equal keys pv and qw.
PeelsOff(v, w, p, q, x, y, pv, qw) ==
    pv = p \o GroupCells(v) /\ qw = q \o GroupCells(w) /\ pv \o x = qw \o y =>
        \A r, s : r = GroupCells(v) \o x /\ s = GroupCells(w) \o y =>
              /\ r \in Seq(Int) /\ s \in Seq(Int) /\ p \o r = q \o s
              /\ r = s => x = y /\ GroupCells(v) = GroupCells(w)

LEMMA GroupCellsPeel ==
    ASSUME NEW v \in Values, NEW w \in Values, NEW p \in Seq(Int), NEW q \in Seq(Int),
           NEW x \in Seq(Int), NEW y \in Seq(Int), NEW pv, NEW qw
    PROVE  PeelsOff(v, w, p, q, x, y, pv, qw)
<1> SUFFICES ASSUME pv = p \o GroupCells(v), qw = q \o GroupCells(w), pv \o x = qw \o y,
                    NEW r, NEW s, r = GroupCells(v) \o x, s = GroupCells(w) \o y
             PROVE  /\ r \in Seq(Int) /\ s \in Seq(Int) /\ p \o r = q \o s
                    /\ r = s => x = y /\ GroupCells(v) = GroupCells(w)
  BY DEF PeelsOff
<1>1. PICK a \in Seq(Int) : a = GroupCells(v)
  BY GroupCellsLength
<1>2. PICK b \in Seq(Int) : b = GroupCells(w)
  BY GroupCellsLength
<1>0. p \in Seq(Int) /\ a \in Seq(Int) /\ x \in Seq(Int) /\ q \in Seq(Int) /\ b \in Seq(Int) /\ y \in Seq(Int)
  OBVIOUS
<1>3. a \o x = b \o y => x = y /\ a = b
  <2> SUFFICES ASSUME a \o x = b \o y PROVE x = y /\ a = b
    OBVIOUS
  <2>1. GroupCells(v) \o x = GroupCells(w) \o y /\ v \in Values /\ w \in Values
    BY <1>1, <1>2
  <2>2. x = y /\ GroupCells(v) = GroupCells(w)
    BY ONLY <1>0, <2>1, GroupCellsPrefixFree
  <2> QED
    BY <1>1, <1>2, <2>2
<1>8. pv = p \o a /\ qw = q \o b
  BY <1>1, <1>2, Zenon
<1>4. pv \o x = p \o (a \o x) /\ a \o x \in Seq(Int)
  BY ONLY <1>0, <1>8, ConcatShift, SMT
<1>5. qw \o y = q \o (b \o y) /\ b \o y \in Seq(Int)
  BY ONLY <1>0, <1>8, ConcatShift, SMT
<1>6. r = a \o x /\ s = b \o y
  BY <1>1, <1>2
<1>7. r \in Seq(Int) /\ s \in Seq(Int) /\ p \o r = q \o s
  BY <1>4, <1>5, <1>6
<1>9. r = s => x = y /\ GroupCells(v) = GroupCells(w)
  BY <1>1, <1>2, <1>3, <1>6
<1> QED
  BY <1>7, <1>9

\* The cells of a tuple, one sequence each.
TupleCells(values) == [n \in DOMAIN values |-> GroupCells(values[n])]

LEMMA TupleCellsFacts ==
    ASSUME NEW t \in Seq(Values)
    PROVE  /\ TupleCells(t) \in Seq(Seq(Int)) /\ Len(TupleCells(t)) = Len(t)
           /\ \A n \in 1 .. Len(t) : TupleCells(t)[n] = GroupCells(t[n]) /\ t[n] \in Values
           /\ GroupKey(t) = FlattenSeq(TupleCells(t))
<1> DEFINE S == Seq(Int)
<1>1. Len(t) \in Nat /\ DOMAIN t = 1 .. Len(t) /\ \A n \in 1 .. Len(t) : t[n] \in Values
  BY SeqElements
<1>2. \A n \in 1 .. Len(t) : GroupCells(t[n]) \in S
  BY <1>1, GroupCellsLength
<1>3. TupleCells(t) = [n \in 1 .. Len(t) |-> GroupCells(t[n])]
  BY <1>1 DEF TupleCells
<1> HIDE DEF S
<1>4. TupleCells(t) \in [1 .. Len(t) -> S]
  BY <1>2, <1>3
<1>5. TupleCells(t) \in Seq(S) /\ Len(TupleCells(t)) = Len(t)
  BY <1>1, <1>4, FunctionIsSeq
<1>6. GroupKey(t) = FlattenSeq(TupleCells(t))
  BY DEF GroupKey, TupleCells
<1> QED
  BY <1>1, <1>3, <1>5, <1>6 DEF S

(* exec.groupKey on tuples of one length is canonical and free of collisions,
   whatever bytes the TEXTs in them hold. *)
THEOREM GroupKeyAgrees ==
    ASSUME NEW t \in Seq(Values), NEW u \in Seq(Values), Len(t) = Len(u)
    PROVE  GroupKey(t) = GroupKey(u) <=> \A n \in DOMAIN t : SameGroup(t[n], u[n])
<1> DEFINE c == TupleCells(t)
           d == TupleCells(u)
           len == Len(t)
           S == Seq(Int)
<1>1. /\ len \in Nat /\ DOMAIN t = 1 .. len /\ Len(c) = len /\ Len(d) = len
      /\ c \in Seq(Seq(Int)) /\ d \in Seq(Seq(Int))
      /\ \A n \in 1 .. len : /\ c[n] = GroupCells(t[n]) /\ t[n] \in Values
                             /\ d[n] = GroupCells(u[n]) /\ u[n] \in Values
      /\ GroupKey(t) = FlattenSeq(c) /\ GroupKey(u) = FlattenSeq(d)
  BY TupleCellsFacts, SeqElements
<1>2. (\A n \in DOMAIN t : SameGroup(t[n], u[n])) <=> \A n \in 1 .. len : c[n] = d[n]
  <2>1. \A n \in 1 .. len : SameGroup(t[n], u[n]) <=> c[n] = d[n]
    <3> TAKE n \in 1 .. len
    <3>1. c[n] = GroupCells(t[n]) /\ t[n] \in Values /\ d[n] = GroupCells(u[n]) /\ u[n] \in Values
      BY <1>1
    <3> QED
      BY <3>1, GroupCellsAgree
  <2>2. DOMAIN t = 1 .. len
    BY <1>1
  <2> HIDE DEF c, d, len
  <2> QED
    BY <2>1, <2>2, Zenon
<1> HIDE DEF c, d, len
<1>3. ASSUME \A n \in 1 .. len : c[n] = d[n]
      PROVE  FlattenSeq(c) = FlattenSeq(d)
  <2>1. c \in Seq(S) /\ d \in Seq(S)
    BY <1>1
  <2> HIDE DEF S
  <2>2. c = d
    BY <1>1, <1>3, <2>1, SeqEqual
  <2> QED
    BY <2>2
<1>4. ASSUME FlattenSeq(c) = FlattenSeq(d), len # 0
      PROVE  \A n \in 1 .. len : c[n] = d[n]
  <2>1. PICK f : /\ FlattenSeq(c) = f[len] /\ f[1] = c[1]
                 /\ \A i \in 2 .. len : f[i] = f[i - 1] \o c[i]
                 /\ \A i \in 1 .. len : f[i] \in Seq(Int)
    BY <1>1, <1>4, FlattenSteps, Zenon
  <2>2. PICK g : /\ FlattenSeq(d) = g[len] /\ g[1] = d[1]
                 /\ \A i \in 2 .. len : g[i] = g[i - 1] \o d[i]
                 /\ \A i \in 1 .. len : g[i] \in Seq(Int)
    BY <1>1, <1>4, FlattenSteps, Zenon
  <2> DEFINE Splits(n) == \A x, y \in Seq(Int) : f[n] \o x = g[n] \o y =>
                             x = y /\ \A m \in 1 .. n : c[m] = d[m]
             bad == {n \in 1 .. len : ~Splits(n)}
  <2>3. Splits(1)
    <3> SUFFICES ASSUME NEW x \in Seq(Int), NEW y \in Seq(Int), f[1] \o x = g[1] \o y
                 PROVE  x = y /\ \A m \in 1 .. 1 : c[m] = d[m]
      OBVIOUS
    <3>1. 1 \in 1 .. len
      BY <1>1, <1>4
    <3>2. GroupCells(t[1]) \o x = GroupCells(u[1]) \o y
      BY <1>1, <2>1, <2>2, <3>1
    <3>3. t[1] \in Values /\ u[1] \in Values
      BY <1>1, <3>1
    <3>4. x = y /\ GroupCells(t[1]) = GroupCells(u[1])
      BY <3>2, <3>3, GroupCellsPrefixFree, Zenon
    <3> QED
      BY <1>1, <3>1, <3>4
  <2>4. ASSUME NEW n \in 2 .. len, Splits(n - 1)
        PROVE  Splits(n)
    <3>1. n \in 1 .. len /\ n - 1 \in 1 .. len
      BY <1>1
    <3>2. /\ c[n] = GroupCells(t[n]) /\ d[n] = GroupCells(u[n])
          /\ t[n] \in Values /\ u[n] \in Values
      BY <1>1, <3>1
    <3>3. f[n - 1] \in Seq(Int) /\ g[n - 1] \in Seq(Int)
      BY <2>1, <2>2, <3>1, Zenon
    <3>4. f[n] = f[n - 1] \o c[n] /\ g[n] = g[n - 1] \o d[n]
      BY <2>1, <2>2
    <3>5. ASSUME NEW x \in Seq(Int), NEW y \in Seq(Int), f[n] \o x = g[n] \o y
          PROVE  x = y /\ \A m \in 1 .. n : c[m] = d[m]
      <4>1. PICK p \in Seq(Int), q \in Seq(Int) : p = f[n - 1] /\ q = g[n - 1]
        BY <3>3
      <4>2. f[n] = p \o GroupCells(t[n]) /\ g[n] = q \o GroupCells(u[n])
        BY <3>2, <3>4, <4>1, Zenon
      <4> HIDE DEF Splits, bad
      <4>8. PICK r, s : r = GroupCells(t[n]) \o x /\ s = GroupCells(u[n]) \o y
        OBVIOUS
      <4>3. /\ r \in Seq(Int) /\ s \in Seq(Int) /\ p \o r = q \o s
            /\ r = s => x = y /\ GroupCells(t[n]) = GroupCells(u[n])
        <5>1. /\ t[n] \in Values /\ u[n] \in Values /\ p \in Seq(Int) /\ q \in Seq(Int)
              /\ x \in Seq(Int) /\ y \in Seq(Int)
          BY <3>2
        <5>2. PeelsOff(t[n], u[n], p, q, x, y, f[n], g[n])
          BY ONLY <5>1, GroupCellsPeel
        <5> QED
          BY ONLY <3>5, <4>2, <4>8, <5>2 DEF PeelsOff
      <4>5. r = s /\ \A m \in 1 .. n - 1 : c[m] = d[m]
        <5>1. f[n - 1] \o r = g[n - 1] \o s
          BY <4>1, <4>3, Zenon
        <5>2. \A r1, s1 \in Seq(Int) : f[n - 1] \o r1 = g[n - 1] \o s1 =>
                 r1 = s1 /\ \A m \in 1 .. n - 1 : c[m] = d[m]
          BY <2>4, Zenon DEF Splits
        <5> QED
          BY ONLY <4>3, <5>1, <5>2
      <4>4. c[n] = d[n] /\ x = y
        BY ONLY <3>2, <4>3, <4>5
      <4>9. \A m \in 1 .. n : m = n \/ m \in 1 .. n - 1
        BY <1>1
      <4> QED
        BY ONLY <4>4, <4>5, <4>9, Zenon
    <3> QED
      BY <3>5
  <2>5. bad = {}
    <3> SUFFICES ASSUME bad # {} PROVE FALSE
      OBVIOUS
    <3>1. PICK n \in bad : \A m \in bad : n <= m
      <4>1. bad \subseteq Nat
        <5>1. 1 .. len \subseteq Nat
          BY <1>1
        <5> QED
          BY <5>1
      <4> HIDE DEF bad
      <4> QED
        BY <4>1, Smallest
    <3> HIDE DEF Splits
    <3>2. n \in 2 .. len /\ n - 1 \in 1 .. len /\ ~(n <= n - 1)
      BY <1>1, <2>3, <3>1
    <3> QED
      BY <2>4, <3>1, <3>2
  <2>6. Splits(len)
    <3> HIDE DEF Splits
    <3> QED
      BY <1>1, <1>4, <2>5
  <2>7. f[len] \in Seq(Int) /\ f[len] = g[len] /\ <<>> \in Seq(Int)
    <3>1. len \in 1 .. len
      BY <1>1, <1>4
    <3>2. f[len] \in Seq(Int) /\ f[len] = g[len]
      BY <1>4, <2>1, <2>2, <3>1, Zenon
    <3> QED
      BY <3>2, EmptySeq
  <2>8. f[len] \o <<>> = g[len] \o <<>>
    BY <2>7
  <2> QED
    BY <2>6, <2>7, <2>8
<1> QED
  BY <1>1, <1>2, <1>3, <1>4
=============================================================================
