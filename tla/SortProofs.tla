----------------------------- MODULE SortProofs -----------------------------
(***************************************************************************)
(* The sort operator hands out a permutation of its rows, NULLs together   *)
(* whatever the keys are, and in the stable order when no key is NaN.      *)
(***************************************************************************)
EXTENDS Sort, ValuesProofs

(* The comparator on two values of one column, when neither is NaN. *)
LEMMA NullAwareSign ==
    ASSUME NEW a \in Values, NEW b \in Values, Comparable(a, b), ~IsNaN(a), ~IsNaN(b)
    PROVE  /\ NullAwareCompare(a, b) \in Int
           /\ NullAwareCompare(a, b) < 0 <=> Below(a, b)
           /\ NullAwareCompare(a, b) > 0 <=> Below(b, a)
<1>1. CASE IsNull(a) \/ IsNull(b)
  BY <1>1 DEF NullAwareCompare, Below
<1>2. CASE ~IsNull(a) /\ ~IsNull(b)
  <2>1. Exact(a) \in Int /\ Exact(b) \in Int
    BY <1>2, OrdinaryShape DEF Ordinary
  <2>2. NullAwareCompare(a, b) = Sign(Exact(a), Exact(b))
    BY <1>2, CompareExact DEF NullAwareCompare, Ordinary, Known
  <2> QED
    BY <1>2, <2>1, <2>2 DEF Sign, Below
<1> QED
  BY <1>1, <1>2

(* Below is a strict weak order on the values other than NaN. *)
LEMMA BelowOrder ==
    ASSUME NEW a \in Values, NEW b \in Values, NEW c \in Values,
           ~IsNaN(a), ~IsNaN(b), ~IsNaN(c)
    PROVE  /\ ~(Below(a, b) /\ Below(b, a))
           /\ Below(a, b) /\ Below(b, c) => Below(a, c)
           /\ ~Below(a, b) /\ ~Below(b, c) => ~Below(a, c)
<1>1. /\ ~IsNull(a) => Exact(a) \in Int
      /\ ~IsNull(b) => Exact(b) \in Int
      /\ ~IsNull(c) => Exact(c) \in Int
  BY OrdinaryShape DEF Ordinary
<1> QED
  BY <1>1 DEF Below

-----------------------------------------------------------------------------
(* The keys of a row are values. *)
LEMMA KeyFacts ==
    ASSUME TypeOK, NEW r \in DOMAIN keys, NEW k \in DOMAIN desc
    PROVE  /\ KeyOf(keys[r][k]) \in Values
           /\ IsNull(KeyOf(keys[r][k])) <=> IsNull(keys[r][k])
           /\ ~IsNaN(keys[r][k]) => ~IsNaN(KeyOf(keys[r][k]))
<1>1. keys[r][k] \in Values \cup {NoValue}
  BY DEF TypeOK
<1>2. Int64(0) \in Values
  <2>1. 0 \in IntRange
    BY IntCutoffAssumption DEF IntRange
  <2> QED
    BY <2>1 DEF Values, IntValues
<1>3. ~IsNull(NoValue) /\ ~IsNull(Int64(0)) /\ ~IsNaN(Int64(0))
  BY DEF IsNull, IsNaN, NoValue, Int64
<1> QED
  BY <1>1, <1>2, <1>3 DEF KeyOf

(* What the invariant knows of the keys when none is NaN. *)
KeysOrdered == TypeOK /\ KeysComparable /\ NaNFree

\* The k-th key does not tell rows r and s apart.
Tie(k, r, s) == ~Above(k, r, s) /\ ~Above(k, s, r)

(* One key orders the rows weakly, and the comparator follows it. *)
LEMMA AboveOrder ==
    ASSUME KeysOrdered, NEW k \in DOMAIN desc,
           NEW r \in DOMAIN keys, NEW s \in DOMAIN keys, NEW t \in DOMAIN keys
    PROVE  /\ ~(Above(k, r, s) /\ Above(k, s, r))
           /\ Above(k, r, s) /\ Above(k, s, t) => Above(k, r, t)
           /\ ~Above(k, r, s) /\ ~Above(k, s, t) => ~Above(k, r, t)
           /\ KeyOrd(k, r, s) = 0 <=> Tie(k, r, s)
           /\ (IF desc[k] THEN KeyOrd(k, r, s) > 0 ELSE KeyOrd(k, r, s) < 0)
                 <=> Above(k, r, s)
<1> DEFINE a == KeyOf(keys[r][k])
           b == KeyOf(keys[s][k])
           c == KeyOf(keys[t][k])
<1>1. /\ a \in Values /\ b \in Values /\ c \in Values
      /\ ~IsNaN(a) /\ ~IsNaN(b) /\ ~IsNaN(c)
  BY KeyFacts DEF KeysOrdered, NaNFree
<1>2. Comparable(a, b)
  BY DEF KeysOrdered, KeysComparable
<1>3. /\ KeyOrd(k, r, s) \in Int
      /\ KeyOrd(k, r, s) < 0 <=> Below(a, b)
      /\ KeyOrd(k, r, s) > 0 <=> Below(b, a)
  BY <1>1, <1>2, NullAwareSign DEF KeyOrd
<1>4. /\ ~(Below(a, b) /\ Below(b, a))
      /\ Below(a, b) /\ Below(b, c) => Below(a, c)
      /\ ~Below(a, b) /\ ~Below(b, c) => ~Below(a, c)
      /\ Below(c, b) /\ Below(b, a) => Below(c, a)
      /\ ~Below(c, b) /\ ~Below(b, a) => ~Below(c, a)
  BY <1>1, BelowOrder
<1> HIDE DEF a, b, c
<1>5. CASE desc[k]
  <2>1. /\ Above(k, r, s) <=> Below(b, a)
        /\ Above(k, s, r) <=> Below(a, b)
        /\ Above(k, s, t) <=> Below(c, b)
        /\ Above(k, r, t) <=> Below(c, a)
    BY <1>5 DEF Above, a, b, c
  <2> QED
    BY <1>3, <1>4, <1>5, <2>1 DEF Tie
<1>6. CASE ~desc[k]
  <2>1. /\ Above(k, r, s) <=> Below(a, b)
        /\ Above(k, s, r) <=> Below(b, a)
        /\ Above(k, s, t) <=> Below(b, c)
        /\ Above(k, r, t) <=> Below(a, c)
    BY <1>6 DEF Above, a, b, c
  <2> QED
    BY <1>3, <1>4, <1>6, <2>1 DEF Tie
<1> QED
  BY <1>5, <1>6

-----------------------------------------------------------------------------
(* Rows are ordered by the first key that tells them apart. *)
FirstAbove(k, r, s) == Above(k, r, s) /\ \A m \in 1 .. k - 1 : Tie(m, r, s)

LEMMA FirstDifference ==
    ASSUME KeysOrdered, NEW r \in DOMAIN keys, NEW s \in DOMAIN keys
    PROVE  \/ \A k \in DOMAIN desc : Tie(k, r, s)
           \/ \E k \in DOMAIN desc : FirstAbove(k, r, s) \/ FirstAbove(k, s, r)
<1> DEFINE differ == {k \in DOMAIN desc : ~Tie(k, r, s)}
<1>1. Len(desc) \in Nat /\ DOMAIN desc = 1 .. Len(desc)
  BY DEF KeysOrdered, TypeOK
<1> SUFFICES ASSUME differ # {}
             PROVE  \E k \in DOMAIN desc : FirstAbove(k, r, s) \/ FirstAbove(k, s, r)
  OBVIOUS
<1>2. PICK k \in differ : \A m \in differ : k <= m
  <2>1. differ \subseteq Nat
    BY <1>1
  <2> HIDE DEF differ
  <2> QED
    BY <2>1, Smallest
<1>3. \A m \in 1 .. k - 1 : m \in DOMAIN desc /\ Tie(m, r, s) /\ Tie(m, s, r)
  BY <1>1, <1>2 DEF Tie
<1> QED
  BY <1>2, <1>3 DEF FirstAbove, Tie

(* Less compares by the first key that tells the rows apart. *)
LEMMA LessIffFirst ==
    ASSUME KeysOrdered, NEW r \in DOMAIN keys, NEW s \in DOMAIN keys
    PROVE  Less(r, s) <=> \E k \in DOMAIN desc : FirstAbove(k, r, s)
<1>1. Len(desc) \in Nat /\ DOMAIN desc = 1 .. Len(desc)
  BY DEF KeysOrdered, TypeOK
<1>2. \A k \in DOMAIN desc :
        /\ KeyOrd(k, r, s) = 0 <=> Tie(k, r, s)
        /\ (IF desc[k] THEN KeyOrd(k, r, s) > 0 ELSE KeyOrd(k, r, s) < 0)
              <=> Above(k, r, s)
  BY AboveOrder
<1>3. \A k \in DOMAIN desc : \A m \in 1 .. k - 1 : m \in DOMAIN desc
  BY <1>1
<1> QED
  BY <1>2, <1>3, Zenon DEF Less, FirstAbove

(* So does Precedes, which breaks ties by arrival. *)
LEMMA PrecedesIffFirst ==
    ASSUME KeysOrdered, NEW r \in DOMAIN keys, NEW s \in DOMAIN keys
    PROVE  Precedes(r, s) <=> \/ \E k \in DOMAIN desc : FirstAbove(k, r, s)
                              \/ (\A k \in DOMAIN desc : Tie(k, r, s)) /\ r < s
<1> DEFINE ahead  == {k \in DOMAIN desc : Above(k, r, s)}
           behind == {k \in DOMAIN desc : Above(k, s, r)}
           first  == Min(ahead \cup behind)
<1>1. Len(desc) \in Nat /\ DOMAIN desc = 1 .. Len(desc)
  BY DEF KeysOrdered, TypeOK
<1>2. Precedes(r, s) <=> IF ahead \cup behind = {} THEN r < s ELSE first \in ahead
  BY DEF Precedes
<1>3. ahead \cup behind = {} <=> \A k \in DOMAIN desc : Tie(k, r, s)
  BY DEF Tie
<1>4. ASSUME ahead \cup behind # {}
      PROVE  first \in ahead <=> \E k \in DOMAIN desc : FirstAbove(k, r, s)
  <2>1. /\ first \in ahead \cup behind
        /\ \A m \in ahead \cup behind : first <= m
    <3> DEFINE all == ahead \cup behind
    <3>1. all \subseteq Nat
      BY <1>1
    <3> HIDE DEF ahead, behind, all
    <3>2. \E x \in all : \A y \in all : x <= y
      BY <1>4, <3>1, Smallest DEF all
    <3> QED
      BY <3>2 DEF Min, all
  <2>2. ASSUME first \in ahead PROVE FirstAbove(first, r, s)
    <3>1. first \in DOMAIN desc /\ Above(first, r, s)
      BY <2>2
    <3> HIDE DEF first
    <3>2. \A m \in 1 .. first - 1 : m \in DOMAIN desc /\ ~(first <= m)
      BY <1>1, <3>1
    <3> QED
      BY <2>1, <3>1, <3>2 DEF FirstAbove, Tie
  <2>3. ASSUME NEW k \in DOMAIN desc, FirstAbove(k, r, s) PROVE first = k
    <3>1. k \in ahead
      BY <2>3 DEF FirstAbove
    <3>2. first <= k /\ first \in DOMAIN desc
      BY <2>1, <3>1
    <3>3. ~(first < k)
      BY <1>1, <2>1, <2>3 DEF FirstAbove, Tie
    <3> QED
      BY <1>1, <3>2, <3>3
  <2> QED
    BY <2>2, <2>3 DEF FirstAbove
<1> QED
  BY <1>2, <1>3, <1>4 DEF FirstAbove, Tie

LEMMA PrecedesTransitive ==
    ASSUME KeysOrdered, NEW r \in DOMAIN keys, NEW s \in DOMAIN keys, NEW t \in DOMAIN keys,
           Precedes(r, s), Precedes(s, t)
    PROVE  Precedes(r, t)
<1>0. /\ Len(desc) \in Nat /\ DOMAIN desc = 1 .. Len(desc)
      /\ r \in Int /\ s \in Int /\ t \in Int
  BY DEF KeysOrdered, TypeOK
<1>1. \A k \in DOMAIN desc :
        /\ Tie(k, r, s) /\ Tie(k, s, t) => Tie(k, r, t)
        /\ Tie(k, r, s) /\ Above(k, s, t) => Above(k, r, t)
        /\ Above(k, r, s) /\ Tie(k, s, t) => Above(k, r, t)
        /\ Above(k, r, s) /\ Above(k, s, t) => Above(k, r, t)
  <2> TAKE k \in DOMAIN desc
  <2>1. \A x, y, z \in DOMAIN keys :
          /\ ~(Above(k, x, y) /\ Above(k, y, x))
          /\ Above(k, x, y) /\ Above(k, y, z) => Above(k, x, z)
          /\ ~Above(k, x, y) /\ ~Above(k, y, z) => ~Above(k, x, z)
    BY AboveOrder
  <2> QED
    BY <2>1 DEF Tie
<1>2. /\ Precedes(r, s) <=> \/ \E k \in DOMAIN desc : FirstAbove(k, r, s)
                            \/ (\A k \in DOMAIN desc : Tie(k, r, s)) /\ r < s
      /\ Precedes(s, t) <=> \/ \E k \in DOMAIN desc : FirstAbove(k, s, t)
                            \/ (\A k \in DOMAIN desc : Tie(k, s, t)) /\ s < t
      /\ Precedes(r, t) <=> \/ \E k \in DOMAIN desc : FirstAbove(k, r, t)
                            \/ (\A k \in DOMAIN desc : Tie(k, r, t)) /\ r < t
  BY PrecedesIffFirst
<1>3. \A k \in DOMAIN desc : \A m \in 1 .. k - 1 : m \in DOMAIN desc
  BY <1>0
<1>4. CASE (\A k \in DOMAIN desc : Tie(k, r, s)) /\ r < s
  <2>1. CASE (\A k \in DOMAIN desc : Tie(k, s, t)) /\ s < t
    BY <1>0, <1>1, <1>2, <1>4, <2>1
  <2>2. CASE \E k \in DOMAIN desc : FirstAbove(k, s, t)
    BY <1>1, <1>2, <1>3, <1>4, <2>2 DEF FirstAbove
  <2> QED
    BY <1>2, <2>1, <2>2
<1>5. ASSUME NEW k \in DOMAIN desc, FirstAbove(k, r, s) PROVE Precedes(r, t)
  <2>1. CASE \A l \in DOMAIN desc : Tie(l, s, t)
    BY <1>1, <1>2, <1>3, <1>5, <2>1 DEF FirstAbove
  <2>2. ASSUME NEW l \in DOMAIN desc, FirstAbove(l, s, t) PROVE Precedes(r, t)
    <3>1. CASE k < l
      <4>1. Tie(k, s, t) /\ \A m \in 1 .. k - 1 : Tie(m, s, t)
        BY <1>0, <2>2, <3>1 DEF FirstAbove
      <4> QED
        BY <1>1, <1>2, <1>3, <1>5, <4>1 DEF FirstAbove
    <3>2. CASE k = l
      BY <1>1, <1>2, <1>3, <1>5, <2>2, <3>2 DEF FirstAbove
    <3>3. CASE l < k
      <4>1. Tie(l, r, s) /\ \A m \in 1 .. l - 1 : Tie(m, r, s)
        BY <1>0, <1>5, <3>3 DEF FirstAbove
      <4> QED
        BY <1>1, <1>2, <1>3, <2>2, <4>1 DEF FirstAbove
    <3> QED
      BY <1>0, <3>1, <3>2, <3>3
  <2> QED
    BY <1>2, <2>1, <2>2
<1> QED
  BY <1>2, <1>4, <1>5

-----------------------------------------------------------------------------
(* What one comparison of the insertion sort establishes, and what it builds
   on: InOrder is transitive, and Less decides it. *)
LEMMA InOrderTransitive ==
    ASSUME TypeOK, KeysComparable,
           NEW r \in DOMAIN keys, NEW s \in DOMAIN keys, NEW t \in DOMAIN keys,
           InOrder(r, s), InOrder(s, t)
    PROVE  InOrder(r, t)
<1>1. NullsInOrder(r, t)
  BY DEF InOrder, NullsInOrder
<1>2. NaNFree => Precedes(r, t)
  BY PrecedesTransitive DEF InOrder, KeysOrdered
<1> QED
  BY <1>1, <1>2 DEF InOrder

\* The comparator tells a NULL from a value by every key, NaN or not.
LEMMA KeyOrdNulls ==
    ASSUME TypeOK, NEW k \in DOMAIN desc, NEW r \in DOMAIN keys, NEW s \in DOMAIN keys
    PROVE  /\ IsNull(keys[r][k]) /\ ~IsNull(keys[s][k]) => KeyOrd(k, r, s) = -1
           /\ ~IsNull(keys[r][k]) /\ IsNull(keys[s][k]) => KeyOrd(k, r, s) = 1
BY KeyFacts DEF KeyOrd, NullAwareCompare

LEMMA LessInOrder ==
    ASSUME TypeOK, KeysComparable, NEW r \in DOMAIN keys, NEW s \in DOMAIN keys, Less(r, s)
    PROVE  InOrder(r, s)
<1>1. NullsInOrder(r, s)
  <2> SUFFICES ASSUME desc # <<>>
               PROVE  IF desc[1] THEN IsNull(keys[r][1]) => IsNull(keys[s][1])
                                 ELSE IsNull(keys[s][1]) => IsNull(keys[r][1])
    BY DEF NullsInOrder
  <2>1. Len(desc) \in Nat /\ DOMAIN desc = 1 .. Len(desc) /\ 1 \in DOMAIN desc
    BY DEF TypeOK
  <2>2. PICK k \in DOMAIN desc :
          /\ \A m \in 1 .. k - 1 : KeyOrd(m, r, s) = 0
          /\ IF desc[k] THEN KeyOrd(k, r, s) > 0 ELSE KeyOrd(k, r, s) < 0
    BY DEF Less
  <2>3. CASE k = 1
    BY <2>1, <2>2, <2>3, KeyOrdNulls
  <2>4. CASE k # 1
    <3>1. KeyOrd(1, r, s) = 0
      BY <2>1, <2>2, <2>4
    <3> QED
      BY <2>1, <3>1, KeyOrdNulls
  <2> QED
    BY <2>3, <2>4
<1>2. NaNFree => Precedes(r, s)
  BY LessIffFirst, PrecedesIffFirst DEF KeysOrdered
<1> QED
  BY <1>1, <1>2 DEF InOrder

LEMMA NotLessInOrder ==
    ASSUME TypeOK, KeysComparable, NEW r \in DOMAIN keys, NEW s \in DOMAIN keys,
           ~Less(s, r), r < s
    PROVE  InOrder(r, s)
<1>1. NullsInOrder(r, s)
  <2> SUFFICES ASSUME desc # <<>>
               PROVE  IF desc[1] THEN IsNull(keys[r][1]) => IsNull(keys[s][1])
                                 ELSE IsNull(keys[s][1]) => IsNull(keys[r][1])
    BY DEF NullsInOrder
  <2>1. Len(desc) \in Nat /\ DOMAIN desc = 1 .. Len(desc) /\ 1 \in DOMAIN desc
    BY DEF TypeOK
  <2>2. ~IF desc[1] THEN KeyOrd(1, s, r) > 0 ELSE KeyOrd(1, s, r) < 0
    BY <2>1 DEF Less
  <2> QED
    BY <2>1, <2>2, KeyOrdNulls
<1>2. ASSUME NaNFree PROVE Precedes(r, s)
  <2>1. ~\E k \in DOMAIN desc : FirstAbove(k, s, r)
    BY <1>2, LessIffFirst DEF KeysOrdered
  <2>2. \/ \A k \in DOMAIN desc : Tie(k, r, s)
        \/ \E k \in DOMAIN desc : FirstAbove(k, r, s)
    BY <1>2, <2>1, FirstDifference DEF KeysOrdered
  <2> QED
    BY <1>2, <2>2, PrecedesIffFirst DEF KeysOrdered
<1> QED
  BY <1>1, <1>2 DEF InOrder

-----------------------------------------------------------------------------
(* The keys do not change, so the order of the rows does not. *)
LEMMA QueryStays ==
    ASSUME UNCHANGED query
    PROVE  /\ \A r, s : InOrder(r, s)' <=> InOrder(r, s)
           /\ KeysComparable' <=> KeysComparable
           /\ keys' = keys /\ desc' = desc
<1>1. keys' = keys /\ desc' = desc
  BY DEF query
<1> QED
  BY <1>1 DEF InOrder, NullsInOrder, NaNFree, Precedes, Above, KeysComparable

LEMMA InitIInv == Init => IInv
<1> SUFFICES ASSUME Init PROVE IInv
  OBVIOUS
<1>1. /\ desc \in Seq(BOOLEAN)
      /\ keys \in Seq([DOMAIN desc -> Values \cup {NoValue}])
      /\ KeysComparable
  BY QueriesAssumption DEF Init, KeysComparable
<1>2. /\ pos = 0 /\ rows = <<>> /\ DOMAIN rows = {} /\ Len(rows) = 0 /\ out = <<>>
      /\ loaded = FALSE /\ outer = 0 /\ inner = 0 /\ i = 0 /\ frame = "idle" /\ done = FALSE
  BY DEF Init
<1>3. TypeOK
  <2>1. Len(keys) \in Nat /\ rows \in Seq(1 .. pos) /\ out \in Seq(1 .. pos)
    BY <1>1, <1>2, EmptySeq, LenProperties
  <2>2. pos \in 0 .. Len(keys) /\ outer \in 0 .. Len(keys) + 2 /\ inner \in 0 .. outer
    BY <1>2, <2>1
  <2>3. Len(rows) = pos /\ i \in 0 .. Len(rows) /\ Len(out) = i
    BY <1>2
  <2> QED
    BY <1>1, <1>2, <2>1, <2>2, <2>3 DEF TypeOK
<1> QED
  BY <1>1, <1>2, <1>3
     DEF IInv, Phases, RowsAreDistinct, SuffixUntouched, PrefixInOrder, AllInOrder

(* Where rows, out and the insertion's cursors live. *)
LEMMA RowFacts ==
    ASSUME TypeOK
    PROVE  /\ Len(keys) \in Nat /\ DOMAIN keys = 1 .. Len(keys)
           /\ pos \in Nat /\ pos <= Len(keys)
           /\ Len(rows) = pos /\ DOMAIN rows = 1 .. pos
           /\ \A n \in 1 .. pos : rows[n] \in 1 .. pos /\ rows[n] \in DOMAIN keys
           /\ i \in Nat /\ i <= pos /\ Len(out) = i /\ DOMAIN out = 1 .. i
           /\ outer \in Nat /\ inner \in Nat /\ inner <= outer
BY DEF TypeOK

LEMMA CallNextIInv == IInv /\ CallNext => IInv'
<1> SUFFICES ASSUME IInv, CallNext PROVE IInv'
  OBVIOUS
<1> USE DEF CallNext
<1>1. TypeOK'
  BY QueryStays DEF IInv, TypeOK
<1>2. KeysComparable' /\ Phases' /\ RowsAreDistinct'
  BY QueryStays DEF IInv, Phases, RowsAreDistinct
<1>3. SuffixUntouched' /\ PrefixInOrder'
  BY DEF IInv, SuffixUntouched, PrefixInOrder
<1>4. AllInOrder'
  BY QueryStays DEF IInv, AllInOrder
<1> QED
  BY <1>1, <1>2, <1>3, <1>4 DEF IInv

LEMMA LoadRowIInv == IInv /\ LoadRow => IInv'
<1> SUFFICES ASSUME IInv, LoadRow PROVE IInv'
  OBVIOUS
<1> USE DEF LoadRow
<1>0. /\ TypeOK /\ ~loaded /\ i = 0 /\ frame = "loading" /\ frame' = frame
      /\ Len(keys) \in Nat /\ pos \in Nat /\ pos + 1 \in 1 .. pos + 1
      /\ rows \in Seq(1 .. pos + 1)
  <2>1. TypeOK /\ ~loaded /\ i = 0
    BY DEF IInv, Phases
  <2>2. Len(keys) \in Nat /\ pos \in Nat /\ pos + 1 \in 1 .. pos + 1
    BY <2>1, RowFacts
  <2>3. 1 .. pos \subseteq 1 .. pos + 1 /\ rows \in Seq(1 .. pos)
    BY <2>1, <2>2 DEF TypeOK
  <2> QED
    BY <2>1, <2>2, <2>3, SeqWiden
<1>1. /\ rows' \in Seq(1 .. pos + 1) /\ DOMAIN rows' = 1 .. pos + 1
      /\ Len(rows') = pos + 1
      /\ \A n \in 1 .. pos : rows'[n] = rows[n]
      /\ rows'[pos + 1] = pos + 1
  BY <1>0, AppendFacts, RowFacts
<1>2. out = <<>> /\ out' = out /\ DOMAIN out = {}
  BY <1>0 DEF TypeOK
<1>3. TypeOK'
  BY <1>0, <1>1, <1>2, QueryStays DEF TypeOK
<1>4. \A n \in 1 .. pos : rows[n] = n
  BY <1>0, RowFacts DEF IInv, SuffixUntouched
<1>5. \A n \in DOMAIN rows' : rows'[n] = n
  BY <1>0, <1>1, <1>4
<1>6. KeysComparable' /\ Phases' /\ RowsAreDistinct'
  BY <1>0, <1>1, <1>2, <1>5, QueryStays DEF IInv, Phases, RowsAreDistinct
<1>7. SuffixUntouched' /\ PrefixInOrder' /\ AllInOrder'
  BY <1>0, <1>5 DEF SuffixUntouched, PrefixInOrder, AllInOrder
<1> QED
  BY <1>3, <1>6, <1>7 DEF IInv

LEMMA LoadEndIInv == IInv /\ LoadEnd => IInv'
<1> SUFFICES ASSUME IInv, LoadEnd PROVE IInv'
  OBVIOUS
<1> USE DEF LoadEnd
<1>0. /\ TypeOK /\ ~loaded /\ frame = "loading" /\ frame' = "sorting"
      /\ pos = Len(keys) /\ outer' = 2 /\ inner' = 2
  BY DEF IInv, Phases
<1>1. \A n \in DOMAIN rows : rows[n] = n
  BY <1>0 DEF IInv, SuffixUntouched
<1>2. TypeOK'
  BY <1>0, RowFacts, QueryStays DEF TypeOK
<1>3. KeysComparable' /\ Phases' /\ RowsAreDistinct'
  BY <1>0, QueryStays DEF IInv, Phases, RowsAreDistinct
<1>4. SuffixUntouched' /\ AllInOrder'
  BY <1>0, <1>1 DEF SuffixUntouched, AllInOrder
<1>5. PrefixInOrder'
  BY <1>0, <1>1, RowFacts DEF PrefixInOrder
<1> QED
  BY <1>2, <1>3, <1>4, <1>5 DEF IInv

LEMMA SortSwapIInv == IInv /\ SortSwap => IInv'
<1> SUFFICES ASSUME IInv, SortSwap PROVE IInv'
  OBVIOUS
<1> DEFINE left == rows[inner - 1]
           new  == rows[inner]
<1> USE DEF SortSwap, InsertMoves
<1>0. /\ TypeOK /\ KeysComparable /\ ~loaded /\ ~loaded' /\ frame = "sorting" /\ frame' = frame
      /\ pos \in Nat /\ outer \in 2 .. pos /\ inner \in 2 .. outer
      /\ outer' = outer /\ inner' = inner - 1
      /\ DOMAIN rows = 1 .. pos /\ Len(rows) = pos /\ pos' = pos
  BY RowFacts DEF IInv, Phases
<1>1. /\ rows' \in Seq(1 .. pos) /\ DOMAIN rows' = 1 .. pos /\ Len(rows') = pos
      /\ rows'[inner] = left /\ rows'[inner - 1] = new
      /\ \A n \in 1 .. pos : n # inner /\ n # inner - 1 => rows'[n] = rows[n]
  <2>1. inner \in 1 .. Len(rows) /\ inner - 1 \in 1 .. Len(rows)
        /\ left \in 1 .. pos /\ new \in 1 .. pos /\ rows \in Seq(1 .. pos)
    BY <1>0, RowFacts DEF TypeOK
  <2>2. rows' = [rows EXCEPT ![inner] = left, ![inner - 1] = new] /\ inner # inner - 1
    BY <1>0
  <2> HIDE DEF SortSwap, left, new
  <2>3. rows \in [1 .. pos -> 1 .. pos]
    BY <1>0, <2>1, SeqIsFunction
  <2>4. /\ rows' \in [1 .. pos -> 1 .. pos]
        /\ rows'[inner] = left /\ rows'[inner - 1] = new
        /\ \A n \in 1 .. pos : n # inner /\ n # inner - 1 => rows'[n] = rows[n]
    BY <1>0, <2>1, <2>2, <2>3
  <2> QED
    BY <1>0, <2>4, FunctionIsSeq
<1>2. /\ new = outer /\ left < outer
      /\ new \in DOMAIN keys /\ left \in DOMAIN keys
  BY <1>0, RowFacts DEF IInv, PrefixInOrder
<1>3. InOrder(new, left)
  BY <1>0, <1>2, LessInOrder
<1> HIDE DEF SortSwap, left, new
<1>4. UNCHANGED query /\ out' = out /\ i' = i /\ done' = done /\ loaded' = loaded
  BY DEF SortSwap
<1>5. TypeOK'
  BY <1>0, <1>1, <1>4, QueryStays DEF TypeOK
<1>6. KeysComparable' /\ Phases'
  BY <1>0, <1>1, <1>4, QueryStays DEF IInv, Phases
<1>7. RowsAreDistinct'
  <2>1. i = 0 /\ DOMAIN out = {}
    BY <1>0, RowFacts DEF IInv, Phases
  <2>2. \A m, n \in 1 .. pos : m # n => rows[m] # rows[n]
    BY <1>0 DEF IInv, RowsAreDistinct
  <2>3. \A m, n \in 1 .. pos : m # n => rows'[m] # rows'[n]
    BY <1>0, <1>1, <2>2 DEF left, new
  <2> QED
    BY <1>1, <1>4, <2>1, <2>3 DEF RowsAreDistinct
<1>8. SuffixUntouched' /\ AllInOrder'
  BY <1>0, <1>1 DEF IInv, SuffixUntouched, AllInOrder
<1>9. PrefixInOrder'
  <2>1. /\ \A n \in 1 .. pos : n <= outer /\ n # inner => rows[n] < outer
        /\ \A m, n \in 1 .. pos :
              m < n /\ n <= outer /\ m # inner /\ n # inner => InOrder(rows[m], rows[n])
        /\ \A n \in 1 .. pos : inner < n /\ n <= outer => InOrder(new, rows[n])
    BY <1>0 DEF IInv, PrefixInOrder, new
  <2>2. rows'[inner'] = outer
    BY <1>0, <1>1, <1>2
  <2>3. \A n \in 1 .. pos : n <= outer /\ n # inner - 1 => rows'[n] < outer
    BY <1>0, <1>1, <1>2, <2>1
  <2>4. ASSUME NEW m \in 1 .. pos, NEW n \in 1 .. pos,
               m < n, n <= outer, m # inner - 1, n # inner - 1
        PROVE  InOrder(rows'[m], rows'[n])
    <3>1. CASE m = inner
      BY <1>0, <1>1, <2>1, <2>4, <3>1 DEF left
    <3>2. CASE n = inner
      BY <1>0, <1>1, <2>1, <2>4, <3>2 DEF left
    <3>3. CASE m # inner /\ n # inner
      BY <1>1, <2>1, <2>4, <3>3
    <3> QED
      BY <3>1, <3>2, <3>3
  <2>5. ASSUME NEW n \in 1 .. pos, inner - 1 < n, n <= outer
        PROVE  InOrder(rows'[inner - 1], rows'[n])
    <3>1. CASE n = inner
      BY <1>1, <1>3, <3>1
    <3>2. CASE n # inner
      <4>1. inner < n /\ rows'[n] = rows[n]
        BY <1>0, <1>1, <2>5, <3>2
      <4> QED
        BY <1>1, <2>1, <2>5, <4>1
    <3> QED
      BY <3>1, <3>2
  <2> QED
    BY <1>0, <1>1, <1>4, <2>2, <2>3, <2>4, <2>5, QueryStays DEF PrefixInOrder
<1> QED
  BY <1>5, <1>6, <1>7, <1>8, <1>9 DEF IInv

LEMMA SortPlacedIInv == IInv /\ SortPlaced => IInv'
<1> SUFFICES ASSUME IInv, SortPlaced PROVE IInv'
  OBVIOUS
<1> DEFINE left == rows[inner - 1]
           new  == rows[inner]
<1> USE DEF SortPlaced
<1>0. /\ TypeOK /\ KeysComparable /\ ~loaded /\ frame = "sorting"
      /\ pos \in Nat /\ outer \in 2 .. pos /\ inner \in 1 .. outer
      /\ outer' = outer + 1 /\ inner' = outer + 1
      /\ DOMAIN rows = 1 .. pos /\ Len(rows) = pos /\ pos = Len(keys)
      /\ UNCHANGED <<query, pos, rows, loaded, i, frame, out, done>>
  BY RowFacts DEF IInv, Phases
<1>1. /\ new = outer
      /\ \A n \in 1 .. pos : n <= outer /\ n # inner => rows[n] < outer
      /\ \A m, n \in 1 .. pos :
            m < n /\ n <= outer /\ m # inner /\ n # inner => InOrder(rows[m], rows[n])
      /\ \A n \in 1 .. pos : inner < n /\ n <= outer => InOrder(new, rows[n])
      /\ \A n \in 1 .. pos : rows[n] \in DOMAIN keys
      /\ \A n \in 1 .. pos : n > outer => rows[n] = n
  <2>1. SuffixUntouched /\ PrefixInOrder /\ outer \in DOMAIN rows
    BY <1>0 DEF IInv
  <2>2. \A n \in 1 .. pos : rows[n] \in DOMAIN keys
    BY <1>0, RowFacts
  <2> QED
    BY <1>0, <2>1, <2>2 DEF PrefixInOrder, SuffixUntouched
<1>2. ASSUME NEW m \in 1 .. pos, m < inner PROVE InOrder(rows[m], new)
  <2>1. inner - 1 \in 1 .. pos /\ left < new /\ inner \in 1 .. pos
    BY <1>0, <1>1, <1>2
  <2>2. ~Less(new, left)
    BY <1>0, <1>2 DEF InsertMoves
  <2>3. InOrder(left, new)
    BY <1>0, <1>1, <2>1, <2>2, NotLessInOrder
  <2>4. m # inner - 1 => InOrder(rows[m], left)
    BY <1>0, <1>1, <1>2, <2>1
  <2> HIDE DEF left, new
  <2>5. rows[m] \in DOMAIN keys /\ left \in DOMAIN keys /\ new \in DOMAIN keys
    BY <1>1, <2>1 DEF left, new
  <2> QED
    BY <1>0, <2>3, <2>4, <2>5, InOrderTransitive DEF left
<1>3. \A m, n \in 1 .. pos : m < n /\ n <= outer => InOrder(rows[m], rows[n])
  BY <1>0, <1>1, <1>2
<1>4. TypeOK'
  <2>1. outer' \in 0 .. Len(keys) + 2 /\ inner' \in 0 .. outer'
    BY <1>0
  <2> QED
    BY <1>0, <2>1, QueryStays DEF TypeOK
<1>5. KeysComparable' /\ Phases' /\ RowsAreDistinct'
  BY <1>0, QueryStays DEF IInv, Phases, RowsAreDistinct
<1>6. SuffixUntouched' /\ AllInOrder'
  BY <1>0, <1>1 DEF SuffixUntouched, AllInOrder
<1>7. PrefixInOrder'
  <2>1. outer + 1 \in 1 .. pos => rows[outer + 1] = outer + 1
    BY <1>0, <1>1
  <2>2. \A n \in 1 .. pos : n <= outer + 1 /\ n # outer + 1 => n <= outer /\ rows[n] < outer + 1
    BY <1>0, <1>1
  <2>3. \A n \in 1 .. pos : ~(outer + 1 < n /\ n <= outer + 1)
    BY <1>0
  <2> QED
    BY <1>0, <1>3, <2>1, <2>2, <2>3, QueryStays DEF PrefixInOrder
<1> QED
  BY <1>4, <1>5, <1>6, <1>7 DEF IInv

LEMMA SortEndIInv == IInv /\ SortEnd => IInv'
<1> SUFFICES ASSUME IInv, SortEnd PROVE IInv'
  OBVIOUS
<1> USE DEF SortEnd
<1>0. /\ TypeOK /\ ~loaded /\ frame = "sorting" /\ pos = Len(keys)
      /\ pos \in Nat /\ outer \in Nat /\ outer > pos /\ inner = outer
      /\ DOMAIN rows = 1 .. pos
  BY RowFacts DEF IInv, Phases
<1>1. \A m, n \in DOMAIN rows : m < n => InOrder(rows[m], rows[n])
  BY <1>0 DEF IInv, PrefixInOrder
<1>2. TypeOK'
  BY <1>0, QueryStays DEF TypeOK
<1>3. KeysComparable' /\ Phases' /\ RowsAreDistinct'
  BY <1>0, QueryStays DEF IInv, Phases, RowsAreDistinct
<1>4. SuffixUntouched' /\ PrefixInOrder'
  BY DEF SuffixUntouched, PrefixInOrder
<1>5. AllInOrder'
  BY <1>1, QueryStays DEF AllInOrder
<1> QED
  BY <1>2, <1>3, <1>4, <1>5 DEF IInv

LEMMA EmitIInv == IInv /\ Emit => IInv'
<1> SUFFICES ASSUME IInv, Emit PROVE IInv'
  OBVIOUS
<1> USE DEF Emit
<1>0. /\ TypeOK /\ loaded /\ pos = Len(keys) /\ pos \in Nat /\ i \in Nat /\ i + 1 \in 1 .. pos
      /\ DOMAIN rows = 1 .. pos /\ Len(rows) = pos /\ Len(out) = i /\ ~done
      /\ out \in Seq(1 .. pos) /\ rows[i + 1] \in 1 .. pos
  BY RowFacts DEF IInv, Phases, TypeOK
<1>1. /\ out' \in Seq(1 .. pos) /\ Len(out') = i + 1 /\ DOMAIN out' = 1 .. i + 1
      /\ \A n \in 1 .. i : out'[n] = out[n]
      /\ out'[i + 1] = rows[i + 1]
  BY <1>0, AppendFacts
<1>2. TypeOK'
  BY <1>0, <1>1, QueryStays DEF TypeOK
<1>3. KeysComparable' /\ Phases'
  BY <1>0, QueryStays DEF IInv, Phases
<1>4. RowsAreDistinct'
  <2>1. \A n \in 1 .. i + 1 : out'[n] = rows[n]
    <3>1. \A n \in 1 .. i : out[n] = rows[n]
      BY <1>0, RowFacts DEF IInv, RowsAreDistinct
    <3> QED
      BY <1>0, <1>1, <3>1
  <2> QED
    BY <1>1, <2>1 DEF IInv, RowsAreDistinct
<1>5. SuffixUntouched' /\ PrefixInOrder'
  BY <1>0 DEF SuffixUntouched, PrefixInOrder
<1>6. AllInOrder'
  BY QueryStays DEF IInv, AllInOrder
<1> QED
  BY <1>2, <1>3, <1>4, <1>5, <1>6 DEF IInv

LEMMA EmitEndIInv == IInv /\ EmitEnd => IInv'
<1> SUFFICES ASSUME IInv, EmitEnd PROVE IInv'
  OBVIOUS
<1> USE DEF EmitEnd
<1>0. TypeOK /\ loaded /\ i = Len(rows)
  BY RowFacts DEF IInv, Phases
<1>1. TypeOK'
  BY <1>0, QueryStays DEF TypeOK
<1>2. KeysComparable' /\ Phases' /\ RowsAreDistinct'
  BY <1>0, QueryStays DEF IInv, Phases, RowsAreDistinct
<1>3. SuffixUntouched' /\ PrefixInOrder'
  BY <1>0 DEF SuffixUntouched, PrefixInOrder
<1>4. AllInOrder'
  BY QueryStays DEF IInv, AllInOrder
<1> QED
  BY <1>1, <1>2, <1>3, <1>4 DEF IInv

\* Every turn of load, of the insertion sort and of Next keeps the invariant.
THEOREM NextIInv == IInv /\ [Next]_vars => IInv'
<1> SUFFICES ASSUME IInv, [Next]_vars PROVE IInv'
  OBVIOUS
<1>1. CASE UNCHANGED vars
  <2>1. UNCHANGED <<keys, desc, pos, rows, loaded, outer, inner, i, frame, out, done>>
    BY <1>1 DEF vars
  <2> QED
    BY <2>1, QueryStays
       DEF IInv, TypeOK, Phases, RowsAreDistinct, SuffixUntouched, PrefixInOrder, AllInOrder, query
<1> QED
  BY <1>1, CallNextIInv, LoadRowIInv, LoadEndIInv, SortSwapIInv, SortPlacedIInv,
     SortEndIInv, EmitIInv, EmitEndIInv DEF Next, Load

(* The inductive invariant holds in every reachable state. *)
THEOREM SortInvariant == Spec => []IInv
<1>1. Init => IInv
  BY InitIInv
<1>2. IInv /\ [Next]_vars => IInv'
  BY NextIInv
<1> QED
  BY <1>1, <1>2, PTL DEF Spec

(* exec.Sort loses and repeats no row, whatever its keys are: NaN, NULL, failing
   expressions, any number of keys and rows. *)
THEOREM SortLosesNoRow == Spec => []NoRowLost
<1>1. IInv => NoRowLost
  BY RowFacts DEF IInv, NoRowLost, RowsAreDistinct, Phases
<1> QED
  BY <1>1, SortInvariant, PTL

\* What has been handed out is a prefix of the sorted rows.
LEMMA OutputInOrder ==
    ASSUME IInv, NEW m \in DOMAIN out, NEW n \in DOMAIN out, m < n
    PROVE  InOrder(out[m], out[n])
<1>1. loaded
  BY RowFacts DEF IInv, Phases
<1>2. m \in DOMAIN rows /\ n \in DOMAIN rows
  BY RowFacts DEF IInv
<1> QED
  BY <1>1, <1>2 DEF IInv, RowsAreDistinct, AllInOrder

(* Without NaN keys, exec.Sort hands its rows out in the stable order of ORDER
   BY: the insertion sort and its comparator agree with the order of the values. *)
THEOREM SortIsStable == Spec => []StablySorted
<1>1. IInv => StablySorted
  BY OutputInOrder DEF StablySorted, InOrder
<1> QED
  BY <1>1, SortInvariant, PTL

(* On the leading key NULLs stay together at their end, even among NaNs. *)
THEOREM SortKeepsNullsTogether == Spec => []NullsTogether
<1>1. IInv => NullsTogether
  BY OutputInOrder DEF NullsTogether, InOrder, NullsInOrder
<1> QED
  BY <1>1, SortInvariant, PTL

(* The doc comment of Sort, which NaN keys refute, holds without them. *)
THEOREM SortedWithoutNaN == Spec => [](NaNFree => SortedOutput)
<1>1. IInv => (NaNFree => SortedOutput)
  <2> SUFFICES ASSUME IInv, NaNFree, NEW m \in DOMAIN out, NEW n \in DOMAIN out, m < n
               PROVE  ~Less(out[n], out[m])
    BY DEF SortedOutput
  <2>1. KeysOrdered /\ out[m] \in DOMAIN keys /\ out[n] \in DOMAIN keys
    <3>1. rows[m] \in DOMAIN keys /\ rows[n] \in DOMAIN keys
      BY RowFacts DEF IInv
    <3> QED
      BY <3>1 DEF IInv, KeysOrdered, RowsAreDistinct
  <2>2. Precedes(out[m], out[n])
    BY OutputInOrder DEF InOrder
  <2> SUFFICES ASSUME Less(out[n], out[m]) PROVE FALSE
    OBVIOUS
  <2>3. Precedes(out[n], out[m])
    BY <2>1, LessIffFirst, PrecedesIffFirst
  <2>4. Precedes(out[m], out[m])
    BY <2>1, <2>2, <2>3, PrecedesTransitive
  <2>5. ~Precedes(out[m], out[m])
    <3>1. \A k \in DOMAIN desc : ~Above(k, out[m], out[m])
      BY <2>1, AboveOrder
    <3>2. ~(out[m] < out[m])
      BY <2>1 DEF KeysOrdered, TypeOK
    <3> QED
      BY <2>1, <3>1, <3>2, PrecedesIffFirst DEF FirstAbove
  <2> QED
    BY <2>4, <2>5
<1> QED
  BY <1>1, SortInvariant, PTL
=============================================================================
