--------------------------- MODULE HashJoinProofs ---------------------------
(***************************************************************************)
(* The hash join keeps its inductive invariant, and with it returns what a *)
(* nested-loop join returns.                                               *)
(***************************************************************************)
EXTENDS HashJoin, ValuesProofs

LEMMA InitTypes ==
    ASSUME Init
    PROVE  leftRows \in Seq(RowValues) /\ rightRows \in Seq(RowValues)
BY InputsAssumption DEF Init

\* Before the first call of Next nothing is read, indexed or returned.
THEOREM InitIInv == Init => IInv
<1> SUFFICES ASSUME Init PROVE IInv
  OBVIOUS
<1>1. TypeOK
  <2>1. DOMAIN table = {}
    BY DEF Init, Empty
  <2>2. Len(leftRows) \in Nat /\ Len(rightRows) \in Nat
    BY InitTypes
  <2>3. matches \in Seq(1 .. Len(rightRows)) /\ Len(matches) = 0 /\ at = 0
        /\ out \in Seq((1 .. Len(leftRows)) \X (1 .. Len(rightRows)))
    BY DEF Init
  <2>4. /\ leftPos = 0 /\ rightPos = 0 /\ probe = 0
        /\ built = FALSE /\ done = FALSE /\ frame = "idle"
    BY DEF Init
  <2>5. /\ leftPos \in 0 .. Len(leftRows) /\ rightPos \in 0 .. Len(rightRows)
        /\ probe \in 0 .. leftPos /\ at \in 0 .. Len(matches)
    BY <2>2, <2>3, <2>4
  <2>6. DOMAIN table \subseteq Keys /\ \A k \in DOMAIN table : table[k] \in Seq(1 .. rightPos)
    BY <2>1
  <2> QED
    BY <2>3, <2>4, <2>5, <2>6, InitTypes DEF TypeOK
<1>2. TableIsIndex
  BY DEF Init, TableIsIndex, Empty
<1>3. BuildComesFirst
  BY DEF Init, BuildComesFirst
<1>4. ProbeIsCurrent
  BY InitTypes DEF Init, ProbeIsCurrent
<1>5. OutputIsPassed
  BY InitTypes DEF Init, OutputIsPassed, Passed, KeysMeet
<1> QED
  BY <1>1, <1>2, <1>3, <1>4, <1>5 DEF IInv

-----------------------------------------------------------------------------
(* Calls and returns that move no data. *)
LEMMA CallNextIInv == IInv /\ CallNext => IInv'
<1> SUFFICES ASSUME IInv, CallNext PROVE IInv'
  OBVIOUS
<1> USE DEF CallNext, inputs
<1>1. TypeOK'
  BY DEF IInv, TypeOK
<1>2. TableIsIndex'
  BY DEF IInv, TableIsIndex
<1>3. BuildComesFirst'
  BY DEF IInv, BuildComesFirst, TypeOK
<1>4. ProbeIsCurrent'
  BY DEF IInv, ProbeIsCurrent
<1>5. OutputIsPassed'
  BY DEF IInv, OutputIsPassed, Passed, KeysMeet
<1> QED
  BY <1>1, <1>2, <1>3, <1>4, <1>5 DEF IInv

LEMMA ProbeEndIInv == IInv /\ ProbeEnd => IInv'
<1> SUFFICES ASSUME IInv, ProbeEnd PROVE IInv'
  OBVIOUS
<1> USE DEF ProbeEnd, inputs
<1>1. TypeOK'
  BY DEF IInv, TypeOK
<1>2. TableIsIndex'
  BY DEF IInv, TableIsIndex
<1>3. BuildComesFirst'
  BY DEF IInv, BuildComesFirst, TypeOK
<1>4. ProbeIsCurrent'
  BY DEF IInv, ProbeIsCurrent, TypeOK
<1>5. OutputIsPassed'
  BY DEF IInv, OutputIsPassed, Passed, KeysMeet
<1> QED
  BY <1>1, <1>2, <1>3, <1>4, <1>5 DEF IInv

LEMMA BuildEndIInv == IInv /\ BuildEnd => IInv'
<1> SUFFICES ASSUME IInv, BuildEnd PROVE IInv'
  OBVIOUS
<1> USE DEF BuildEnd, inputs
<1>1. TypeOK'
  BY DEF IInv, TypeOK
<1>2. TableIsIndex'
  BY DEF IInv, TableIsIndex
<1>3. BuildComesFirst'
  BY DEF IInv, BuildComesFirst
<1>4. ProbeIsCurrent'
  BY DEF IInv, ProbeIsCurrent
<1>5. OutputIsPassed'
  BY DEF IInv, OutputIsPassed, Passed, KeysMeet
<1> QED
  BY <1>1, <1>2, <1>3, <1>4, <1>5 DEF IInv

-----------------------------------------------------------------------------
(* Building. *)
LEMMA BuildDropIInv == IInv /\ BuildDrop => IInv'
<1> SUFFICES ASSUME IInv, BuildDrop PROVE IInv'
  OBVIOUS
<1> USE DEF BuildDrop, inputs
<1>0. rightPos \in Nat /\ Len(rightRows) \in Nat /\ rightPos + 1 \in 1 .. Len(rightRows)
  BY DEF IInv, TypeOK
<1>1. TypeOK'
  <2>1. \A k \in DOMAIN table : table[k] \in Seq(1 .. rightPos + 1)
    BY <1>0 DEF IInv, TypeOK
  <2> QED
    BY <1>0, <2>1 DEF IInv, TypeOK
<1>2. TableIsIndex'
  BY <1>0 DEF IInv, TableIsIndex
<1>3. BuildComesFirst'
  BY DEF IInv, BuildComesFirst
<1>4. ProbeIsCurrent'
  BY DEF IInv, ProbeIsCurrent
<1>5. OutputIsPassed'
  BY DEF IInv, OutputIsPassed, Passed, KeysMeet
<1> QED
  BY <1>1, <1>2, <1>3, <1>4, <1>5 DEF IInv

LEMMA BuildKeepIInv == IInv /\ BuildKeep => IInv'
<1> SUFFICES ASSUME IInv, BuildKeep PROVE IInv'
  OBVIOUS
<1> DEFINE r == rightPos + 1
           k == RowKey(rightRows[r])
<1> USE DEF BuildKeep, inputs
<1>0. rightPos \in Nat /\ Len(rightRows) \in Nat /\ r \in 1 .. Len(rightRows)
  BY DEF IInv, TypeOK
<1>a. /\ DOMAIN table' = DOMAIN table \cup {k}
      /\ table'[k] = Append(Lookup(table, k), r)
      /\ \A c \in DOMAIN table : c # k => table'[c] = table[c]
  BY DEF Insert
<1>b. /\ Lookup(table, k) \in Seq(1 .. rightPos)
      /\ \A n \in DOMAIN Lookup(table, k) : RowKey(rightRows[Lookup(table, k)[n]]) = k
      /\ \A m, n \in DOMAIN Lookup(table, k) :
            m < n => Lookup(table, k)[m] < Lookup(table, k)[n]
  <2>1. CASE k \in DOMAIN table
    BY <2>1 DEF Lookup, IInv, TypeOK, TableIsIndex
  <2>2. CASE k \notin DOMAIN table
    BY <2>2 DEF Lookup
  <2> QED
    BY <2>1, <2>2
<1>c. r \in 1 .. r /\ 1 .. rightPos \subseteq 1 .. r
  BY <1>0
<1>d. Lookup(table, k) \in Seq(1 .. r)
  <2> DEFINE s == Lookup(table, k)
  <2>1. s \in Seq(1 .. rightPos)
    BY <1>b
  <2> HIDE DEF s, r
  <2> QED
    BY <1>c, <2>1, SeqWiden DEF s
<1>1. TypeOK'
  <2>1. k \in Keys
    BY <1>0 DEF Keys, IInv, TypeOK
  <2>2. ASSUME NEW c \in DOMAIN table' PROVE table'[c] \in Seq(1 .. r)
    <3>1. CASE c = k
      BY <1>a, <1>c, <1>d, <3>1, AppendFacts
    <3>2. CASE c # k
      <4>1. c \in DOMAIN table /\ table'[c] = table[c]
        BY <1>a, <3>2
      <4>2. table[c] \in Seq(1 .. rightPos)
        BY <4>1 DEF IInv, TypeOK
      <4> QED
        BY <1>c, <4>1, <4>2, SeqWiden
    <3> QED
      BY <3>1, <3>2
  <2> QED
    BY <1>0, <1>a, <2>1, <2>2 DEF IInv, TypeOK
<1>2. TableIsIndex'
  <2> DEFINE s == Lookup(table, k)
  <2>0. /\ s \in Seq(1 .. rightPos) /\ Len(s) \in Nat
        /\ Append(s, r) \in Seq(1 .. r)
        /\ DOMAIN Append(s, r) = 1 .. Len(s) + 1
        /\ \A n \in 1 .. Len(s) : Append(s, r)[n] = s[n] /\ n \in DOMAIN s /\ s[n] \in 1 .. rightPos
        /\ Append(s, r)[Len(s) + 1] = r
    <3>1. s \in Seq(1 .. rightPos) /\ s \in Seq(1 .. r) /\ r \in 1 .. r
      BY <1>b, <1>c, <1>d
    <3> HIDE DEF s, r
    <3>2. \A n \in 1 .. Len(s) : s[n] \in 1 .. rightPos
      BY <3>1, SeqElements
    <3>3. /\ Append(s, r) \in Seq(1 .. r)
          /\ Len(s) \in Nat /\ DOMAIN s = 1 .. Len(s)
          /\ DOMAIN Append(s, r) = 1 .. Len(s) + 1
          /\ \A n \in 1 .. Len(s) : Append(s, r)[n] = s[n]
          /\ Append(s, r)[Len(s) + 1] = r
      BY <3>1, AppendFacts
    <3> QED
      BY <3>1, <3>2, <3>3
  <2>1. ASSUME NEW c \in DOMAIN table'
        PROVE  /\ \A n \in DOMAIN table'[c] : RowKey(rightRows[table'[c][n]]) = c
               /\ \A m, n \in DOMAIN table'[c] : m < n => table'[c][m] < table'[c][n]
    <3>1. CASE c # k
      BY <1>a, <2>1, <3>1 DEF IInv, TableIsIndex
    <3>2. CASE c = k
      <4>1. ASSUME NEW n \in DOMAIN Append(s, r)
            PROVE  RowKey(rightRows[Append(s, r)[n]]) = k
        BY <1>b, <2>0
      <4>2. ASSUME NEW m \in DOMAIN Append(s, r), NEW n \in DOMAIN Append(s, r), m < n
            PROVE  Append(s, r)[m] < Append(s, r)[n]
        <5>1. CASE n = Len(s) + 1
          BY <1>0, <2>0, <4>2, <5>1
        <5>2. CASE n \in 1 .. Len(s)
          BY <1>b, <2>0, <4>2, <5>2
        <5> QED
          BY <2>0, <5>1, <5>2
      <4> QED
        BY <1>a, <3>2, <4>1, <4>2
    <3> QED
      BY <3>1, <3>2
  <2>2. ASSUME NEW q \in 1 .. r, RowKey(rightRows[q]) # NoKey
        PROVE  /\ RowKey(rightRows[q]) \in DOMAIN table'
               /\ \E n \in DOMAIN table'[RowKey(rightRows[q])] :
                     table'[RowKey(rightRows[q])][n] = q
    <3>1. CASE q = r
      BY <1>a, <2>0, <3>1
    <3>2. CASE q # r
      <4>1. q \in 1 .. rightPos
        BY <1>0, <3>2
      <4>2. PICK n \in DOMAIN table[RowKey(rightRows[q])] : table[RowKey(rightRows[q])][n] = q
        BY <2>2, <4>1 DEF IInv, TableIsIndex
      <4>3. RowKey(rightRows[q]) \in DOMAIN table
        BY <2>2, <4>1 DEF IInv, TableIsIndex
      <4>4. CASE RowKey(rightRows[q]) # k
        BY <1>a, <4>2, <4>3, <4>4
      <4>5. CASE RowKey(rightRows[q]) = k
        <5>1. s = table[k] /\ n \in 1 .. Len(s)
          BY <2>0, <4>2, <4>3, <4>5 DEF Lookup
        <5>2. n \in DOMAIN Append(s, r) /\ Append(s, r)[n] = q
          BY <2>0, <4>2, <4>5, <5>1
        <5> QED
          BY <1>a, <4>5, <5>2
      <4> QED
        BY <4>4, <4>5
    <3> QED
      BY <3>1, <3>2
  <2> QED
    BY <2>1, <2>2 DEF TableIsIndex
<1>3. BuildComesFirst'
  BY DEF IInv, BuildComesFirst
<1>4. ProbeIsCurrent'
  <2>1. probe = 0 /\ leftPos = 0 /\ ~done /\ matches = <<>>
    BY DEF IInv, BuildComesFirst
  <2> QED
    BY <2>1 DEF ProbeIsCurrent
<1>5. OutputIsPassed'
  BY DEF IInv, OutputIsPassed, Passed, KeysMeet
<1> QED
  BY <1>1, <1>2, <1>3, <1>4, <1>5 DEF IInv

-----------------------------------------------------------------------------
(* Probing.  What the invariant says of the current matches: they are, in
   order, exactly the right rows that meet the probe row. *)
LEMMA MatchesMeet ==
    ASSUME IInv
    PROVE  /\ Len(matches) \in Nat /\ at \in 0 .. Len(matches)
           /\ \A n \in 1 .. Len(matches) :
                 /\ probe \in 1 .. Len(leftRows) /\ matches[n] \in 1 .. Len(rightRows)
                 /\ KeysMeet(<<probe, matches[n]>>)
           /\ \A m, n \in 1 .. Len(matches) : m < n => matches[m] < matches[n]
           /\ built => \A q \in (1 .. Len(leftRows)) \X (1 .. Len(rightRows)) :
                 q[1] = probe /\ KeysMeet(q) => \E n \in 1 .. Len(matches) : matches[n] = q[2]
<1> DEFINE k == RowKey(leftRows[probe])
<1>1. /\ Len(matches) \in Nat /\ at \in 0 .. Len(matches) /\ DOMAIN matches = 1 .. Len(matches)
      /\ \A n \in 1 .. Len(matches) : matches[n] \in 1 .. Len(rightRows)
  <2>1. matches \in Seq(1 .. Len(rightRows)) /\ at \in 0 .. Len(matches)
    BY DEF IInv, TypeOK
  <2> QED
    BY <2>1, SeqElements
<1>2. Len(leftRows) \in Nat /\ leftPos \in 0 .. Len(leftRows) /\ probe \in 0 .. leftPos
  BY DEF IInv, TypeOK
<1>3. CASE probe = 0
  <2>1. Len(matches) = 0
    BY <1>3 DEF IInv, ProbeIsCurrent
  <2> QED
    BY <1>1, <1>3, <2>1
<1>4. CASE probe > 0
  <2>1. probe \in 1 .. Len(leftRows) /\ k # NoKey /\ matches = Lookup(table, k)
    BY <1>2, <1>4 DEF IInv, ProbeIsCurrent
  <2>2. CASE k \notin DOMAIN table
    <3>1. Len(matches) = 0
      BY <2>1, <2>2 DEF Lookup
    <3>2. ASSUME built, NEW q \in (1 .. Len(leftRows)) \X (1 .. Len(rightRows)),
                 q[1] = probe, KeysMeet(q)
          PROVE  FALSE
      <4>1. q[2] \in 1 .. rightPos /\ RowKey(rightRows[q[2]]) = k
        BY <3>2 DEF KeysMeet, IInv, BuildComesFirst
      <4> QED
        BY <2>1, <2>2, <4>1 DEF IInv, TableIsIndex
    <3> QED
      BY <1>1, <3>1, <3>2
  <2>3. CASE k \in DOMAIN table
    <3>1. matches = table[k]
      BY <2>1, <2>3 DEF Lookup
    <3>2. ASSUME NEW n \in 1 .. Len(matches)
          PROVE  KeysMeet(<<probe, matches[n]>>)
      <4>1. RowKey(rightRows[matches[n]]) = k
        BY <1>1, <2>3, <3>1 DEF IInv, TableIsIndex
      <4> QED
        BY <2>1, <4>1 DEF KeysMeet
    <3>3. \A m, n \in 1 .. Len(matches) : m < n => matches[m] < matches[n]
      BY <1>1, <2>3, <3>1 DEF IInv, TableIsIndex
    <3>4. ASSUME built, NEW q \in (1 .. Len(leftRows)) \X (1 .. Len(rightRows)),
                 q[1] = probe, KeysMeet(q)
          PROVE  \E n \in 1 .. Len(matches) : matches[n] = q[2]
      <4>1. q[2] \in 1 .. rightPos /\ RowKey(rightRows[q[2]]) = k
        BY <3>4 DEF KeysMeet, IInv, BuildComesFirst
      <4> QED
        BY <1>1, <2>1, <3>1, <4>1 DEF IInv, TableIsIndex
    <3> QED
      BY <1>1, <2>1, <3>2, <3>3, <3>4
  <2> QED
    BY <2>2, <2>3
<1> QED
  BY <1>2, <1>3, <1>4

(* The pair emitted meets, is not passed yet, and comes after all that are. *)
LEMMA EmitFacts ==
    ASSUME IInv, EmitMatch
    PROVE  LET p == <<probe, matches[at + 1]>>
           IN  /\ p \in (1 .. Len(leftRows)) \X (1 .. Len(rightRows))
               /\ at + 1 \in 1 .. Len(matches)
               /\ KeysMeet(p) /\ ~Passed(p)
               /\ \A q \in (1 .. Len(leftRows)) \X (1 .. Len(rightRows)) :
                     Passed(q) => NLJ!Before(q, p)
<1> DEFINE p == <<probe, matches[at + 1]>>
<1>1. at + 1 \in 1 .. Len(matches)
  BY MatchesMeet DEF EmitMatch
<1>2. p \in (1 .. Len(leftRows)) \X (1 .. Len(rightRows)) /\ KeysMeet(p)
  BY <1>1, MatchesMeet
<1>3. \A n \in 1 .. at : n \in 1 .. Len(matches) /\ matches[n] < matches[at + 1]
  BY <1>1, MatchesMeet
<1>4. /\ probe \in Nat /\ matches[at + 1] \in Nat
      /\ \A n \in 1 .. at : matches[n] \in Nat
  <2>1. 1 .. Len(leftRows) \subseteq Nat /\ 1 .. Len(rightRows) \subseteq Nat
    OBVIOUS
  <2> QED
    BY <1>1, <1>3, <2>1, MatchesMeet
<1>5. ~Passed(p)
  BY <1>3, <1>4 DEF Passed
<1>6. ASSUME NEW q \in (1 .. Len(leftRows)) \X (1 .. Len(rightRows)), Passed(q)
      PROVE  NLJ!Before(q, p)
  BY <1>3, <1>6 DEF Passed, NLJ!Before
<1> QED
  BY <1>1, <1>2, <1>5, <1>6

LEMMA EmitMatchIInv == IInv /\ EmitMatch => IInv'
<1> SUFFICES ASSUME IInv, EmitMatch PROVE IInv'
  OBVIOUS
<1> DEFINE Pairs == (1 .. Len(leftRows)) \X (1 .. Len(rightRows))
           p == <<probe, matches[at + 1]>>
<1>0. /\ out' = Append(out, p) /\ at' = at + 1 /\ frame' = "idle"
      /\ UNCHANGED <<leftRows, rightRows, leftPos, rightPos, built, table, probe,
                     matches, done>>
  BY DEF EmitMatch, inputs
<1>1. /\ p \in Pairs /\ at + 1 \in 1 .. Len(matches)
      /\ KeysMeet(p) /\ ~Passed(p)
      /\ \A q \in Pairs : Passed(q) => NLJ!Before(q, p)
  BY EmitFacts
<1>2. /\ Append(out, p) \in Seq(Pairs)
      /\ Len(out) \in Nat /\ DOMAIN out = 1 .. Len(out)
      /\ DOMAIN out' = 1 .. Len(out) + 1
      /\ \A n \in 1 .. Len(out) : out'[n] = out[n] /\ out[n] \in Pairs
      /\ out'[Len(out) + 1] = p
  <2>1. out \in Seq(Pairs)
    BY DEF IInv, TypeOK
  <2> HIDE DEF Pairs, p
  <2> QED
    BY <1>0, <1>1, <2>1, AppendFacts
<1>3. TypeOK'
  BY <1>0, <1>1, <1>2 DEF IInv, TypeOK
<1>4. TableIsIndex'
  BY <1>0 DEF IInv, TableIsIndex
<1>5. BuildComesFirst'
  BY <1>0 DEF IInv, BuildComesFirst, EmitMatch
<1>6. ProbeIsCurrent'
  <2>1. leftPos <= probe /\ ~done
    BY <1>1, MatchesMeet DEF EmitMatch, IInv, TypeOK, ProbeIsCurrent
  <2> QED
    BY <1>0, <2>1 DEF IInv, ProbeIsCurrent, TypeOK
<1>7. OutputIsPassed'
  <2>1. \A q : KeysMeet(q)' <=> KeysMeet(q)
    BY <1>0 DEF KeysMeet
  <2>2. \A q \in Pairs : Passed(q)' <=> Passed(q) \/ q = p
    <3>1. at \in Nat /\ 1 .. at + 1 = 1 .. at \cup {at + 1}
      BY MatchesMeet
    <3>2. \A q \in Pairs : Passed(q)' <=> Passed(q) \/ (q[1] = probe /\ q[2] = matches[at + 1])
      BY <1>0, <3>1 DEF Passed
    <3>3. \A q \in Pairs : q = p <=> q[1] = probe /\ q[2] = matches[at + 1]
      OBVIOUS
    <3> QED
      BY <3>2, <3>3
  <2>3. (\A n \in DOMAIN out : KeysMeet(out[n]) /\ Passed(out[n]))'
    <3>1. ASSUME NEW n \in 1 .. Len(out) + 1 PROVE KeysMeet(out'[n]) /\ out'[n] \in Pairs
                                               /\ (Passed(out'[n]) \/ out'[n] = p)
      <4>1. CASE n = Len(out) + 1
        BY <1>1, <1>2, <4>1
      <4>2. CASE n \in 1 .. Len(out)
        BY <1>2, <4>2 DEF IInv, OutputIsPassed
      <4> QED
        BY <1>2, <4>1, <4>2
    <3>2. ASSUME NEW q \in Pairs, KeysMeet(q), Passed(q) \/ q = p
          PROVE  KeysMeet(q)' /\ Passed(q)'
      BY <2>1, <2>2, <3>2
    <3>3. SUFFICES ASSUME NEW n \in DOMAIN out'
                   PROVE  KeysMeet(out'[n]) /\ out'[n] \in Pairs
                          /\ (Passed(out'[n]) \/ out'[n] = p)
      BY <1>0, <3>2 DEF KeysMeet, Passed
    <3> QED
      BY <1>2, <3>1
  <2>4. \A q \in Pairs : KeysMeet(q)' /\ Passed(q)' => \E n \in DOMAIN out' : out'[n] = q
    <3>1. SUFFICES ASSUME NEW q \in Pairs, KeysMeet(q), Passed(q) \/ q = p
                   PROVE  \E n \in DOMAIN out' : out'[n] = q
      BY <2>1, <2>2
    <3>2. CASE q = p
      <4>1. Len(out) + 1 \in DOMAIN out'
        BY <1>2
      <4> QED
        BY <1>2, <3>2, <4>1
    <3>3. CASE Passed(q)
      BY <1>2, <3>1, <3>3 DEF IInv, OutputIsPassed
    <3> QED
      BY <3>1, <3>2, <3>3
  <2>5. \A m, n \in DOMAIN out' : m < n => NLJ!Before(out'[m], out'[n])
    <3>1. ASSUME NEW m \in 1 .. Len(out) + 1, NEW n \in 1 .. Len(out) + 1, m < n
          PROVE  NLJ!Before(out'[m], out'[n])
      <4>1. m \in 1 .. Len(out)
        BY <1>2, <3>1
      <4>2. CASE n = Len(out) + 1
        BY <1>1, <1>2, <4>1, <4>2 DEF IInv, OutputIsPassed
      <4>3. CASE n \in 1 .. Len(out)
        BY <1>2, <3>1, <4>1, <4>3 DEF IInv, OutputIsPassed
      <4> QED
        BY <1>2, <4>2, <4>3
    <3> QED
      BY <1>2, <3>1
  <2> QED
    BY <1>0, <2>3, <2>4, <2>5 DEF OutputIsPassed, NLJ!Before
<1> QED
  BY <1>3, <1>4, <1>5, <1>6, <1>7 DEF IInv

(* Once the matches are spent, the loop is past a pair of one key exactly when
   its left row was read. *)
LEMMA SpentPassed ==
    ASSUME IInv, built, at >= Len(matches),
           NEW q \in (1 .. Len(leftRows)) \X (1 .. Len(rightRows)), KeysMeet(q)
    PROVE  Passed(q) <=> q[1] <= leftPos
<1>1. /\ leftPos \in Nat /\ probe \in 0 .. leftPos /\ q[1] \in Nat /\ q[1] >= 1
      /\ Len(matches) \in Nat /\ at = Len(matches)
  <2>1. leftPos \in Nat /\ probe \in 0 .. leftPos /\ 1 .. Len(leftRows) \subseteq Nat \ {0}
    BY DEF IInv, TypeOK
  <2>2. Len(matches) \in Nat /\ at \in 0 .. Len(matches)
    BY MatchesMeet
  <2> QED
    BY <2>1, <2>2
<1>2. CASE q[1] < probe
  BY <1>1, <1>2 DEF Passed
<1>3. CASE q[1] = probe
  <2>1. \E n \in 1 .. at : matches[n] = q[2]
    BY <1>1, <1>3, MatchesMeet
  <2> QED
    BY <1>1, <1>3, <2>1 DEF Passed
<1>4. CASE q[1] > probe
  <2>1. q[1] \notin probe + 1 .. leftPos
    BY DEF IInv, ProbeIsCurrent, KeysMeet
  <2> QED
    BY <1>1, <1>4, <2>1 DEF Passed
<1> QED
  BY <1>1, <1>2, <1>3, <1>4

LEMMA ProbeHitIInv == IInv /\ ProbeHit => IInv'
<1> SUFFICES ASSUME IInv, ProbeHit PROVE IInv'
  OBVIOUS
<1> DEFINE Pairs == (1 .. Len(leftRows)) \X (1 .. Len(rightRows))
           k == RowKey(leftRows[leftPos + 1])
<1>0. /\ at >= Len(matches) /\ leftPos < Len(leftRows) /\ k # NoKey
      /\ matches' = Lookup(table, k) /\ probe' = leftPos + 1 /\ at' = 0
      /\ leftPos' = leftPos + 1
      /\ frame = "probing" /\ built
      /\ UNCHANGED <<leftRows, rightRows, rightPos, built, table, frame, out, done>>
  BY DEF ProbeHit, inputs, IInv, BuildComesFirst
<1>1. /\ leftPos \in Nat /\ Len(leftRows) \in Nat /\ leftPos + 1 \in 1 .. Len(leftRows)
      /\ rightPos \in 0 .. Len(rightRows) /\ Len(rightRows) \in Nat
  BY <1>0 DEF IInv, TypeOK
<1>2. matches' \in Seq(1 .. Len(rightRows))
  <2>1. CASE k \in DOMAIN table
    <3>1. table[k] \in Seq(1 .. rightPos) /\ 1 .. rightPos \subseteq 1 .. Len(rightRows)
      BY <1>1, <2>1 DEF IInv, TypeOK
    <3> QED
      BY <1>0, <2>1, <3>1, SeqWiden DEF Lookup
  <2>2. CASE k \notin DOMAIN table
    BY <1>0, <2>2 DEF Lookup
  <2> QED
    BY <2>1, <2>2
<1>3. TypeOK'
  <2>1. at' \in 0 .. Len(matches')
    BY <1>0, <1>2, SeqElements
  <2> QED
    BY <1>0, <1>1, <1>2, <2>1 DEF IInv, TypeOK
<1>4. TableIsIndex'
  BY <1>0 DEF IInv, TableIsIndex
<1>5. BuildComesFirst'
  BY <1>0 DEF IInv, BuildComesFirst
<1>6. ProbeIsCurrent'
  <2>1. ~done
    BY <1>0, <1>1 DEF IInv, ProbeIsCurrent
  <2>2. probe' + 1 .. leftPos' = {} /\ probe' > 0 /\ leftPos' = probe'
    BY <1>0, <1>1
  <2>3. leftRows[probe'] = leftRows[leftPos + 1]
    BY <1>0
  <2> QED
    BY <1>0, <1>1, <2>1, <2>2, <2>3 DEF ProbeIsCurrent
<1>7. OutputIsPassed'
  <2>1. \A q : KeysMeet(q)' <=> KeysMeet(q)
    BY <1>0 DEF KeysMeet
  <2>2. \A q \in Pairs : KeysMeet(q) => (Passed(q)' <=> Passed(q))
    <3>1. SUFFICES ASSUME NEW q \in Pairs, KeysMeet(q)
                   PROVE  Passed(q)' <=> Passed(q)
      OBVIOUS
    <3>2. Passed(q) <=> q[1] <= leftPos
      BY <1>0, <3>1, SpentPassed
    <3>3. q[1] \in Nat
      <4>1. 1 .. Len(leftRows) \subseteq Nat
        OBVIOUS
      <4> QED
        BY <3>1, <4>1
    <3>4. Passed(q)' <=> q[1] < leftPos + 1
      <4>1. 1 .. at' = {}
        BY <1>0
      <4> QED
        BY <1>0, <4>1 DEF Passed
    <3> QED
      BY <1>1, <3>2, <3>3, <3>4
  <2>3. \A n \in DOMAIN out : out[n] \in Pairs /\ KeysMeet(out[n]) /\ Passed(out[n])
    <3>1. out \in Seq(Pairs)
      BY DEF IInv, TypeOK
    <3> QED
      BY <3>1, SeqElements DEF IInv, OutputIsPassed
  <2>4. (\A n \in DOMAIN out : KeysMeet(out[n]) /\ Passed(out[n]))'
    <3>1. ASSUME NEW q \in Pairs, KeysMeet(q), Passed(q)
          PROVE  KeysMeet(q)' /\ Passed(q)'
      BY <2>1, <2>2, <3>1
    <3> QED
      BY <1>0, <2>3, <3>1 DEF KeysMeet, Passed
  <2>5. \A q \in Pairs : KeysMeet(q)' /\ Passed(q)' => \E n \in DOMAIN out : out[n] = q
    BY <2>1, <2>2 DEF IInv, OutputIsPassed
  <2> QED
    BY <1>0, <2>4, <2>5 DEF IInv, OutputIsPassed, NLJ!Before
<1> QED
  BY <1>3, <1>4, <1>5, <1>6, <1>7 DEF IInv

LEMMA ProbeSkipIInv == IInv /\ ProbeSkip => IInv'
<1> SUFFICES ASSUME IInv, ProbeSkip PROVE IInv'
  OBVIOUS
<1> USE DEF ProbeSkip, inputs
<1>0. /\ leftPos \in Nat /\ Len(leftRows) \in Nat /\ leftPos + 1 \in 1 .. Len(leftRows)
      /\ probe \in 0 .. leftPos /\ at \in 0 .. Len(matches) /\ Len(matches) \in Nat
  BY MatchesMeet DEF IInv, TypeOK
<1>1. TypeOK'
  BY <1>0 DEF IInv, TypeOK
<1>2. TableIsIndex'
  BY DEF IInv, TableIsIndex
<1>3. BuildComesFirst'
  BY DEF IInv, BuildComesFirst
<1>4. ProbeIsCurrent'
  <2>1. ~done /\ at = Len(matches)
    BY <1>0 DEF IInv, ProbeIsCurrent
  <2>2. \A l \in probe + 1 .. leftPos + 1 : l \in probe + 1 .. leftPos \/ l = leftPos + 1
    BY <1>0
  <2> QED
    BY <1>0, <2>1, <2>2 DEF IInv, ProbeIsCurrent
<1>5. OutputIsPassed'
  BY DEF IInv, OutputIsPassed, Passed, KeysMeet
<1> QED
  BY <1>1, <1>2, <1>3, <1>4, <1>5 DEF IInv

-----------------------------------------------------------------------------
\* Every turn of the loops of build and Next keeps the table an index of the right
\* rows read and the output what the cursor passed.
THEOREM NextIInv == IInv /\ [Next]_vars => IInv'
<1>1. CASE UNCHANGED vars
  BY <1>1 DEF vars, IInv, TypeOK, TableIsIndex, BuildComesFirst, ProbeIsCurrent,
              OutputIsPassed, Passed, KeysMeet
<1>2. CASE Next
  BY <1>2, CallNextIInv, BuildKeepIInv, BuildDropIInv, BuildEndIInv, EmitMatchIInv,
     ProbeHitIInv, ProbeSkipIInv, ProbeEndIInv DEF Next, Build, Probe
<1> QED
  BY <1>1, <1>2

(* At every moment of every run of the join the table indexes the right rows
   read, the probe row and its matches are current, and the output is exactly
   the pairs of one key that the loop is past, in nested-loop order. *)
THEOREM JoinInvariant == Spec => []IInv
BY InitIInv, NextIInv, PTL DEF Spec

-----------------------------------------------------------------------------
(* The first thing the invariant yields: the left input is streamed, row by
   row, and only after the right one was read to its end. *)
THEOREM JoinStreamsLeft == Spec => []LeftIsStreamed
<1>1. Init => LeftIsStreamed
  BY InitTypes DEF Init, LeftIsStreamed
<1>2. IInv /\ LeftIsStreamed /\ IInv' /\ [Next]_vars => LeftIsStreamed'
  <2> SUFFICES ASSUME IInv, LeftIsStreamed, IInv', [Next]_vars
               PROVE  LeftIsStreamed'
    OBVIOUS
  <2>1. (leftPos > 0 => rightPos = Len(rightRows))'
    BY DEF IInv, BuildComesFirst, TypeOK
  <2>2. (frame = "idle" /\ ~done /\ out # <<>> => leftPos = out[Len(out)][1])'
    <3>1. CASE EmitMatch
      <4>1. out' = Append(out, <<probe, matches[at + 1]>>) /\ leftPos' = leftPos
        BY <3>1 DEF EmitMatch
      <4>2. out'[Len(out')] = <<probe, matches[at + 1]>>
        <5>1. out \in Seq((1 .. Len(leftRows)) \X (1 .. Len(rightRows)))
          BY DEF IInv, TypeOK
        <5> QED
          BY <4>1, <5>1, EmitFacts, <3>1, AppendFacts
      <4>3. leftPos = probe
        BY <3>1, MatchesMeet DEF EmitMatch, IInv, TypeOK, ProbeIsCurrent
      <4> QED
        BY <4>1, <4>2, <4>3
    <3>2. CASE CallNext \/ Build \/ ProbeHit \/ ProbeSkip \/ ProbeEnd
      BY <3>2 DEF CallNext, Build, BuildKeep, BuildDrop, BuildEnd, ProbeHit,
                  ProbeSkip, ProbeEnd
    <3>3. CASE UNCHANGED vars
      BY <3>3 DEF vars, LeftIsStreamed
    <3> QED
      BY <3>1, <3>2, <3>3 DEF Next, Probe
  <2> QED
    BY <2>1, <2>2 DEF LeftIsStreamed
<1> QED
  BY <1>1, <1>2, JoinInvariant, PTL DEF Spec

(* Once Next returned false, it never returns another row. *)
THEOREM JoinExhaustionIsFinal == Spec => ExhaustionIsFinal
<1>1. IInv /\ [Next]_vars => [done => done' /\ out' = out]_vars
  <2> SUFFICES ASSUME IInv, Next, done PROVE done' /\ out' = out
    OBVIOUS
  <2>a. Len(matches) \in Nat
    BY MatchesMeet
  <2>b. at = Len(matches)
    BY Zenon DEF IInv, ProbeIsCurrent
  <2>c. ~(at < Len(matches))
    BY <2>a, <2>b
  <2>1. ~EmitMatch
    BY <2>c, Zenon DEF EmitMatch
  <2> QED
    BY <2>1 DEF Next, CallNext, Build, BuildKeep, BuildDrop, BuildEnd, Probe,
                ProbeHit, ProbeSkip, ProbeEnd
<1> QED
  BY <1>1, JoinInvariant, PTL DEF Spec, ExhaustionIsFinal

-----------------------------------------------------------------------------
(* Keys that meet in the table and values that compare equal. *)
InputsStay == leftRows \in LeftInputs /\ rightRows \in RightInputs

LEMMA InputsInvariant == Spec => []InputsStay
<1>1. Init => InputsStay
  BY DEF Init, InputsStay
<1>2. InputsStay /\ [Next]_vars => InputsStay'
  BY DEF InputsStay, Next, vars, CallNext, Build, BuildKeep, BuildDrop, BuildEnd,
         Probe, EmitMatch, ProbeHit, ProbeSkip, ProbeEnd, inputs
<1> QED
  BY <1>1, <1>2, PTL DEF Spec

LEMMA MeetsIsJoined ==
    ASSUME IInv, InputsStay, ComparableInputs,
           NEW p \in (1 .. Len(leftRows)) \X (1 .. Len(rightRows))
    PROVE  /\ p \in NLJ!Joined => KeysMeet(p)
           /\ ExactInputs /\ KeysMeet(p) => p \in NLJ!Joined
<1> DEFINE a == leftRows[p[1]]
           b == rightRows[p[2]]
<1>1. /\ p[1] \in DOMAIN leftRows /\ p[2] \in DOMAIN rightRows
      /\ a \in RowValues /\ b \in RowValues
  BY SeqElements DEF IInv, TypeOK
<1>2. p \in NLJ!Joined <=> a # NoValue /\ b # NoValue /\ Equal(a, b)
  BY DEF NLJ!Joined, JoinCondition
<1>3. KeysMeet(p) <=> a # NoValue /\ b # NoValue /\ SameKey(a, b)
  BY DEF KeysMeet, RowKey, SameKey
<1>4. CASE a = NoValue \/ b = NoValue
  BY <1>2, <1>3, <1>4
<1>5. CASE a # NoValue /\ b # NoValue
  <2>1. a \in Values /\ b \in Values /\ Comparable(a, b)
    BY <1>1, <1>5 DEF RowValues, ComparableInputs, InputsStay
  <2>2. ExactInputs => ExactKey(a) /\ ExactKey(b)
    BY <1>1, <1>5 DEF ExactInputs, InputsStay
  <2> QED
    BY <1>2, <1>3, <1>5, <2>1, <2>2, JoinKeyAgrees
<1> QED
  BY <1>4, <1>5

(* When the join reports exhaustion it has returned every pair of rows whose
   keys compare equal, whatever the size of the INTs. *)
THEOREM JoinMissesNoMatch ==
    ASSUME ComparableInputs
    PROVE  Spec => []NoMatchMissed
<1>1. IInv /\ InputsStay => NoMatchMissed
  <2> SUFFICES ASSUME IInv, InputsStay, done, NEW p \in NLJ!Joined
               PROVE  \E n \in DOMAIN out : out[n] = p
    BY DEF NoMatchMissed
  <2>1. p \in (1 .. Len(leftRows)) \X (1 .. Len(rightRows)) /\ KeysMeet(p)
    <3>1. p \in (1 .. Len(leftRows)) \X (1 .. Len(rightRows))
      BY DEF NLJ!Joined
    <3> QED
      BY <3>1, MeetsIsJoined
  <2>2. built /\ at >= Len(matches) /\ leftPos = Len(leftRows)
    BY MatchesMeet DEF IInv, BuildComesFirst, ProbeIsCurrent
  <2>3. p[1] <= leftPos
    BY <2>1, <2>2
  <2>4. Passed(p)
    BY <2>1, <2>2, <2>3, SpentPassed
  <2> QED
    BY <2>1, <2>4 DEF IInv, OutputIsPassed
<1> QED
  BY <1>1, JoinInvariant, InputsInvariant, PTL

(* While float64 represents every INT key, the join returns no pair whose keys
   differ. *)
THEOREM JoinEmitsEqualKeys ==
    ASSUME ComparableInputs, ExactInputs
    PROVE  Spec => []EmittedPairsCompareEqual
<1>1. IInv /\ InputsStay => EmittedPairsCompareEqual
  <2> SUFFICES ASSUME IInv, InputsStay, NEW n \in DOMAIN out
               PROVE  JoinCondition(leftRows[out[n][1]], rightRows[out[n][2]])
    BY DEF EmittedPairsCompareEqual
  <2>1. out[n] \in (1 .. Len(leftRows)) \X (1 .. Len(rightRows))
    BY SeqElements DEF IInv, TypeOK
  <2>2. out[n] \in NLJ!Joined
    BY <2>1, MeetsIsJoined DEF IInv, OutputIsPassed
  <2> QED
    BY <2>2 DEF NLJ!Joined
<1> QED
  BY <1>1, JoinInvariant, InputsInvariant, PTL

-----------------------------------------------------------------------------
(* Refinement. *)
LEMMA EmitDelivers ==
    ASSUME IInv, InputsStay, ComparableInputs, ExactInputs, EmitMatch
    PROVE  NLJ!Deliver
<1> DEFINE Pairs == (1 .. Len(leftRows)) \X (1 .. Len(rightRows))
           p == <<probe, matches[at + 1]>>
<1>1. /\ p \in Pairs /\ at + 1 \in 1 .. Len(matches)
      /\ KeysMeet(p) /\ ~Passed(p)
  BY EmitFacts
<1>2. p \in NLJ!Pending
  <2>1. p \in NLJ!Joined
    BY <1>1, MeetsIsJoined
  <2>2. \A n \in DOMAIN out : out[n] # p
    BY <1>1 DEF IInv, OutputIsPassed
  <2> QED
    BY <2>1, <2>2 DEF NLJ!Pending
<1>3. ASSUME NEW q \in NLJ!Pending
      PROVE  q = p \/ NLJ!Before(p, q)
  <2>1. q \in Pairs /\ q \in NLJ!Joined /\ \A n \in DOMAIN out : out[n] # q
    BY DEF NLJ!Pending, NLJ!Joined
  <2>2. KeysMeet(q)
    BY <2>1, MeetsIsJoined
  <2>3. ~Passed(q)
    BY <2>1, <2>2 DEF IInv, OutputIsPassed
  <2>4. /\ probe \in Nat /\ q[1] \in Nat /\ q[2] \in Nat /\ at \in Nat
        /\ matches[at + 1] \in Nat /\ q = <<q[1], q[2]>>
    <3>1. 1 .. Len(leftRows) \subseteq Nat /\ 1 .. Len(rightRows) \subseteq Nat
      OBVIOUS
    <3> QED
      BY <1>1, <2>1, <3>1, MatchesMeet
  <2>5. CASE q[1] # probe
    BY <2>3, <2>4, <2>5 DEF Passed, NLJ!Before
  <2>6. CASE q[1] = probe
    <3>1. built
      BY DEF EmitMatch, IInv, BuildComesFirst
    <3>2. PICK n \in 1 .. Len(matches) : matches[n] = q[2]
      BY <2>1, <2>2, <2>6, <3>1, MatchesMeet
    <3>3. n \notin 1 .. at
      BY <2>3, <2>6, <3>2 DEF Passed
    <3>4. n = at + 1 \/ matches[at + 1] < matches[n]
      BY <1>1, <2>4, <3>2, <3>3, MatchesMeet
    <3> QED
      BY <2>4, <2>6, <3>2, <3>4 DEF NLJ!Before
  <2> QED
    BY <2>5, <2>6
<1>4. out' = Append(out, p) /\ UNCHANGED <<leftRows, rightRows, done>>
  BY DEF EmitMatch, inputs
<1> QED
  BY <1>2, <1>3, <1>4 DEF NLJ!Deliver

LEMMA EndFinishes ==
    ASSUME IInv, InputsStay, ComparableInputs, ProbeEnd
    PROVE  NLJ!Finish
<1>1. NLJ!Pending = {}
  <2>1. SUFFICES ASSUME NEW p \in NLJ!Pending PROVE FALSE
    OBVIOUS
  <2>2. /\ p \in (1 .. Len(leftRows)) \X (1 .. Len(rightRows))
        /\ p \in NLJ!Joined /\ \A n \in DOMAIN out : out[n] # p
    BY DEF NLJ!Pending, NLJ!Joined
  <2>3. KeysMeet(p)
    BY <2>2, MeetsIsJoined
  <2>4. built /\ at >= Len(matches) /\ p[1] <= leftPos
    BY <2>2 DEF ProbeEnd, IInv, BuildComesFirst
  <2>5. Passed(p)
    BY <2>2, <2>3, <2>4, SpentPassed
  <2> QED
    BY <2>2, <2>3, <2>5 DEF IInv, OutputIsPassed
<1> QED
  BY <1>1 DEF ProbeEnd, inputs, NLJ!Finish

(* The hash join implements the nested-loop join step by step: every row it
   returns is the next pair of the nested loop, and it reports exhaustion only
   when no pair is left. *)
THEOREM JoinRefinesNestedLoop ==
    ASSUME ComparableInputs, ExactInputs
    PROVE  Spec => NLJ!Init /\ [][NLJ!Next]_(NLJ!vars)
<1>1. Init => NLJ!Init
  BY DEF Init, NLJ!Init
<1>2. IInv /\ InputsStay /\ [Next]_vars => [NLJ!Next]_(NLJ!vars)
  <2> SUFFICES ASSUME IInv, InputsStay, [Next]_vars
               PROVE  NLJ!Next \/ UNCHANGED NLJ!vars
    OBVIOUS
  <2>1. CASE EmitMatch
    BY <2>1, EmitDelivers DEF NLJ!Next
  <2>2. CASE ProbeEnd
    BY <2>2, EndFinishes DEF NLJ!Next
  <2>3. CASE CallNext \/ Build \/ ProbeHit \/ ProbeSkip
    BY <2>3 DEF CallNext, Build, BuildKeep, BuildDrop, BuildEnd, ProbeHit,
                ProbeSkip, inputs, NLJ!vars
  <2>4. CASE UNCHANGED vars
    BY <2>4 DEF vars, NLJ!vars
  <2> QED
    BY <2>1, <2>2, <2>3, <2>4 DEF Next, Probe
<1> QED
  BY <1>1, <1>2, JoinInvariant, InputsInvariant, PTL DEF Spec
=============================================================================
