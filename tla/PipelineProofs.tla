--------------------------- MODULE PipelineProofs ---------------------------
(***************************************************************************)
(* The chain of operators answers every statement over every table as the  *)
(* statement reads, and LIMIT stops the scan.                              *)
(***************************************************************************)
EXTENDS Pipeline, SequenceTheorems, FiniteSetTheorems, TLAPS

-----------------------------------------------------------------------------
(* Sequences of rows *)

LEMMA Elements ==
    ASSUME NEW T, NEW s \in Seq(T)
    PROVE  /\ Len(s) \in Nat /\ DOMAIN s = 1 .. Len(s)
           /\ ToSet(s) \subseteq T
           /\ \A x : x \in ToSet(s) <=> \E n \in 1 .. Len(s) : x = s[n]
BY DEF ToSet

LEMMA Appended ==
    ASSUME NEW T, NEW s \in Seq(T), NEW e \in T
    PROVE  /\ Append(s, e) \in Seq(T)
           /\ Len(s) \in Nat /\ Len(Append(s, e)) = Len(s) + 1
           /\ DOMAIN s = 1 .. Len(s) /\ DOMAIN Append(s, e) = 1 .. Len(s) + 1
           /\ \A n \in 1 .. Len(s) : Append(s, e)[n] = s[n]
           /\ Append(s, e)[Len(s) + 1] = e
           /\ ToSet(Append(s, e)) = ToSet(s) \cup {e}
<1>1. /\ Append(s, e) \in Seq(T)
      /\ Len(s) \in Nat /\ Len(Append(s, e)) = Len(s) + 1
      /\ DOMAIN s = 1 .. Len(s) /\ DOMAIN Append(s, e) = 1 .. Len(s) + 1
      /\ \A n \in 1 .. Len(s) : Append(s, e)[n] = s[n]
      /\ Append(s, e)[Len(s) + 1] = e
  OBVIOUS
<1>2. PICK r : r = Append(s, e)
  OBVIOUS
<1>3. ASSUME NEW x PROVE x \in ToSet(r) <=> x \in ToSet(s) \/ x = e
  <2>1. x \in ToSet(r) <=> \E n \in 1 .. Len(s) + 1 : x = r[n]
    <3>1. r \in Seq(T) /\ Len(r) = Len(s) + 1
      BY <1>1, <1>2
    <3> QED
      BY <3>1, Elements
  <2>2. x \in ToSet(s) <=> \E n \in 1 .. Len(s) : x = s[n]
    BY Elements
  <2>3. Len(s) + 1 \in 1 .. Len(s) + 1 /\ \A n \in 1 .. Len(s) : n \in 1 .. Len(s) + 1
    BY <1>1
  <2>4. \A n \in 1 .. Len(s) + 1 : n \in 1 .. Len(s) \/ n = Len(s) + 1
    BY <1>1
  <2> QED
    BY <1>1, <1>2, <2>1, <2>2, <2>3, <2>4
<1> QED
  BY <1>1, <1>2, <1>3

LEMMA FunctionIsSeq ==
    ASSUME NEW T, NEW n \in Nat, NEW f \in [1 .. n -> T]
    PROVE  f \in Seq(T) /\ Len(f) = n
OBVIOUS

LEMMA Distinct ==
    ASSUME NEW T, NEW s \in Seq(T), NEW S, S \subseteq ToSet(s)
    PROVE  Cardinality(S) \in Nat /\ Cardinality(S) <= Len(s)
<1>1. Len(s) \in Nat /\ DOMAIN s = 1 .. Len(s)
  BY Elements
<1>2. IsFiniteSet(1 .. Len(s)) /\ Cardinality(1 .. Len(s)) = Len(s)
  <2>1. Cardinality(1 .. Len(s)) = IF 1 > Len(s) THEN 0 ELSE Len(s) - 1 + 1
    BY <1>1, FS_Interval
  <2> QED
    BY <1>1, <2>1, FS_Interval
<1>3. s \in Surjection(1 .. Len(s), ToSet(s))
  <2>1. \A x \in ToSet(s) : \E n \in 1 .. Len(s) : x = s[n]
    BY Elements
  <2>2. \A n \in 1 .. Len(s) : s[n] \in ToSet(s)
    BY Elements
  <2>3. s \in [1 .. Len(s) -> ToSet(s)]
    <3>1. s = [n \in 1 .. Len(s) |-> s[n]]
      OBVIOUS
    <3> QED
      BY <2>2, <3>1
  <2> QED
    BY <2>1, <2>3 DEF Surjection
<1>4. IsFiniteSet(ToSet(s)) /\ Cardinality(ToSet(s)) <= Len(s)
  BY <1>2, <1>3, FS_Surjection
<1>5. IsFiniteSet(S) /\ Cardinality(S) <= Cardinality(ToSet(s))
  BY <1>4, FS_Subset
<1>6. Cardinality(S) \in Nat /\ Cardinality(ToSet(s)) \in Nat
  BY <1>4, <1>5, FS_CardinalityType
<1> QED
  BY <1>1, <1>4, <1>5, <1>6

-----------------------------------------------------------------------------
(* Rows *)

LEMMA QueryFacts ==
    ASSUME NEW q \in Queries
    PROVE  /\ Len(q.where) \in Nat
           /\ q.filtered \in BOOLEAN /\ q.sorted \in BOOLEAN /\ q.projects \in BOOLEAN
           /\ q.limit \in Nat \/ q.limit = NoLimit
           /\ \A r \in 1 .. Len(q.where) : q.rank[r] \in Int
<1>1. /\ q.where \in Seq(Outcomes) /\ q.rank \in [DOMAIN q.where -> Int]
      /\ q.filtered \in BOOLEAN /\ q.sorted \in BOOLEAN /\ q.projects \in BOOLEAN
      /\ q.limit \in Nat \cup {NoLimit}
  BY QueriesAssumption
<1>2. Len(q.where) \in Nat /\ DOMAIN q.where = 1 .. Len(q.where)
  <2> DEFINE O == Outcomes
  <2>1. q.where \in Seq(O)
    BY <1>1
  <2> HIDE DEF O
  <2> QED
    BY <2>1, Elements
<1> QED
  BY <1>1, <1>2

LEMMA PassingFacts ==
    ASSUME NEW q, NEW n \in Nat
    PROVE  /\ \A r : r \in Passing(q, n) <=> r \in 1 .. n /\ Passes(q, r)
           /\ Passing(q, 0) = {}
           /\ \A r : r \in Passing(q, n + 1) <=> r \in Passing(q, n) \/ (r = n + 1 /\ Passes(q, n + 1))
BY DEF Passing

LEMMA PassingGrows ==
    ASSUME NEW q, NEW n \in Nat
    PROVE  Passing(q, n - 1) \subseteq Passing(q, n)
BY DEF Passing

LEMMA BeforeIsStrict ==
    ASSUME NEW q \in Queries, NEW r \in 1 .. Len(q.where), NEW s \in 1 .. Len(q.where),
           Before(q, r, s)
    PROVE  ~Before(q, s, r) /\ r # s
<1>1. q.rank[r] \in Int /\ q.rank[s] \in Int /\ r \in Int /\ s \in Int
  BY QueryFacts
<1> QED
  BY <1>1 DEF Before

LEMMA InOrderAppend ==
    ASSUME NEW q, NEW T, NEW s \in Seq(T), NEW e \in T, InOrder(q, s),
           \A x \in ToSet(s) : Before(q, x, e)
    PROVE  InOrder(q, Append(s, e))
<1>1. PICK r : r = Append(s, e)
  OBVIOUS
<1>2. /\ Len(s) \in Nat /\ DOMAIN s = 1 .. Len(s) /\ DOMAIN r = 1 .. Len(s) + 1
      /\ \A n \in 1 .. Len(s) : r[n] = s[n]
      /\ r[Len(s) + 1] = e
  BY <1>1, Appended
<1>3. ASSUME NEW m \in DOMAIN r, NEW n \in DOMAIN r, m < n
      PROVE  Before(q, r[m], r[n])
  <2>1. m \in 1 .. Len(s) /\ (n \in 1 .. Len(s) \/ n = Len(s) + 1)
    BY <1>2, <1>3
  <2>2. s[m] \in ToSet(s)
    BY <2>1, Elements
  <2> QED
    BY <1>2, <1>3, <2>1, <2>2 DEF InOrder
<1> QED
  BY <1>1, <1>3 DEF InOrder

-----------------------------------------------------------------------------
(* The steps *)

\* What the invariant says of the values of the variables.
LEMMA Facts ==
    ASSUME IInv
    PROVE  /\ query \in Queries /\ TableSize \in Nat
           /\ query.filtered \in BOOLEAN /\ query.sorted \in BOOLEAN /\ query.projects \in BOOLEAN
           /\ Limited => query.limit \in Nat
           /\ at \in Operators /\ ret \in {Called, End} \cup 1 .. TableSize /\ ret \in Int
           /\ scanned \in 0 .. TableSize /\ scanned \in Nat
           /\ loaded \in BOOLEAN /\ done \in BOOLEAN /\ seen \in Nat
           /\ buffer \in Seq(1 .. TableSize) /\ out \in Seq(1 .. TableSize)
           /\ Len(buffer) \in Nat /\ Len(out) \in Nat /\ sent \in Nat /\ sent <= Len(buffer)
<1>1. query \in Queries /\ TypeOK
  BY DEF IInv, LimitStopsTheScan
<1>2. TableSize \in Nat
  BY <1>1, QueryFacts DEF TableSize
<1>3. Limited => query.limit \in Nat
  BY <1>1, QueryFacts DEF Limited
<1>4. Len(buffer) \in Nat /\ Len(out) \in Nat
  BY <1>1 DEF TypeOK
<1> QED
  BY <1>1, <1>2, <1>3, <1>4, QueryFacts DEF TypeOK, Called, End

\* The rows that pass among the first few.
LEMMA PassingNow ==
    ASSUME IInv
    PROVE  /\ Passing(query, scanned - 1) \subseteq Passing(query, scanned)
           /\ \A r \in Passing(query, scanned) : r \in 1 .. scanned /\ Passes(query, r)
           /\ scanned > 0 => \A r \in Passing(query, scanned - 1) : r \in 1 .. scanned - 1
<1>1. scanned \in Nat
  BY Facts
<1>2. scanned > 0 => scanned - 1 \in Nat
  BY <1>1
<1> QED
  BY <1>1, <1>2, PassingFacts, PassingGrows

LEMMA ScanNextStep == ASSUME IInv, ScanNext PROVE IInv'
<1>1. /\ query' = query /\ out' = out /\ buffer' = buffer /\ loaded' = loaded
      /\ sent' = sent /\ seen' = seen /\ done' = done
      /\ at = "scan" /\ ret = Called /\ ~HasRow /\ ret # End
      /\ at' = (IF query.filtered THEN "filter" ELSE IF query.sorted THEN "sort" ELSE "project")
      /\ at' \in Operators /\ at' \notin {"scan", "limit", "consumer"}
      /\ at' # "filter" => \A r : Passes(query, r)
  <2>1. at = "scan" /\ ret = Called
    BY DEF ScanNext, Running, IInv, ControlInv
  <2> QED
    BY <2>1, Facts DEF ScanNext, Return, Parent, AboveFilter, sortVars, userVars, HasRow, Called, End,
       Passes, Operators
<1>2. \/ scanned' = scanned + 1 /\ ret' = scanned + 1 /\ scanned < TableSize
      \/ scanned' = scanned /\ ret' = End /\ scanned = TableSize
  BY <1>1, Facts DEF ScanNext, Return
<1>3. ~query.sorted => \A r \in Passing(query, scanned) : r \in ToSet(out)
  BY <1>1 DEF IInv, StreamInv, Coming
<1>4. query.sorted => \A r \in Passing(query, scanned) : r \in ToSet(buffer)
  BY <1>1, Facts DEF IInv, LoadInv, SentInv, Coming
<1>5. CASE scanned' = scanned + 1 /\ ret' = scanned + 1 /\ scanned < TableSize
  <2>1. /\ scanned' - 1 = scanned /\ scanned' \in 1 .. TableSize /\ ret' = scanned'
        /\ HasRow' /\ ret' # End /\ ret' \in 1 .. TableSize
    BY <1>5, Facts DEF HasRow, Called, End
  <2>2. /\ \A r \in Passing(query, scanned') : r \in Passing(query, scanned) \/ r = ret'
        /\ Passing(query, scanned) \subseteq Passing(query, scanned')
    BY <1>5, Facts, PassingFacts
  <2>3. LimitStopsTheScan'
    <3>1. TypeOK'
      BY <1>1, <2>1, Facts DEF TypeOK, Operators, TableSize, Limited
    <3>2. Limited => query.limit # 0
      BY <1>1, Facts DEF IInv, SeenInv
    <3>3. ASSUME Limited, ~query.sorted PROVE Cardinality(Passing(query, scanned)) < query.limit
      <4>1. /\ Cardinality(Passing(query, scanned)) \in Nat
            /\ Cardinality(Passing(query, scanned)) <= Len(out)
        BY <1>3, <3>3, Facts, Distinct
      <4>2. Len(out) < query.limit /\ query.limit \in Nat /\ Len(out) \in Nat
        <5>1. seen = Len(out) + 0 /\ seen < query.limit
          BY <1>1, <3>3 DEF IInv, SeenInv
        <5> QED
          BY <3>3, <5>1, Facts
      <4> QED
        BY <4>1, <4>2
    <3>4. query.limit # 0
      BY <3>2 DEF Limited, NoLimit
    <3> QED
      BY <1>1, <2>1, <3>1, <3>3, <3>4 DEF LimitStopsTheScan, Limited
  <2>4. StreamInv'
    BY <1>1, <1>3, <2>1, <2>2 DEF IInv, StreamInv, Coming
  <2>5. LoadInv'
    BY <1>1, <1>4, <2>1, <2>2 DEF IInv, LoadInv, Coming
  <2>6. SentInv'
    BY <1>1 DEF IInv, SentInv
  <2>7. SeenInv'
    BY <1>1 DEF IInv, SeenInv, Limited
  <2>8. ControlInv'
    BY <1>1 DEF IInv, ControlInv
  <2> QED
    BY <1>1, <2>3, <2>4, <2>5, <2>6, <2>7, <2>8, Facts DEF IInv
<1>6. CASE scanned' = scanned /\ ret' = End /\ scanned = TableSize
  <2>1. ~HasRow' /\ TableSize' = TableSize
    BY <1>1, <1>6 DEF HasRow, TableSize
  <2>2. LimitStopsTheScan'
    BY <1>1, <1>6, Facts DEF IInv, LimitStopsTheScan, TypeOK, Operators, TableSize, Limited
  <2>4. StreamInv'
    BY <1>1, <1>3, <1>6, <2>1 DEF IInv, StreamInv, Coming
  <2>5. LoadInv'
    BY <1>1, <1>4, <1>6, <2>1 DEF IInv, LoadInv, Coming
  <2>6. SentInv'
    BY <1>1 DEF IInv, SentInv
  <2>7. SeenInv'
    BY <1>1 DEF IInv, SeenInv, Limited
  <2>8. ControlInv'
    BY <1>1, <2>1 DEF IInv, ControlInv
  <2> QED
    BY <1>1, <2>2, <2>4, <2>5, <2>6, <2>7, <2>8, Facts DEF IInv
<1> QED
  BY <1>2, <1>5, <1>6

LEMMA FilterPullStep == ASSUME IInv, FilterPull PROVE IInv'
<1>1. /\ query' = query /\ scanned' = scanned /\ out' = out /\ buffer' = buffer /\ loaded' = loaded
      /\ sent' = sent /\ seen' = seen /\ done' = done
      /\ at = "filter" /\ at' = "scan" /\ ret' = Called /\ ~HasRow' /\ ret' # End
      /\ HasRow => ~Passes(query, ret)
  BY Facts DEF FilterPull, CallChild, Running, Child, scanVars, sortVars, userVars, HasRow, Passes, Called,
       End, Operators
<1>2. HasRow => ret \notin Passing(query, scanned)
  BY <1>1, PassingNow
<1>3. LimitStopsTheScan'
  BY <1>1, Facts DEF IInv, LimitStopsTheScan, TypeOK, Operators, TableSize, Limited
<1>4. StreamInv'
  BY <1>1, <1>2, PassingNow DEF IInv, StreamInv, Coming
<1>5. LoadInv'
  BY <1>1, <1>2, PassingNow DEF IInv, LoadInv, Coming
<1>6. SentInv'
  BY <1>1 DEF IInv, SentInv
<1>7. SeenInv'
  BY <1>1 DEF IInv, SeenInv, Limited
<1>8. ControlInv'
  BY <1>1 DEF IInv, ControlInv
<1> QED
  BY <1>1, <1>3, <1>4, <1>5, <1>6, <1>7, <1>8, Facts DEF IInv

LEMMA FilterReturnStep == ASSUME IInv, FilterReturn PROVE IInv'
<1>1. /\ query' = query /\ scanned' = scanned /\ out' = out /\ buffer' = buffer /\ loaded' = loaded
      /\ sent' = sent /\ seen' = seen /\ done' = done
      /\ at = "filter" /\ at' = (IF query.sorted THEN "sort" ELSE "project") /\ ret' = ret
      /\ HasRow' = HasRow /\ ret # Called /\ at' \in Operators
      /\ HasRow => Passes(query, ret)
  BY Facts DEF FilterReturn, Return, Running, Parent, AboveFilter, scanVars, sortVars, userVars, HasRow,
       Passes, Called, End, Operators
<1>2. LimitStopsTheScan'
  BY <1>1, Facts DEF IInv, LimitStopsTheScan, TypeOK, Operators, TableSize, Limited
<1>3. StreamInv'
  BY <1>1 DEF IInv, StreamInv, Coming, TableSize
<1>4. LoadInv'
  BY <1>1 DEF IInv, LoadInv, Coming, TableSize
<1>5. SentInv'
  BY <1>1 DEF IInv, SentInv
<1>6. SeenInv'
  BY <1>1 DEF IInv, SeenInv, Limited
<1>7. ControlInv'
  BY <1>1 DEF IInv, ControlInv
<1> QED
  BY <1>1, <1>2, <1>3, <1>4, <1>5, <1>6, <1>7, Facts DEF IInv

LEMMA SortPullStep == ASSUME IInv, SortPull PROVE IInv'
<1>1. /\ query' = query /\ scanned' = scanned /\ out' = out /\ loaded' = loaded /\ ~loaded
      /\ sent' = sent /\ seen' = seen /\ done' = done
      /\ at = "sort" /\ query.sorted /\ at' = (IF query.filtered THEN "filter" ELSE "scan")
      /\ ret' = Called /\ ~HasRow' /\ ret' # End /\ ret # End /\ at' \in Operators
      /\ buffer' = IF HasRow THEN Append(buffer, ret) ELSE buffer
  BY Facts DEF SortPull, CallChild, Running, Child, BelowSort, scanVars, sortVars, userVars, HasRow, Called,
       End, Operators
<1>2. /\ buffer' \in Seq(1 .. TableSize) /\ Len(buffer') \in Nat /\ Len(buffer') >= Len(buffer)
      /\ ToSet(buffer') = ToSet(buffer) \cup (IF HasRow THEN {ret} ELSE {})
  <2>1. CASE HasRow
    <3>1. ret \in 1 .. TableSize /\ buffer \in Seq(1 .. TableSize) /\ buffer' = Append(buffer, ret)
      BY <1>1, <2>1, Facts DEF HasRow
    <3>2. PICK T : T = 1 .. TableSize
      OBVIOUS
    <3>3. ret \in T /\ buffer \in Seq(T)
      BY <3>1, <3>2
    <3>4. /\ Append(buffer, ret) \in Seq(T)
          /\ Len(Append(buffer, ret)) = Len(buffer) + 1 /\ Len(buffer) \in Nat
      BY <3>3, Appended
    <3>5. ToSet(Append(buffer, ret)) = ToSet(buffer) \cup {ret}
      BY <3>3, Appended
    <3> QED
      BY <2>1, <3>1, <3>2, <3>4, <3>5
  <2>2. CASE ~HasRow
    BY <1>1, <2>2, Facts
  <2> QED
    BY <2>1, <2>2
<1>3. LimitStopsTheScan'
  <2>1. sent' \in 0 .. Len(buffer')
    BY <1>1, <1>2, Facts
  <2> QED
    BY <1>1, <1>2, <2>1, Facts DEF IInv, LimitStopsTheScan, TypeOK, Operators, TableSize, Limited
<1>4. StreamInv'
  BY <1>1 DEF IInv, StreamInv
<1>5. LoadInv'
  <2>1. HasRow => ret \in Passing(query, scanned)
    BY <1>1, Facts, PassingFacts DEF IInv, LoadInv, HasRow
  <2> QED
    BY <1>1, <1>2, <2>1 DEF IInv, LoadInv, Coming
<1>6. SentInv'
  BY <1>1 DEF IInv, SentInv
<1>7. SeenInv'
  BY <1>1 DEF IInv, SeenInv, Limited
<1>8. ControlInv'
  BY <1>1 DEF IInv, ControlInv
<1> QED
  BY <1>1, <1>3, <1>4, <1>5, <1>6, <1>7, <1>8, Facts DEF IInv

LEMMA SortLoadedStep == ASSUME IInv, SortLoaded PROVE IInv'
<1>1. /\ query' = query /\ scanned' = scanned /\ out' = out /\ loaded' /\ loaded' \in BOOLEAN /\ ~loaded
      /\ sent' = sent /\ seen' = seen /\ done' = done
      /\ at = "sort" /\ query.sorted /\ at' = at
      /\ ret = End /\ ret' = Called /\ ~HasRow' /\ ~HasRow /\ ret' # End
      /\ buffer' \in [DOMAIN buffer -> ToSet(buffer)]
      /\ ToSet(buffer') = ToSet(buffer) /\ InOrder(query, buffer')
  BY Facts DEF SortLoaded, Running, scanVars, sortVars, userVars, HasRow, Called, End, Operators
<1>2. buffer' \in Seq(1 .. TableSize) /\ Len(buffer') = Len(buffer)
  <2>1. DOMAIN buffer = 1 .. Len(buffer) /\ Len(buffer) \in Nat /\ ToSet(buffer) \subseteq 1 .. TableSize
    BY Facts, Elements
  <2>2. buffer' \in [1 .. Len(buffer) -> 1 .. TableSize]
    BY <1>1, <2>1
  <2> QED
    BY <2>1, <2>2, FunctionIsSeq
<1>3. LimitStopsTheScan'
  BY <1>1, <1>2, Facts DEF IInv, LimitStopsTheScan, TypeOK, Operators, TableSize, Limited
<1>4. scanned = TableSize /\ out = <<>> /\ sent = 0 /\ ToSet(buffer) = Passing(query, scanned)
  BY <1>1 DEF IInv, LoadInv, Coming
<1>5. StreamInv'
  BY <1>1 DEF IInv, StreamInv
<1>6. LoadInv'
  BY <1>1 DEF IInv, LoadInv
<1>7. SentInv'
  <2>1. Len(out) = 0 /\ DOMAIN out = {}
    BY <1>4
  <2> QED
    BY <1>1, <1>4, <2>1 DEF IInv, SentInv, TableSize
<1>8. SeenInv'
  BY <1>1 DEF IInv, SeenInv, Limited
<1>9. ControlInv'
  BY <1>1 DEF IInv, ControlInv
<1> QED
  BY <1>1, <1>3, <1>5, <1>6, <1>7, <1>8, <1>9, Facts DEF IInv

LEMMA SortNextStep == ASSUME IInv, SortNext PROVE IInv'
<1>1. /\ query' = query /\ scanned' = scanned /\ out' = out /\ buffer' = buffer /\ loaded' = loaded
      /\ loaded /\ seen' = seen /\ done' = done
      /\ at = "sort" /\ query.sorted /\ at' = "project" /\ at' \in Operators
      /\ ret = Called /\ ~HasRow /\ ret # End
  <2>1. ret = Called
    BY Facts DEF SortNext, Running, IInv, SentInv, Operators
  <2> QED
    BY <2>1, Facts DEF SortNext, Return, Running, Parent, scanVars, userVars, HasRow, Called, End, Operators
<1>2. \/ sent < Len(buffer) /\ sent' = sent + 1 /\ ret' = buffer[sent + 1]
      \/ sent = Len(buffer) /\ sent' = sent /\ ret' = End
  BY Facts DEF SortNext, Return
<1>3. sent < Len(buffer) => buffer[sent + 1] \in 1 .. TableSize
  <2>1. sent < Len(buffer) => sent + 1 \in 1 .. Len(buffer)
    BY Facts
  <2> QED
    BY <2>1, Facts, Elements
<1>4. /\ sent' \in 0 .. Len(buffer) /\ ret' \in {Called, End} \cup 1 .. TableSize
      /\ HasRow' => sent' = sent + 1 /\ ret' = buffer[sent'] /\ sent' - 1 = sent /\ sent' > 0
      /\ ~HasRow' => sent' = sent
      /\ ret' = End => sent' = Len(buffer)
      /\ ret' # Called
  BY <1>2, <1>3, Facts DEF HasRow, Called, End
<1>5. LimitStopsTheScan'
  BY <1>1, <1>4, Facts DEF IInv, LimitStopsTheScan, TypeOK, Operators, TableSize, Limited
<1>6. StreamInv'
  BY <1>1 DEF IInv, StreamInv
<1>7. LoadInv'
  BY <1>1 DEF IInv, LoadInv
<1>8. SentInv'
  <2>1. \A n \in DOMAIN out : n <= sent' /\ out[n] = buffer[n]
    <3> TAKE n \in DOMAIN out
    <3>1. n \in Nat /\ n <= sent /\ out[n] = buffer[n]
      <4>1. DOMAIN out = 1 .. Len(out)
        BY Facts, Elements
      <4> QED
        BY <1>1, <4>1, Facts DEF IInv, SentInv
    <3>2. sent <= sent' /\ sent \in Nat /\ sent' \in Nat
      BY <1>4, Facts
    <3> QED
      BY <3>1, <3>2
  <2> QED
    BY <1>1, <1>4, <2>1 DEF IInv, SentInv, TableSize
<1>9. SeenInv'
  BY <1>1 DEF IInv, SeenInv, Limited
<1>10. ControlInv'
  BY <1>1 DEF IInv, ControlInv
<1> QED
  BY <1>1, <1>5, <1>6, <1>7, <1>8, <1>9, <1>10, Facts DEF IInv

LEMMA ProjectPullStep == ASSUME IInv, ProjectPull PROVE IInv'
<1>1. /\ query' = query /\ scanned' = scanned /\ out' = out /\ buffer' = buffer /\ loaded' = loaded
      /\ sent' = sent /\ seen' = seen /\ done' = done
      /\ at = "project" /\ ret = Called /\ ret' = ret /\ ~HasRow /\ ~HasRow' /\ ret # End
      /\ at' = (IF query.sorted THEN "sort" ELSE IF query.filtered THEN "filter" ELSE "scan")
      /\ at' \in Operators /\ at' \notin {"limit", "consumer"}
  BY Facts DEF ProjectPull, CallChild, Running, Child, BelowSort, scanVars, sortVars, userVars, HasRow, Called,
       End, Operators
<1>2. LimitStopsTheScan'
  BY <1>1, Facts DEF IInv, LimitStopsTheScan, TypeOK, Operators, TableSize, Limited
<1>3. StreamInv'
  BY <1>1 DEF IInv, StreamInv, Coming
<1>4. LoadInv'
  BY <1>1 DEF IInv, LoadInv, Coming
<1>5. SentInv'
  BY <1>1 DEF IInv, SentInv, TableSize
<1>6. SeenInv'
  BY <1>1 DEF IInv, SeenInv, Limited
<1>7. ControlInv'
  BY <1>1 DEF IInv, ControlInv
<1> QED
  BY <1>1, <1>2, <1>3, <1>4, <1>5, <1>6, <1>7, Facts DEF IInv

LEMMA ProjectReturnStep == ASSUME IInv, ProjectReturn PROVE IInv'
<1>1. /\ query' = query /\ scanned' = scanned /\ out' = out /\ buffer' = buffer /\ loaded' = loaded
      /\ sent' = sent /\ seen' = seen /\ done' = done
      /\ at = "project" /\ ret # Called /\ at' = (IF Limited THEN "limit" ELSE "consumer")
      /\ at' \in Operators
      /\ ret' = (IF query.projects THEN ret ELSE End)
      /\ HasRow' <=> HasRow /\ query.projects
      /\ ret' # Called
  BY Facts DEF ProjectReturn, Return, Running, Parent, scanVars, sortVars, userVars, HasRow, Called, End,
       Operators
<1>2. query.sorted => loaded
  BY <1>1 DEF IInv, LoadInv, HasRow
<1>3. LimitStopsTheScan'
  BY <1>1, Facts DEF IInv, LimitStopsTheScan, TypeOK, Operators, TableSize, Limited
<1>4. StreamInv'
  BY <1>1, PassingNow DEF IInv, StreamInv, Coming, TableSize
<1>5. LoadInv'
  BY <1>1, <1>2 DEF LoadInv
<1>6. SentInv'
  BY <1>1 DEF IInv, SentInv, TableSize
<1>7. SeenInv'
  BY <1>1 DEF IInv, SeenInv, Limited
<1>8. ControlInv'
  BY <1>1 DEF IInv, ControlInv
<1> QED
  BY <1>1, <1>3, <1>4, <1>5, <1>6, <1>7, <1>8, Facts DEF IInv

LEMMA LimitStopStep == ASSUME IInv, LimitStop PROVE IInv'
<1>1. /\ query' = query /\ scanned' = scanned /\ out' = out /\ buffer' = buffer /\ loaded' = loaded
      /\ sent' = sent /\ seen' = seen /\ done' = done
      /\ at = "limit" /\ ret = Called /\ ret # End /\ ~HasRow
      /\ at' = "consumer" /\ at' \in Operators /\ ret' = End /\ ~HasRow' /\ Limited
  BY Facts DEF LimitStop, Return, Running, Parent, scanVars, sortVars, userVars, HasRow, Called, End,
       Operators
<1>2. Full /\ Full'
  <2>1. seen >= query.limit /\ seen = Len(out) + 0
    BY <1>1 DEF LimitStop, IInv, SeenInv
  <2> QED
    BY <1>1, <2>1, Facts DEF Full, Limited
<1>3. LimitStopsTheScan'
  BY <1>1, Facts DEF IInv, LimitStopsTheScan, TypeOK, Operators, TableSize, Limited
<1>4. StreamInv'
  BY <1>1, <1>2 DEF IInv, StreamInv, Coming
<1>5. LoadInv'
  BY <1>1, <1>2 DEF IInv, LoadInv, Coming
<1>6. SentInv'
  BY <1>1, <1>2 DEF IInv, SentInv, TableSize
<1>7. SeenInv'
  BY <1>1 DEF IInv, SeenInv, Limited
<1>8. ControlInv'
  BY <1>1 DEF IInv, ControlInv
<1> QED
  BY <1>1, <1>3, <1>4, <1>5, <1>6, <1>7, <1>8, Facts DEF IInv

LEMMA LimitPullStep == ASSUME IInv, LimitPull PROVE IInv'
<1>1. /\ query' = query /\ scanned' = scanned /\ out' = out /\ buffer' = buffer /\ loaded' = loaded
      /\ sent' = sent /\ seen' = seen /\ done' = done
      /\ at = "limit" /\ ret = Called /\ ret # End /\ ~HasRow /\ seen < query.limit
      /\ at' = "project" /\ at' \in Operators /\ ret' = ret /\ ~HasRow'
  BY Facts DEF LimitPull, CallChild, Running, Child, scanVars, sortVars, userVars, HasRow, Called, End,
       Operators
<1>2. LimitStopsTheScan'
  BY <1>1, Facts DEF IInv, LimitStopsTheScan, TypeOK, Operators, TableSize, Limited
<1>3. StreamInv'
  BY <1>1 DEF IInv, StreamInv, Coming
<1>4. LoadInv'
  BY <1>1 DEF IInv, LoadInv, Coming
<1>5. SentInv'
  BY <1>1 DEF IInv, SentInv, TableSize
<1>6. SeenInv'
  BY <1>1 DEF IInv, SeenInv, Limited
<1>7. ControlInv'
  BY <1>1 DEF IInv, ControlInv
<1> QED
  BY <1>1, <1>2, <1>3, <1>4, <1>5, <1>6, <1>7, Facts DEF IInv

LEMMA LimitReturnStep == ASSUME IInv, LimitReturn PROVE IInv'
<1>1. /\ query' = query /\ scanned' = scanned /\ out' = out /\ buffer' = buffer /\ loaded' = loaded
      /\ sent' = sent /\ done' = done
      /\ at = "limit" /\ ret # Called /\ Limited /\ (HasRow <=> ret # End)
      /\ at' = "consumer" /\ at' \in Operators /\ ret' = ret /\ HasRow' = HasRow
      /\ seen' = IF HasRow THEN seen + 1 ELSE seen
  BY Facts DEF LimitReturn, Return, Running, Parent, scanVars, sortVars, userVars, HasRow, Called, End,
       Operators
<1>2. query.sorted => loaded
  BY <1>1 DEF IInv, LoadInv
<1>3. seen = Len(out) + 0 /\ seen < query.limit /\ seen' \in Nat /\ query.limit \in Nat
  BY <1>1, Facts DEF IInv, SeenInv
<1>4. LimitStopsTheScan'
  BY <1>1, <1>3, Facts DEF IInv, LimitStopsTheScan, TypeOK, Operators, TableSize, Limited
<1>5. StreamInv'
  BY <1>1 DEF IInv, StreamInv, Coming, TableSize
<1>6. LoadInv'
  BY <1>1, <1>2 DEF LoadInv
<1>7. SentInv'
  BY <1>1 DEF IInv, SentInv, TableSize
<1>8. SeenInv'
  BY <1>1, <1>3, Facts DEF SeenInv, Limited
<1>9. ControlInv'
  BY <1>1 DEF IInv, ControlInv
<1> QED
  BY <1>1, <1>4, <1>5, <1>6, <1>7, <1>8, <1>9, Facts DEF IInv

LEMMA PullStep == ASSUME IInv, Pull PROVE IInv'
<1>1. /\ query' = query /\ scanned' = scanned /\ buffer' = buffer /\ loaded' = loaded
      /\ sent' = sent /\ seen' = seen /\ done' = done
      /\ at = "consumer" /\ ret # End /\ (ret = Called <=> ~HasRow)
      /\ at' = (IF Limited THEN "limit" ELSE "project") /\ at' \in Operators
      /\ ret' = Called /\ ~HasRow' /\ ret' # End
      /\ out' = IF HasRow THEN Append(out, ret) ELSE out
  BY Facts DEF Pull, CallChild, Running, Child, scanVars, sortVars, userVars, HasRow, Called, End, Operators
<1>2. HasRow => ret \in 1 .. TableSize
  BY Facts DEF HasRow
<1>3. /\ out' \in Seq(1 .. TableSize)
      /\ HasRow => /\ Len(out') = Len(out) + 1 /\ DOMAIN out' = 1 .. Len(out) + 1
                   /\ \A n \in 1 .. Len(out) : out'[n] = out[n]
                   /\ out'[Len(out) + 1] = ret
                   /\ ToSet(out') = ToSet(out) \cup {ret}
  <2>1. CASE HasRow
    <3>1. ret \in 1 .. TableSize /\ out \in Seq(1 .. TableSize) /\ out' = Append(out, ret)
      BY <1>1, <1>2, <2>1, Facts
    <3>2. PICK T : T = 1 .. TableSize
      OBVIOUS
    <3>3. ret \in T /\ out \in Seq(T)
      BY <3>1, <3>2
    <3>4. /\ Append(out, ret) \in Seq(T)
          /\ Len(Append(out, ret)) = Len(out) + 1 /\ DOMAIN Append(out, ret) = 1 .. Len(out) + 1
          /\ \A n \in 1 .. Len(out) : Append(out, ret)[n] = out[n]
          /\ Append(out, ret)[Len(out) + 1] = ret
      BY <3>3, Appended
    <3>5. ToSet(Append(out, ret)) = ToSet(out) \cup {ret}
      BY <3>3, Appended
    <3> QED
      BY <3>1, <3>2, <3>4, <3>5
  <2>2. CASE ~HasRow
    BY <1>1, <2>2, Facts
  <2> QED
    BY <2>1, <2>2
<1>4. HasRow => query.projects /\ (query.sorted => loaded)
  BY <1>1 DEF IInv, ControlInv, LoadInv
<1>5. LimitStopsTheScan'
  BY <1>1, <1>3, Facts DEF IInv, LimitStopsTheScan, TypeOK, Operators, TableSize, Limited
<1>6. StreamInv'
  <2>1. CASE ~HasRow
    BY <1>1, <2>1 DEF IInv, StreamInv, Coming
  <2>2. CASE HasRow /\ ~query.sorted
    <3>1. /\ ret = scanned /\ Passes(query, ret) /\ scanned > 0 /\ scanned \in Nat
          /\ ToSet(out) \subseteq Passing(query, scanned - 1) /\ InOrder(query, out)
          /\ \A r \in Passing(query, scanned) : r \in ToSet(out) \/ r = ret
      BY <1>1, <1>2, <2>2, Facts DEF IInv, StreamInv, Coming
    <3>2. ret \in Passing(query, scanned)
      BY <3>1, PassingFacts
    <3>3. InOrder(query, out')
      <4>1. ASSUME NEW x \in ToSet(out) PROVE Before(query, x, ret)
        <5>1. x \in 1 .. scanned - 1
          BY <3>1, PassingNow
        <5>2. x < ret
          BY <3>1, <5>1
        <5> QED
          BY <2>2, <5>2 DEF Before
      <4> QED
        BY <1>1, <1>2, <2>2, <3>1, <4>1, Facts, InOrderAppend
    <3> QED
      BY <1>1, <1>3, <2>2, <3>1, <3>2, <3>3, PassingNow DEF StreamInv, Coming
  <2>3. CASE query.sorted
    BY <1>1, <2>3 DEF StreamInv
  <2> QED
    BY <2>1, <2>2, <2>3
<1>7. LoadInv'
  BY <1>1, <1>4 DEF IInv, LoadInv, Coming
<1>8. SentInv'
  <2>1. CASE ~HasRow
    BY <1>1, <2>1 DEF IInv, SentInv, TableSize
  <2>2. CASE HasRow /\ query.sorted
    <3>1. /\ sent > 0 /\ ret = buffer[sent] /\ Len(out) = sent - 1
          /\ ToSet(buffer) = Passing(query, TableSize) /\ InOrder(query, buffer)
          /\ \A n \in DOMAIN out : n <= sent /\ out[n] = buffer[n]
      BY <1>1, <1>4, <2>2 DEF IInv, SentInv
    <3>2. Len(out) + 1 = sent /\ DOMAIN out = 1 .. Len(out) /\ Len(out) \in Nat
      BY <3>1, Facts, Elements
    <3>3. \A n \in DOMAIN out' : n <= sent /\ out'[n] = buffer[n]
      <4> TAKE n \in DOMAIN out'
      <4>1. n \in 1 .. Len(out) \/ n = sent
        BY <1>3, <2>2, <3>2
      <4>2. sent <= sent
        BY Facts
      <4> QED
        BY <1>3, <2>2, <3>1, <3>2, <4>1, <4>2
    <3>4. Len(out') = sent
      BY <1>3, <2>2, <3>2
    <3> QED
      BY <1>1, <1>4, <2>2, <3>1, <3>3, <3>4 DEF SentInv, TableSize
  <2>3. CASE ~query.sorted
    BY <1>1, <2>3 DEF SentInv
  <2> QED
    BY <2>1, <2>2, <2>3
<1>9. SeenInv'
  <2>1. CASE ~HasRow
    BY <1>1, <2>1 DEF IInv, SeenInv, Limited
  <2>2. CASE HasRow /\ Limited
    <3>1. seen = Len(out) + 1 /\ seen <= query.limit /\ Len(out') = Len(out) + 1
      BY <1>1, <1>3, <2>2 DEF IInv, SeenInv
    <3>2. Len(out') + 0 = Len(out')
      BY <3>1, Facts
    <3> QED
      BY <1>1, <2>2, <3>1, <3>2 DEF SeenInv, Limited
  <2>3. CASE ~Limited
    BY <1>1, <2>3 DEF SeenInv, Limited
  <2> QED
    BY <2>1, <2>2, <2>3
<1>10. ControlInv'
  BY <1>1, <1>4 DEF IInv, ControlInv
<1> QED
  BY <1>1, <1>5, <1>6, <1>7, <1>8, <1>9, <1>10, Facts DEF IInv

LEMMA StopStep == ASSUME IInv, Stop PROVE IInv'
<1>1. /\ UNCHANGED <<query, at, ret, scanned, buffer, loaded, sent, seen, out>> /\ done' \in BOOLEAN
      /\ at = "consumer" /\ ret = End
  BY DEF Stop, Running, scanVars, sortVars
<1> QED
  BY <1>1 DEF IInv, LimitStopsTheScan, TypeOK, Operators, TableSize, StreamInv, LoadInv, SentInv, SeenInv,
     ControlInv, Coming, Full, Limited, HasRow

LEMMA PipelineInvariant == Spec => []IInv
<1>1. Init => IInv
  <2> SUFFICES ASSUME Init PROVE IInv
      OBVIOUS
  <2>1. /\ query \in Queries /\ at = "consumer" /\ ret = Called /\ scanned = 0 /\ buffer = <<>>
        /\ loaded = FALSE /\ sent = 0 /\ seen = 0 /\ out = <<>> /\ done = FALSE
        /\ ~HasRow /\ ret # End
    BY DEF Init, HasRow, Called, End
  <2>2. /\ TableSize \in Nat /\ (Limited => query.limit \in Nat) /\ Passing(query, 0) = {}
        /\ ToSet(out) = {} /\ ToSet(buffer) = {} /\ Len(out) = 0 /\ Len(buffer) = 0
        /\ out \in Seq(1 .. TableSize) /\ buffer \in Seq(1 .. TableSize)
        /\ InOrder(query, out) /\ DOMAIN out = {}
    <3>1. TableSize \in Nat /\ (Limited => query.limit \in Nat)
      BY <2>1, QueryFacts DEF TableSize, Limited
    <3>2. Passing(query, 0) = {}
      BY PassingFacts
    <3>3. /\ Len(<<>>) = 0 /\ DOMAIN <<>> = {} /\ <<>> \in Seq(1 .. TableSize)
          /\ ToSet(<<>>) = {}
      BY DEF ToSet
    <3>4. InOrder(query, <<>>)
      BY <3>3 DEF InOrder
    <3> QED
      BY <2>1, <3>1, <3>2, <3>3, <3>4
  <2>3. LimitStopsTheScan
    <3>1. TypeOK
      <4>1. at \in Operators /\ ret \in {Called, End} \cup 1 .. TableSize /\ loaded \in BOOLEAN /\ done \in BOOLEAN
        BY <2>1 DEF Operators
      <4>2. scanned \in 0 .. TableSize /\ sent \in 0 .. Len(buffer) /\ seen \in Nat
        BY <2>1, <2>2
      <4> QED
        BY <2>2, <4>1, <4>2 DEF TypeOK
    <3> QED
      BY <2>1, <3>1 DEF LimitStopsTheScan
  <2>4. StreamInv /\ LoadInv /\ SentInv
    BY <2>1, <2>2 DEF StreamInv, LoadInv, SentInv
  <2>5. SeenInv /\ ControlInv
    BY <2>1, <2>2 DEF SeenInv, ControlInv
  <2> QED
    BY <2>1, <2>3, <2>4, <2>5 DEF IInv
<1>2. IInv /\ [Next]_vars => IInv'
  <2> SUFFICES ASSUME IInv, [Next]_vars PROVE IInv'
      OBVIOUS
  <2>1. CASE Next
    BY <2>1, ScanNextStep, FilterPullStep, FilterReturnStep, SortPullStep, SortLoadedStep, SortNextStep,
       ProjectPullStep, ProjectReturnStep, LimitStopStep, LimitPullStep, LimitReturnStep, PullStep, StopStep
       DEF Next, Filter, Sort, Project, Limit
  <2>2. CASE UNCHANGED vars
    BY <2>2 DEF vars, IInv, LimitStopsTheScan, TypeOK, Operators, TableSize, StreamInv, LoadInv, SentInv,
       SeenInv, ControlInv, Coming, Full, Limited, HasRow
  <2> QED
    BY <2>1, <2>2
<1> QED
  BY <1>1, <1>2, PTL DEF Spec

(* LIMIT stops the scan: over any table, a plan without Sort reads no row once
   it has read as many selected ones as it may return, and LIMIT 0 reads none
   (Limit.Next asks its child only while seen is below the cap). *)
THEOREM LimitReadsNoMore == Spec => []LimitStopsTheScan
<1>1. IInv => LimitStopsTheScan
  BY DEF IInv
<1> QED
  BY PipelineInvariant, <1>1, PTL

(* The answer of every statement over every table, whatever of WHERE, ORDER BY
   and LIMIT it has: the selected rows in the order asked for, none skipped, cut
   at LIMIT, and all of them when the consumer sees the end. *)
THEOREM TheAnswerIsRight == Spec => []AnswerIsRight
<1>1. ASSUME IInv PROVE AnswerIsRight
  <2> DEFINE all == Passing(query, TableSize)
  <2>1. Limited => Len(out) <= query.limit
    BY <1>1, Facts DEF IInv, SeenInv
  <2>2. CASE ~query.sorted
    <3>1. ToSet(out) \subseteq Passing(query, scanned) /\ InOrder(query, out)
      BY <1>1, <2>2, PassingNow DEF IInv, StreamInv
    <3>2. Passing(query, scanned) \subseteq all
      BY <1>1, Facts, PassingFacts
    <3>3. ASSUME NEW r \in all, NEW s \in ToSet(out), Before(query, r, s)
          PROVE  r \in ToSet(out)
      <4>1. r < s /\ r \in 1 .. TableSize /\ Passes(query, r)
        BY <1>1, <2>2, <3>3, Facts, PassingFacts DEF Before
      <4>2. s \in 1 .. scanned
        BY <1>1, <3>1, PassingNow
      <4>3. r \in Passing(query, scanned)
        BY <1>1, <4>1, <4>2, Facts, PassingFacts
      <4>4. query.projects
        <5>1. out # <<>>
          BY <1>1, Facts, Elements
        <5> QED
          BY <1>1, <5>1 DEF IInv, ControlInv
      <4>5. HasRow => r # ret
        <5> SUFFICES ASSUME HasRow PROVE r # ret
            OBVIOUS
        <5>1. ret = scanned /\ s \in Passing(query, scanned - 1)
          BY <1>1, <2>2 DEF IInv, StreamInv
        <5>2. s \in 1 .. scanned - 1
          BY <1>1, <4>2, <5>1, Facts, PassingNow
        <5> QED
          BY <4>1, <5>1, <5>2
      <4> QED
        BY <1>1, <2>2, <4>3, <4>4, <4>5 DEF IInv, StreamInv, Coming
    <3>4. ASSUME done, query.projects, ~Full PROVE ToSet(out) = all
      <4>1. ret = End /\ ~HasRow /\ scanned = TableSize
        BY <1>1, <2>2, <3>4 DEF IInv, ControlInv, StreamInv, HasRow
      <4>2. all \subseteq ToSet(out)
        BY <1>1, <2>2, <3>4, <4>1 DEF IInv, StreamInv, Coming
      <4> QED
        BY <3>1, <4>1, <4>2
    <3> QED
      BY <2>1, <3>1, <3>2, <3>3, <3>4 DEF AnswerIsRight
  <2>3. CASE query.sorted /\ ~loaded
    <3>1. out = <<>> /\ ToSet(out) = {} /\ InOrder(query, out)
      BY <1>1, <2>3 DEF IInv, LoadInv, ToSet, InOrder
    <3>2. done => Full
      BY <1>1, <2>3 DEF IInv, LoadInv, ControlInv
    <3> QED
      BY <2>1, <3>1, <3>2 DEF AnswerIsRight
  <2>4. CASE query.sorted /\ loaded
    <3>1. /\ ToSet(buffer) = all /\ InOrder(query, buffer)
          /\ \A n \in DOMAIN out : n <= sent /\ out[n] = buffer[n]
      BY <1>1, <2>4 DEF IInv, SentInv
    <3>2. /\ DOMAIN out = 1 .. Len(out) /\ DOMAIN buffer = 1 .. Len(buffer)
          /\ Len(out) \in Nat /\ Len(buffer) \in Nat /\ sent \in Nat /\ sent <= Len(buffer)
      BY <1>1, Facts, Elements
    <3>3. \A n \in 1 .. Len(out) : n \in 1 .. Len(buffer) /\ out[n] = buffer[n]
      BY <3>1, <3>2
    <3>4. /\ \A x : x \in ToSet(out) <=> \E n \in 1 .. Len(out) : x = out[n]
          /\ \A x : x \in ToSet(buffer) <=> \E n \in 1 .. Len(buffer) : x = buffer[n]
      BY <1>1, Facts, Elements
    <3>5. ToSet(out) \subseteq all
      BY <3>1, <3>3, <3>4
    <3>6. InOrder(query, out)
      BY <3>1, <3>2, <3>3 DEF InOrder
    <3>7. ASSUME NEW r \in all, NEW s \in ToSet(out), Before(query, r, s)
          PROVE  r \in ToSet(out)
      <4>1. PICK m \in 1 .. Len(buffer) : r = buffer[m]
        BY <3>1, <3>4
      <4>2. PICK n \in 1 .. Len(out) : s = out[n]
        BY <3>4
      <4>3. n \in 1 .. Len(buffer) /\ s = buffer[n]
        BY <3>3, <4>2
      <4>4. ~(n < m) /\ n # m
        <5>1. r \in 1 .. TableSize /\ s \in 1 .. TableSize /\ query \in Queries
          BY <1>1, <3>5, Facts, PassingFacts
        <5>2. ~Before(query, s, r) /\ r # s
          BY <3>7, <5>1, BeforeIsStrict DEF TableSize
        <5>3. n < m => Before(query, s, r)
          BY <3>1, <3>2, <4>1, <4>3 DEF InOrder
        <5> QED
          BY <4>1, <4>3, <5>2, <5>3
      <4>5. m \in 1 .. Len(out)
        BY <3>2, <4>1, <4>2, <4>4
      <4> QED
        BY <3>3, <3>4, <4>1, <4>5
    <3>8. ASSUME done, query.projects, ~Full PROVE ToSet(out) = all
      <4>1. ret = End /\ ~HasRow /\ sent = Len(buffer) /\ Len(out) = sent
        BY <1>1, <2>4, <3>8 DEF IInv, ControlInv, SentInv, HasRow
      <4>2. \A n \in 1 .. Len(buffer) : n \in 1 .. Len(out) /\ out[n] = buffer[n]
        BY <3>2, <3>3, <4>1
      <4>3. all \subseteq ToSet(out)
        BY <3>1, <3>4, <4>2
      <4> QED
        BY <3>5, <4>3
    <3> QED
      BY <2>1, <3>5, <3>6, <3>7, <3>8 DEF AnswerIsRight
  <2> QED
    BY <2>2, <2>3, <2>4
<1> QED
  BY PipelineInvariant, <1>1, PTL
=============================================================================
