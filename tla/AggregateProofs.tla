-------------------------- MODULE AggregateProofs --------------------------
(***************************************************************************)
(* The aggregate operator splits its rows into the classes of equal        *)
(* grouping values, keeps for each class what its rows determine, returns  *)
(* that as its answer, and returns nothing once an expression has failed.  *)
(***************************************************************************)
EXTENDS Aggregate, ValuesProofs, FiniteSetTheorems

-----------------------------------------------------------------------------
(* The state of an aggregate keeps its type, whatever it is stepped with. *)

LEMMA ZeroStateTyped == ZeroState \in States
<1>1. 0 \in IntRange /\ 0 \in Floats
  BY IntCutoffAssumption, FloatsAssumption DEF IntRange
<1>2. Float64(0) \in FloatValues
  BY <1>1 DEF FloatValues
<1>3. Int64(0) \in Values
  BY <1>1 DEF Values, IntValues
<1> HIDE DEF FloatValues, Values, IntRange
<1> QED
  BY <1>1, <1>2, <1>3 DEF ZeroState, States

LEMMA StepStateTyped ==
    ASSUME NEW spec \in Specs, NEW st \in States, NEW v \in Values \cup {NoValue},
           v = NoValue => spec.kind = "COUNT" /\ spec.star
    PROVE  StepState(spec, st, v) \in States
<1>1. /\ st.count \in Int /\ st.intSum \in Int /\ st.floatSum.x \in Int
      /\ st \in [count : IntRange, intSum : IntRange, floatSum : FloatValues,
                 seen : BOOLEAN, best : Values]
  <2>1. IntRange \subseteq Int
    BY IntCutoffAssumption DEF IntRange
  <2>2. /\ st.count \in IntRange /\ st.intSum \in IntRange /\ st.floatSum \in FloatValues
        /\ st \in [count : IntRange, intSum : IntRange, floatSum : FloatValues,
                 seen : BOOLEAN, best : Values]
    BY DEF States
  <2>3. st.floatSum.x \in Int
    BY <2>2, FloatNumber
  <2> QED
    BY <2>1, <2>2, <2>3
<1>2. ASSUME v \in Values, ~IsNull(v) PROVE v.x \in Int /\ AsFloat(v).x \in Int
  <2>1. v.x \in Int /\ (v.type = TInt => v.x \in IntRange)
    BY <1>2, ValueNumber
  <2>2. ASSUME v.x \in IntRange PROVE ToFloat(v.x) \in Int
    <3>1. 2 * v.x \in Int /\ -Inf <= 2 * v.x /\ 2 * v.x <= Inf
      BY <2>1, <2>2, InfFacts, IntCutoffAssumption DEF IntRange
    <3>2. Round[2 * v.x] \in Floats
      BY <3>1, RoundIsFloat
    <3> QED
      BY <3>2, FloatsAssumption DEF ToFloat
  <2> QED
    BY <2>1, <2>2 DEF AsFloat, Float64
<1>3. Counted(st) \in States /\ Counted(st).floatSum = st.floatSum
  <2>1. IntAdd(st.count, 1) \in IntRange
    BY <1>1, IntAddRange
  <2> HIDE DEF States
  <2> QED
    BY <1>1, <2>1 DEF Counted, States
<1>4. ASSUME v \in Values, ~IsNull(v)
      PROVE  /\ IntAdd(st.intSum, v.x) \in IntRange
             /\ FloatAdd(st.floatSum, v) \in FloatValues
             /\ FloatAdd(st.floatSum, AsFloat(v)) \in FloatValues
  BY <1>1, <1>2, <1>4, IntAddRange, FloatAddIsFloat
<1>5. CASE spec.kind = "COUNT"
  BY <1>3, <1>5 DEF StepState
<1>6. CASE spec.kind # "COUNT" /\ (IsNull(v) \/ IsNaN(v))
  BY <1>6 DEF StepState
<1>7. CASE spec.kind # "COUNT" /\ ~IsNull(v) /\ ~IsNaN(v)
  <2>0. v \in Values
    BY <1>7
  <2>1. CASE spec.kind = "SUM" /\ v.type = TInt
    <3>1. StepState(spec, st, v) = [st EXCEPT !.seen = TRUE, !.intSum = IntAdd(@, v.x)]
      BY <1>7, <2>1 DEF StepState
    <3> QED
      BY <1>1, <1>4, <1>7, <2>0, <3>1 DEF States
  <2>2. CASE spec.kind = "SUM" /\ v.type # TInt
    <3>1. StepState(spec, st, v) = [st EXCEPT !.seen = TRUE, !.floatSum = FloatAdd(@, v)]
      BY <1>7, <2>2 DEF StepState
    <3> QED
      BY <1>1, <1>4, <1>7, <2>0, <3>1 DEF States
  <2>3. CASE spec.kind = "AVG"
    <3>1. StepState(spec, st, v) = [Counted(st) EXCEPT !.floatSum = FloatAdd(@, AsFloat(v))]
      BY <1>7, <2>3 DEF StepState
    <3> QED
      BY <1>3, <1>4, <1>7, <2>0, <3>1 DEF States
  <2>4. CASE spec.kind \in {"MIN", "MAX"}
    <3>1. StepState(spec, st, v) \in {[st EXCEPT !.seen = TRUE, !.best = v], st}
      BY <1>7, <2>4 DEF StepState
    <3>2. [st EXCEPT !.seen = TRUE, !.best = v] \in States
      BY <1>1, <2>0 DEF States
    <3> QED
      BY <3>1, <3>2
  <2>5. spec.kind \in {"COUNT", "SUM", "AVG", "MIN", "MAX"}
    BY DEF Specs, AggregateKinds
  <2> HIDE DEF States
  <2> QED
    BY <1>7, <2>1, <2>2, <2>3, <2>4, <2>5
<1> QED
  BY <1>5, <1>6, <1>7

-----------------------------------------------------------------------------
(* What the invariant knows of the query, and of the groups. *)
LEMMA QueryFacts ==
    ASSUME StateTypes
    PROVE  /\ grouped \in BOOLEAN /\ specs \in Seq(Specs)
           /\ Len(rows) \in Nat /\ DOMAIN rows = 1 .. Len(rows)
           /\ \A s \in DOMAIN specs : specs[s] \in Specs
           /\ \A r \in 1 .. Len(rows) :
                 /\ rows[r].group \in Seq(Values \cup {NoValue})
                 /\ grouped <=> rows[r].group # <<>>
                 /\ \A s \in DOMAIN specs : rows[r].args[s] \in Values \cup {NoValue}
           /\ \A r, m \in 1 .. Len(rows) : Len(rows[r].group) = Len(rows[m].group)
<1> DEFINE R == [group : Seq(Values \cup {NoValue}),
                 args : [DOMAIN specs -> Values \cup {NoValue}]]
<1>1. /\ grouped \in BOOLEAN /\ specs \in Seq(Specs) /\ rows \in Seq(R)
      /\ \A r \in DOMAIN rows : grouped <=> rows[r].group # <<>>
      /\ \A r, m \in DOMAIN rows : Len(rows[r].group) = Len(rows[m].group)
  <2>1. PICK q \in Queries : grouped = q.grouped /\ specs = q.specs /\ rows = q.rows
    BY DEF StateTypes
  <2> QED
    BY <2>1, QueriesAssumption
<1>2. Len(rows) \in Nat /\ DOMAIN rows = 1 .. Len(rows)
      /\ \A r \in 1 .. Len(rows) : rows[r] \in R
  <2> HIDE DEF R
  <2> QED
    BY <1>1, SeqElements
<1>3. \A r \in 1 .. Len(rows) :
          /\ rows[r].group \in Seq(Values \cup {NoValue})
          /\ \A s \in DOMAIN specs : rows[r].args[s] \in Values \cup {NoValue}
  <2> TAKE r \in 1 .. Len(rows)
  <2>1. rows[r] \in R
    BY <1>2
  <2>2. rows[r].args \in [DOMAIN specs -> Values \cup {NoValue}]
    BY <2>1
  <2> QED
    BY <2>1, <2>2
<1>4. \A s \in DOMAIN specs : specs[s] \in Specs
  <2> HIDE DEF R
  <2> QED
    BY <1>1, SeqElements
<1> QED
  BY <1>1, <1>2, <1>3, <1>4

LEMMA GroupFacts ==
    ASSUME StateTypes
    PROVE  /\ Len(groups) \in Nat /\ DOMAIN groups = 1 .. Len(groups)
           /\ \A g \in 1 .. Len(groups) :
                 /\ groups[g] \in GroupRecords
                 /\ groups[g].values \in Seq(Values)
                 /\ groups[g].states \in [DOMAIN specs -> States]
           /\ DOMAIN out = 1 .. index
           /\ \A n \in 1 .. index : out[n] = Answer(groups[n])
<1>1. /\ Len(groups) \in Nat /\ DOMAIN groups = 1 .. Len(groups)
      /\ \A g \in 1 .. Len(groups) : groups[g] \in GroupRecords
  BY SeqElements DEF StateTypes
<1>2. \A g \in 1 .. Len(groups) :
          groups[g].values \in Seq(Values) /\ groups[g].states \in [DOMAIN specs -> States]
  BY <1>1 DEF GroupRecords
<1>3. DOMAIN out = 1 .. index /\ \A n \in 1 .. index : out[n] = Answer(groups[n])
  BY DEF StateTypes, AnswersEmitted
<1> QED
  BY <1>1, <1>2, <1>3

(* A new group, and a group after a row. *)
LEMMA NewGroupTyped ==
    ASSUME NEW t \in Seq(Values)
    PROVE  NewGroup(t) \in GroupRecords /\ NewGroup(t).values = t
<1>1. [s \in DOMAIN specs |-> ZeroState] \in [DOMAIN specs -> States]
  BY ZeroStateTyped
<1> QED
  BY <1>1 DEF NewGroup, GroupRecords

LEMMA StepStatesTyped ==
    ASSUME StateTypes, NEW states \in [DOMAIN specs -> States], NEW r \in 1 .. Len(rows)
    PROVE  StepStates(states, rows[r]) \in [DOMAIN specs -> States]
<1>1. ASSUME NEW s \in DOMAIN specs, ~\E m \in 1 .. s : ArgFails(rows[r], m)
      PROVE  StepState(specs[s], states[s], rows[r].args[s]) \in States
  <2>1. /\ specs[s] \in Specs /\ rows[r].args[s] \in Values \cup {NoValue}
        /\ states[s] \in States
    BY QueryFacts
  <2>2. s \in 1 .. s
    <3>1. Len(specs) \in Nat /\ DOMAIN specs = 1 .. Len(specs)
      BY QueryFacts, SeqElements
    <3> QED
      BY <3>1
  <2>3. rows[r].args[s] = NoValue => specs[s].kind = "COUNT" /\ specs[s].star
    BY <1>1, <2>2 DEF ArgFails
  <2> QED
    BY <2>1, <2>3, StepStateTyped
<1> QED
  BY <1>1 DEF StepStates

LEMMA SteppedGroups ==
    ASSUME StateTypes, NEW gs \in Seq(GroupRecords), NEW g \in 1 .. Len(gs),
           NEW r \in 1 .. Len(rows)
    PROVE  /\ Stepped(gs, g, rows[r]) \in Seq(GroupRecords)
           /\ Len(Stepped(gs, g, rows[r])) = Len(gs)
           /\ \A n \in 1 .. Len(gs) : Stepped(gs, g, rows[r])[n].values = gs[n].values
<1> DEFINE hs == [gs EXCEPT ![g].states = StepStates(@, rows[r])]
<1>1. /\ Len(gs) \in Nat /\ gs \in [1 .. Len(gs) -> GroupRecords]
      /\ \A n \in 1 .. Len(gs) : gs[n] \in GroupRecords
  BY SeqElements, SeqIsFunction
<1>2. [gs[g] EXCEPT !.states = StepStates(@, rows[r])] \in GroupRecords
  <2>1. gs[g] \in [values : Seq(Values), states : [DOMAIN specs -> States]]
    BY <1>1 DEF GroupRecords
  <2>2. StepStates(gs[g].states, rows[r]) \in [DOMAIN specs -> States]
    BY <2>1, StepStatesTyped
  <2> QED
    BY <2>1, <2>2 DEF GroupRecords
<1>3. hs \in [1 .. Len(gs) -> GroupRecords]
  BY <1>1, <1>2
<1>4. \A n \in 1 .. Len(gs) : hs[n].values = gs[n].values
  <2> TAKE n \in 1 .. Len(gs)
  <2>1. CASE n = g
    <3>1. hs[g] = [gs[g] EXCEPT !.states = StepStates(@, rows[r])]
      BY <1>1
    <3>2. gs[g] \in [values : Seq(Values), states : [DOMAIN specs -> States]]
      BY <1>1 DEF GroupRecords
    <3> QED
      BY <2>1, <3>1, <3>2
  <2>2. CASE n # g
    BY <1>1, <2>2
  <2> QED
    BY <2>1, <2>2
<1> HIDE DEF hs
<1>5. hs \in Seq(GroupRecords) /\ Len(hs) = Len(gs)
  BY <1>1, <1>3, FunctionIsSeq
<1> QED
  BY <1>4, <1>5 DEF Stepped, hs

-----------------------------------------------------------------------------
(* The invariant. *)

LEMMA EmptyFacts ==
    ASSUME NEW T
    PROVE  <<>> \in Seq(T) /\ Len(<<>>) = 0 /\ DOMAIN <<>> = {}
OBVIOUS

LEMMA SingletonFacts ==
    ASSUME NEW T, NEW e \in T
    PROVE  <<e>> \in Seq(T) /\ Len(<<e>>) = 1 /\ DOMAIN <<e>> = 1 .. 1
OBVIOUS

\* Nothing is handed out as long as the index is 0.
LEMMA NothingEmitted == index = 0 => (AnswersEmitted <=> out = <<>>)
<1> SUFFICES ASSUME index = 0 PROVE AnswersEmitted <=> out = <<>>
  OBVIOUS
<1> DEFINE S == {Answer(groups[n]) : n \in 1 .. 0}
           f == [n \in 1 .. 0 |-> Answer(groups[n])]
<1>1. AnswersEmitted <=> out = f
  BY DEF AnswersEmitted
<1>2. f \in [1 .. 0 -> S]
  OBVIOUS
<1> HIDE DEF S, f
<1>3. f \in Seq(S) /\ Len(f) = 0
  BY <1>2, FunctionIsSeq
<1>4. f = <<>>
  BY <1>3, EmptySeq
<1> QED
  BY <1>1, <1>4

LEMMA InitIInv == Init => IInv
<1> SUFFICES ASSUME Init PROVE IInv
  OBVIOUS
<1> USE DEF Init
<1>1. PICK q \in Queries : grouped = q.grouped /\ specs = q.specs /\ rows = q.rows
  OBVIOUS
<1>2. Len(rows) \in Nat /\ DOMAIN groups = {} /\ groups \in Seq(GroupRecords)
      /\ Len(groups) = 0 /\ DOMAIN byKey = {}
  <2>1. Len(rows) \in Nat
    <3>1. rows \in Seq([group : Seq(Values \cup {NoValue}),
                       args : [DOMAIN q.specs -> Values \cup {NoValue}]])
      BY <1>1, QueriesAssumption
    <3> QED
      BY <3>1, SeqElements
  <2> QED
    BY <2>1, EmptyFacts
<1>3. StateTypes
  <2>1. AnswersEmitted
    BY NothingEmitted
  <2>2. /\ pos = 0 /\ index = 0 /\ frame = "idle"
        /\ initialized = FALSE /\ failed = FALSE /\ done = FALSE
    OBVIOUS
  <2>3. \E q1 \in Queries : grouped = q1.grouped /\ specs = q1.specs /\ rows = q1.rows
    OBVIOUS
  <2>4. initialized \in BOOLEAN /\ failed \in BOOLEAN /\ done \in BOOLEAN
    BY <2>2
  <2>5. pos \in 0 .. Len(rows) /\ index \in 0 .. Len(groups)
    BY <1>2, <2>2
  <2>6. \A k \in DOMAIN byKey : byKey[k] \in DOMAIN groups
    BY <1>2
  <2>7. frame \in {"idle", "building", "emitting"}
    BY <2>2
  <2> QED
    BY ONLY <1>2, <2>1, <2>3, <2>4, <2>5, <2>6, <2>7, Zenon DEF StateTypes
<1>4. Phases /\ GroupsAreKeyed
  BY <1>2 DEF Phases, GroupsAreKeyed
<1> QED
  BY <1>3, <1>4 DEF IInv

\* The query is fixed.
LEMMA QueryStays ==
    ASSUME UNCHANGED query
    PROVE  /\ grouped' = grouped /\ specs' = specs /\ rows' = rows
           /\ \A r : RowKey(r)' = RowKey(r)
           /\ GroupRecords' = GroupRecords
           /\ \A g : Answer(g)' = Answer(g)
<1>1. grouped' = grouped /\ specs' = specs /\ rows' = rows
  BY DEF query
<1> QED
  BY <1>1 DEF RowKey, GroupRecords, Answer

LEMMA CallBuildIInv == IInv /\ CallBuild => IInv'
<1> SUFFICES ASSUME IInv, CallBuild PROVE IInv'
  OBVIOUS
<1>0. StateTypes /\ Phases /\ ~initialized /\ UNCHANGED query
  BY DEF IInv, CallBuild
<1>1. /\ pos = 0 /\ ~failed /\ ~done /\ index = 0 /\ DOMAIN byKey = {}
      /\ AnswersEmitted /\ out = <<>>
  <2>1. pos = 0 /\ ~failed /\ ~done /\ groups = <<>>
    BY <1>0 DEF Phases
  <2>2. Len(groups) = 0 /\ DOMAIN groups = {}
    BY <2>1
  <2> QED
    BY <1>0, <2>1, <2>2, NothingEmitted DEF StateTypes
<1>2. /\ groups' \in Seq(GroupRecords) /\ Len(groups') = IF grouped THEN 0 ELSE 1
      /\ DOMAIN groups' = 1 .. Len(groups')
  <2>1. <<>> \in Seq(Values)
    OBVIOUS
  <2>2. NewGroup(<<>>) \in GroupRecords
    BY <2>1, NewGroupTyped
  <2>3. CASE grouped
    <3>1. groups' = <<>>
      BY <2>3 DEF CallBuild
    <3> QED
      BY <2>3, <3>1
  <2>4. CASE ~grouped
    <3>1. groups' = <<NewGroup(<<>>)>>
      BY <2>4 DEF CallBuild
    <3> QED
      BY <2>2, <2>4, <3>1, SingletonFacts
  <2> QED
    BY <2>3, <2>4
<1>3. AnswersEmitted'
  <2>1. index' = 0 /\ out' = <<>>
    BY <1>1 DEF CallBuild
  <2>2. (index = 0 => (AnswersEmitted <=> out = <<>>))'
    BY NothingEmitted, PTL
  <2> QED
    BY <2>1, <2>2
<1>4. StateTypes'
  BY <1>0, <1>1, <1>2, <1>3, QueryStays, QueryFacts DEF StateTypes, CallBuild
<1>5. Phases'
  BY <1>0, <1>1, <1>2, QueryStays DEF Phases, CallBuild
<1>6. GroupsAreKeyed'
  <2>1. grouped => Len(groups') = 0 /\ DOMAIN groups' = {}
    BY <1>2
  <2>2. pos' = 0 /\ DOMAIN byKey' = {} /\ grouped' = grouped /\ 1 .. pos' = {}
    BY <1>0, <1>1, QueryStays DEF CallBuild
  <2> QED
    BY <2>1, <2>2 DEF GroupsAreKeyed
<1> QED
  BY <1>4, <1>5, <1>6 DEF IInv

\* Steps that leave the groups alone.
LEMMA GroupsStay ==
    ASSUME GroupsAreKeyed, UNCHANGED <<query, pos, groups, byKey, failed>>
    PROVE  GroupsAreKeyed'
<1>1. \A r, g : Creates(r, g)' <=> Creates(r, g)
  BY QueryStays DEF Creates
<1> QED
  BY <1>1, QueryStays DEF GroupsAreKeyed

LEMMA AnswersStay ==
    ASSUME AnswersEmitted, UNCHANGED <<query, groups, index, out>>
    PROVE  AnswersEmitted'
BY QueryStays DEF AnswersEmitted

LEMMA CallNextIInv == IInv /\ CallNext => IInv'
<1> SUFFICES ASSUME IInv, CallNext PROVE IInv'
  OBVIOUS
<1> USE DEF CallNext
<1>1. StateTypes'
  BY QueryStays, AnswersStay DEF IInv, StateTypes
<1>2. Phases'
  BY QueryStays DEF IInv, Phases
<1>3. GroupsAreKeyed'
  BY GroupsStay DEF IInv
<1> QED
  BY <1>1, <1>2, <1>3 DEF IInv

LEMMA BuildEndIInv == IInv /\ BuildEnd => IInv'
<1> SUFFICES ASSUME IInv, BuildEnd PROVE IInv'
  OBVIOUS
<1> USE DEF BuildEnd
<1>1. StateTypes'
  BY QueryStays, AnswersStay DEF IInv, StateTypes
<1>2. Phases'
  BY QueryStays DEF IInv, Phases
<1>3. GroupsAreKeyed'
  BY GroupsStay DEF IInv
<1> QED
  BY <1>1, <1>2, <1>3 DEF IInv

LEMMA EmitEndIInv == IInv /\ EmitEnd => IInv'
<1> SUFFICES ASSUME IInv, EmitEnd PROVE IInv'
  OBVIOUS
<1> USE DEF EmitEnd
<1>1. StateTypes'
  BY QueryStays, AnswersStay DEF IInv, StateTypes
<1>2. Phases'
  BY QueryStays, GroupFacts DEF IInv, Phases, StateTypes
<1>3. GroupsAreKeyed'
  BY GroupsStay DEF IInv
<1> QED
  BY <1>1, <1>2, <1>3 DEF IInv

LEMMA EmitIInv == IInv /\ Emit => IInv'
<1> SUFFICES ASSUME IInv, Emit PROVE IInv'
  OBVIOUS
<1> USE DEF Emit
<1>0. StateTypes /\ Phases /\ index \in Nat /\ Len(groups) \in Nat /\ index < Len(groups)
  BY GroupFacts DEF IInv, StateTypes
<1>1. out' = [n \in 1 .. index + 1 |-> Answer(groups[n])]
  <2> DEFINE T == {Answer(groups[n]) : n \in 1 .. index + 1}
             e == Answer(groups[index + 1])
             f == [n \in 1 .. index + 1 |-> Answer(groups[n])]
  <2>1. out' = Append(out, e) /\ e \in T /\ out \in [1 .. index -> T]
    BY <1>0 DEF StateTypes, AnswersEmitted
  <2>2. f \in [1 .. index + 1 -> T] /\ \A n \in 1 .. index : f[n] = out[n]
    BY <1>0, GroupFacts
  <2>3. f[index + 1] = e
    BY <1>0
  <2> HIDE DEF T, e, f
  <2>4. out \in Seq(T) /\ Len(out) = index
    BY <1>0, <2>1, FunctionIsSeq
  <2>5. f \in Seq(T) /\ Len(f) = index + 1
    BY <1>0, <2>2, FunctionIsSeq
  <2>6. /\ out' \in Seq(T) /\ Len(out') = index + 1
        /\ \A n \in 1 .. index : out'[n] = out[n]
        /\ out'[index + 1] = e
    BY <2>1, <2>4, AppendFacts
  <2>7. \A n \in 1 .. index + 1 : out'[n] = f[n]
    BY <1>0, <2>2, <2>3, <2>6
  <2>8. out' = f
    BY <2>5, <2>6, <2>7, SeqEqual
  <2> QED
    BY <2>8 DEF f
<1>2. AnswersEmitted'
  BY <1>1, QueryStays DEF AnswersEmitted
<1>3. StateTypes'
  BY <1>0, <1>2, QueryStays DEF StateTypes
<1>4. Phases'
  BY <1>0, QueryStays DEF Phases
<1>5. GroupsAreKeyed'
  BY GroupsStay DEF IInv
<1> QED
  BY <1>3, <1>4, <1>5 DEF IInv

LEMMA FailKeyIInv == IInv /\ FailKey => IInv'
<1> SUFFICES ASSUME IInv, FailKey PROVE IInv'
  OBVIOUS
<1> USE DEF FailKey, ReadRow
<1>0. StateTypes /\ Phases /\ pos \in Nat /\ Len(rows) \in Nat
  BY QueryFacts DEF IInv, StateTypes
<1>1. StateTypes'
  BY <1>0, QueryStays, AnswersStay DEF StateTypes
<1>2. Phases'
  BY <1>0, QueryStays DEF Phases
<1>3. GroupsAreKeyed'
  BY DEF GroupsAreKeyed
<1> QED
  BY <1>1, <1>2, <1>3 DEF IInv

\* Reading a row whose grouping values evaluate.
LEMMA ReadRowFacts ==
    ASSUME IInv, ReadRow, ~KeyFails
    PROVE  /\ StateTypes /\ Phases /\ frame = "building" /\ ~failed /\ ~done /\ initialized
           /\ pos \in Nat /\ pos' = pos + 1 /\ pos + 1 \in 1 .. Len(rows) /\ Len(rows) \in Nat
           /\ index = 0 /\ out = <<>>
           /\ Row = rows[pos + 1] /\ Row.group \in Seq(Values)
<1>1. /\ StateTypes /\ Phases /\ frame = "building" /\ ~failed /\ ~done /\ initialized
      /\ index = 0 /\ pos' = pos + 1 /\ Row = rows[pos + 1]
  BY DEF IInv, ReadRow, Phases, Row
<1>2. pos \in Nat /\ Len(rows) \in Nat /\ pos + 1 \in 1 .. Len(rows)
  BY <1>1, QueryFacts DEF StateTypes, ReadRow
<1>3. out = <<>>
  BY <1>1, NothingEmitted DEF StateTypes
<1>4. Row.group \in Seq(Values)
  <2> DEFINE t == Row.group
             S == Values \cup {NoValue}
  <2>1. t \in Seq(S) /\ \A n \in DOMAIN t : t[n] # NoValue
    BY <1>1, <1>2, QueryFacts DEF KeyFails
  <2> HIDE DEF t
  <2>2. Len(t) \in Nat /\ t \in [1 .. Len(t) -> S] /\ DOMAIN t = 1 .. Len(t)
    <3> HIDE DEF S
    <3> QED
      BY <2>1, SeqElements, SeqIsFunction
  <2>3. t \in [1 .. Len(t) -> Values]
    BY <2>1, <2>2
  <2>4. t \in Seq(Values)
    BY <2>2, <2>3, FunctionIsSeq
  <2> QED
    BY <2>4 DEF t
<1> QED
  BY <1>1, <1>2, <1>3, <1>4

\* Nothing is handed out by a step of the build.
LEMMA NothingEmittedYet ==
    ASSUME index' = 0, out' = <<>>
    PROVE  AnswersEmitted'
<1>1. (index = 0 => (AnswersEmitted <=> out = <<>>))'
  BY NothingEmitted, PTL
<1> QED
  BY <1>1

LEMMA StepKnownGroupIInv == IInv /\ StepKnownGroup => IInv'
<1> SUFFICES ASSUME IInv, StepKnownGroup PROVE IInv'
  OBVIOUS
<1> DEFINE g == IF grouped THEN byKey[GroupKey(Row.group)] ELSE 1
<1>0. /\ ReadRow /\ ~KeyFails /\ UNCHANGED <<query, byKey, initialized, index, out, done>>
      /\ groups' = Stepped(groups, g, Row)
      /\ failed' = StepFails(Row)
      /\ frame' = IF StepFails(Row) THEN "emitting" ELSE frame
      /\ grouped => GroupKey(Row.group) \in DOMAIN byKey
  BY DEF StepKnownGroup, StepGroup
<1>1. /\ StateTypes /\ Phases /\ frame = "building" /\ ~failed /\ ~done /\ initialized
      /\ pos \in Nat /\ pos' = pos + 1 /\ pos + 1 \in 1 .. Len(rows) /\ Len(rows) \in Nat
      /\ index = 0 /\ out = <<>>
      /\ Row = rows[pos + 1] /\ Row.group \in Seq(Values)
  BY <1>0, ReadRowFacts
<1>2. Len(groups) \in Nat /\ DOMAIN groups = 1 .. Len(groups) /\ g \in 1 .. Len(groups)
  <2>1. Len(groups) \in Nat /\ DOMAIN groups = 1 .. Len(groups)
    BY <1>1, GroupFacts
  <2>2. grouped => g \in 1 .. Len(groups)
    BY <1>0, <1>1, <2>1 DEF StateTypes
  <2>3. ~grouped => g \in 1 .. Len(groups)
    BY <1>1, <2>1 DEF Phases
  <2> QED
    BY <2>1, <2>2, <2>3
<1> HIDE DEF g
<1>3. /\ groups' \in Seq(GroupRecords) /\ Len(groups') = Len(groups)
      /\ DOMAIN groups' = 1 .. Len(groups)
      /\ \A n \in 1 .. Len(groups) : groups'[n].values = groups[n].values
  <2>1. groups \in Seq(GroupRecords)
    BY <1>1 DEF StateTypes
  <2>2. /\ groups' \in Seq(GroupRecords) /\ Len(groups') = Len(groups)
        /\ \A n \in 1 .. Len(groups) : groups'[n].values = groups[n].values
    BY <1>0, <1>1, <1>2, <2>1, SteppedGroups
  <2>3. DOMAIN groups' = 1 .. Len(groups)
    BY <2>2, SeqElements
  <2> QED
    BY <2>2, <2>3
<1>4. StateTypes'
  <2>1. AnswersEmitted'
    BY <1>0, <1>1, NothingEmittedYet
  <2>2. failed' \in BOOLEAN
    BY <1>0 DEF StepFails
  <2>3. grouped' = grouped /\ specs' = specs /\ rows' = rows /\ GroupRecords' = GroupRecords
    BY <1>0, QueryStays
  <2>4. /\ pos' \in 0 .. Len(rows') /\ index' \in 0 .. Len(groups')
        /\ frame' \in {"idle", "building", "emitting"}
        /\ \A k \in DOMAIN byKey' : byKey'[k] \in DOMAIN groups'
    BY <1>0, <1>1, <1>2, <1>3, <2>3 DEF StateTypes
  <2> QED
    BY <1>0, <1>1, <1>3, <2>1, <2>2, <2>3, <2>4 DEF StateTypes
<1>5. Phases'
  BY <1>0, <1>1, <1>3, QueryStays DEF Phases
<1>6. GroupsAreKeyed'
  <2> SUFFICES ASSUME grouped, ~failed' PROVE GroupsAreKeyed'
    BY <1>0, QueryStays DEF GroupsAreKeyed
  <2>1. /\ \A r \in 1 .. pos : rows[r].group \in Seq(Values) /\ RowKey(r) \in DOMAIN byKey
        /\ \A k \in DOMAIN byKey : GroupKey(groups[byKey[k]].values) = k
        /\ \A n \in DOMAIN groups : \E r \in 1 .. pos : Creates(r, n) /\ byKey[RowKey(r)] = n
        /\ \A n, h \in DOMAIN groups :
              n < h => \E r, m \in 1 .. pos : r < m /\ Creates(r, n) /\ Creates(m, h)
    BY <1>1 DEF IInv, GroupsAreKeyed
  <2>2. \A n \in DOMAIN groups : \A r : Creates(r, n)' <=> Creates(r, n)
    BY <1>0, <1>2, <1>3, QueryStays DEF Creates
  <2>3. 1 .. pos \subseteq 1 .. pos'
    BY <1>1
  <2>4. /\ rows' = rows /\ byKey' = byKey /\ DOMAIN groups' = DOMAIN groups
        /\ \A r : RowKey(r)' = RowKey(r)
    BY <1>0, <1>2, <1>3, QueryStays
  <2>5. \A r \in 1 .. pos' : rows'[r].group \in Seq(Values) /\ RowKey(r)' \in DOMAIN byKey'
    <3>1. RowKey(pos + 1) \in DOMAIN byKey /\ rows[pos + 1].group \in Seq(Values)
      BY <1>0, <1>1 DEF RowKey
    <3>2. \A r \in 1 .. pos' : r \in 1 .. pos \/ r = pos + 1
      BY <1>1
    <3> QED
      BY <2>1, <2>4, <3>1, <3>2
  <2>6. \A k \in DOMAIN byKey' : GroupKey(groups'[byKey'[k]].values) = k
    <3> SUFFICES ASSUME NEW k \in DOMAIN byKey PROVE GroupKey(groups'[byKey[k]].values) = k
      BY <2>4
    <3>1. byKey[k] \in 1 .. Len(groups)
      BY <1>1, <1>2 DEF StateTypes
    <3>2. groups'[byKey[k]].values = groups[byKey[k]].values
      BY <1>3, <3>1
    <3> QED
      BY <2>1, <3>2
  <2>7. \A n \in DOMAIN groups' : \E r \in 1 .. pos' : Creates(r, n)' /\ byKey'[RowKey(r)'] = n
    BY <2>1, <2>2, <2>3, <2>4
  <2>8. \A n, h \in DOMAIN groups' :
              n < h => \E r, m \in 1 .. pos' : r < m /\ Creates(r, n)' /\ Creates(m, h)'
    BY <2>1, <2>2, <2>3, <2>4
  <2> QED
    BY <2>5, <2>6, <2>7, <2>8 DEF GroupsAreKeyed
<1> QED
  BY <1>4, <1>5, <1>6 DEF IInv

LEMMA StepNewGroupIInv == IInv /\ StepNewGroup => IInv'
<1> SUFFICES ASSUME IInv, StepNewGroup PROVE IInv'
  OBVIOUS
<1> DEFINE key == GroupKey(Row.group)
           len == Len(groups)
           gs  == Append(groups, NewGroup(Row.group))
<1>0. /\ ReadRow /\ ~KeyFails /\ UNCHANGED <<query, initialized, index, out, done>>
      /\ groups' = Stepped(gs, len + 1, Row)
      /\ failed' = StepFails(Row)
      /\ frame' = IF StepFails(Row) THEN "emitting" ELSE frame
      /\ grouped /\ key \notin DOMAIN byKey
      /\ byKey' = [k \in DOMAIN byKey \cup {key} |-> IF k \in DOMAIN byKey THEN byKey[k] ELSE len + 1]
  BY DEF StepNewGroup, StepGroup
<1>1. /\ StateTypes /\ Phases /\ frame = "building" /\ ~failed /\ ~done /\ initialized
      /\ pos \in Nat /\ pos' = pos + 1 /\ pos + 1 \in 1 .. Len(rows) /\ Len(rows) \in Nat
      /\ index = 0 /\ out = <<>>
      /\ Row = rows[pos + 1] /\ Row.group \in Seq(Values)
  BY <1>0, ReadRowFacts
<1>2. len \in Nat /\ DOMAIN groups = 1 .. len
  BY <1>1, GroupFacts
<1>3. /\ gs \in Seq(GroupRecords) /\ Len(gs) = len + 1
      /\ \A n \in 1 .. len : gs[n] = groups[n]
      /\ gs[len + 1].values = Row.group
  <2>1. groups \in Seq(GroupRecords)
    BY <1>1 DEF StateTypes
  <2>2. NewGroup(Row.group) \in GroupRecords /\ NewGroup(Row.group).values = Row.group
    BY <1>1, NewGroupTyped
  <2> QED
    BY <2>1, <2>2, AppendFacts
<1> HIDE DEF len, gs, key
<1>4. /\ groups' \in Seq(GroupRecords) /\ Len(groups') = len + 1
      /\ DOMAIN groups' = 1 .. len + 1
      /\ \A n \in 1 .. len : groups'[n].values = groups[n].values
      /\ groups'[len + 1].values = Row.group
  <2>1. len + 1 \in 1 .. Len(gs)
    BY <1>2, <1>3
  <2>2. /\ groups' \in Seq(GroupRecords) /\ Len(groups') = Len(gs)
        /\ \A n \in 1 .. Len(gs) : groups'[n].values = gs[n].values
    BY <1>0, <1>1, <1>3, <2>1, SteppedGroups
  <2>3. DOMAIN groups' = 1 .. Len(gs)
    BY <2>2, SeqElements
  <2> QED
    BY <1>2, <1>3, <2>1, <2>2, <2>3
<1>5. /\ DOMAIN byKey' = DOMAIN byKey \cup {key}
      /\ \A k \in DOMAIN byKey : byKey'[k] = byKey[k] /\ byKey[k] \in 1 .. len
      /\ byKey'[key] = len + 1
  <2>1. \A k \in DOMAIN byKey : byKey[k] \in 1 .. len
    BY <1>1, <1>2 DEF StateTypes
  <2> QED
    BY <1>0, <2>1
<1>6. StateTypes'
  <2>1. AnswersEmitted'
    BY <1>0, <1>1, NothingEmittedYet
  <2>2. failed' \in BOOLEAN
    BY <1>0 DEF StepFails
  <2>3. grouped' = grouped /\ specs' = specs /\ rows' = rows /\ GroupRecords' = GroupRecords
    BY <1>0, QueryStays
  <2>4. /\ pos' \in 0 .. Len(rows') /\ index' \in 0 .. Len(groups')
        /\ frame' \in {"idle", "building", "emitting"}
    BY <1>0, <1>1, <1>2, <1>4, <2>3
  <2>5. \A k \in DOMAIN byKey' : byKey'[k] \in DOMAIN groups'
    BY <1>2, <1>4, <1>5
  <2> QED
    BY <1>0, <1>1, <1>4, <2>1, <2>2, <2>3, <2>4, <2>5 DEF StateTypes
<1>7. Phases'
  BY <1>0, <1>1, <1>4, QueryStays DEF Phases
<1>8. GroupsAreKeyed'
  <2> SUFFICES ASSUME ~failed' PROVE GroupsAreKeyed'
    BY <1>0, QueryStays DEF GroupsAreKeyed
  <2>1. /\ \A r \in 1 .. pos : rows[r].group \in Seq(Values) /\ RowKey(r) \in DOMAIN byKey
        /\ \A k \in DOMAIN byKey : GroupKey(groups[byKey[k]].values) = k
        /\ \A n \in DOMAIN groups : \E r \in 1 .. pos : Creates(r, n) /\ byKey[RowKey(r)] = n
        /\ \A n, h \in DOMAIN groups :
              n < h => \E r, m \in 1 .. pos : r < m /\ Creates(r, n) /\ Creates(m, h)
    BY <1>0, <1>1 DEF IInv, GroupsAreKeyed
  <2>2. \A n \in DOMAIN groups : \A r : Creates(r, n)' <=> Creates(r, n)
    BY <1>0, <1>2, <1>4, QueryStays DEF Creates
  <2>3. 1 .. pos \subseteq 1 .. pos' /\ pos + 1 \in 1 .. pos' /\ \A r \in 1 .. pos : r < pos + 1
    BY <1>1
  <2>4. /\ rows' = rows /\ DOMAIN groups' = DOMAIN groups \cup {len + 1}
        /\ \A r : RowKey(r)' = RowKey(r)
        /\ RowKey(pos + 1) = key
    <3>1. 1 .. len + 1 = (1 .. len) \cup {len + 1}
      BY <1>2
    <3>2. rows' = rows /\ \A r : RowKey(r)' = RowKey(r)
      BY <1>0, QueryStays
    <3>3. RowKey(pos + 1) = key
      BY <1>1 DEF RowKey, key
    <3> QED
      BY <1>2, <1>4, <3>1, <3>2, <3>3
  <2>5. \A r \in 1 .. pos' : rows'[r].group \in Seq(Values) /\ RowKey(r)' \in DOMAIN byKey'
    <3>1. \A r \in 1 .. pos' : r \in 1 .. pos \/ r = pos + 1
      BY <1>1
    <3> QED
      BY <1>1, <1>5, <2>1, <2>4, <3>1
  <2>6. \A k \in DOMAIN byKey' : GroupKey(groups'[byKey'[k]].values) = k
    <3>1. GroupKey(groups'[byKey'[key]].values) = key
      BY <1>4, <1>5 DEF key
    <3>2. ASSUME NEW k \in DOMAIN byKey PROVE GroupKey(groups'[byKey'[k]].values) = k
      <4>1. byKey'[k] = byKey[k] /\ byKey[k] \in 1 .. len
        BY <1>5
      <4>2. groups'[byKey[k]].values = groups[byKey[k]].values
        BY <1>4, <4>1
      <4> QED
        BY <2>1, <4>1, <4>2
    <3> QED
      BY <1>5, <3>1, <3>2
  <2>7. PICK last, new : last = pos + 1 /\ new = len + 1
    OBVIOUS
  <2>8. Creates(last, new)' /\ byKey'[RowKey(last)'] = new
    <3>1. groups'[new].values = rows'[last].group
      BY <1>1, <1>4, <2>4, <2>7
    <3>2. \A m \in 1 .. pos : RowKey(m)' # RowKey(last)'
      BY <1>0, <2>1, <2>4, <2>7
    <3>3. 1 .. last - 1 = 1 .. pos
      BY <1>1, <2>7
    <3> QED
      BY <1>5, <2>4, <2>7, <3>1, <3>2, <3>3 DEF Creates
  <2>9. \A n \in DOMAIN groups' : \E r \in 1 .. pos' : Creates(r, n)' /\ byKey'[RowKey(r)'] = n
    <3>1. ASSUME NEW n \in DOMAIN groups
          PROVE  \E r \in 1 .. pos' : Creates(r, n)' /\ byKey'[RowKey(r)'] = n
      <4>1. PICK r \in 1 .. pos : Creates(r, n) /\ byKey[RowKey(r)] = n
        BY <2>1
      <4>2. r \in 1 .. pos' /\ RowKey(r) \in DOMAIN byKey
        BY <2>1, <2>3
      <4> QED
        BY <1>5, <2>2, <2>4, <4>1, <4>2
    <3> QED
      BY <2>3, <2>4, <2>7, <2>8, <3>1
  <2>10. \A n, h \in DOMAIN groups' :
              n < h => \E r, m \in 1 .. pos' : r < m /\ Creates(r, n)' /\ Creates(m, h)'
    <3> SUFFICES ASSUME NEW n \in DOMAIN groups', NEW h \in DOMAIN groups', n < h
                 PROVE  \E r, m \in 1 .. pos' : r < m /\ Creates(r, n)' /\ Creates(m, h)'
      OBVIOUS
    <3>1. CASE h \in DOMAIN groups
      <4>1. n \in DOMAIN groups
        BY <1>2, <1>4, <3>1
      <4>2. PICK r, m \in 1 .. pos : r < m /\ Creates(r, n) /\ Creates(m, h)
        BY <2>1, <3>1, <4>1
      <4>3. r \in 1 .. pos' /\ m \in 1 .. pos' /\ Creates(r, n)' /\ Creates(m, h)'
        BY <2>2, <2>3, <3>1, <4>1, <4>2
      <4> QED
        BY <4>2, <4>3
    <3>2. CASE h = new
      <4>1. n \in DOMAIN groups
        BY <1>2, <1>4, <2>7, <3>2
      <4>2. PICK r \in 1 .. pos : Creates(r, n)
        BY <2>1, <4>1
      <4>3. r \in 1 .. pos' /\ last \in 1 .. pos' /\ r < last /\ Creates(r, n)'
        BY <2>2, <2>3, <2>7, <4>1, <4>2
      <4> QED
        BY <2>8, <3>2, <4>3
    <3> QED
      BY <1>2, <1>4, <2>7, <3>1, <3>2
  <2> QED
    BY <2>5, <2>6, <2>9, <2>10 DEF GroupsAreKeyed
<1> QED
  BY <1>6, <1>7, <1>8 DEF IInv

(* Every step of the operator keeps the invariant. *)
THEOREM NextIInv == IInv /\ [Next]_vars => IInv'
<1> SUFFICES ASSUME IInv, [Next]_vars PROVE IInv'
  OBVIOUS
<1>1. CASE CallBuild
  BY <1>1, CallBuildIInv
<1>2. CASE CallNext
  BY <1>2, CallNextIInv
<1>3. CASE StepKnownGroup
  BY <1>3, StepKnownGroupIInv
<1>4. CASE StepNewGroup
  BY <1>4, StepNewGroupIInv
<1>5. CASE FailKey
  BY <1>5, FailKeyIInv
<1>6. CASE BuildEnd
  BY <1>6, BuildEndIInv
<1>7. CASE Emit
  BY <1>7, EmitIInv
<1>8. CASE EmitEnd
  BY <1>8, EmitEndIInv
<1>9. CASE UNCHANGED vars
  <2>1. UNCHANGED query /\ UNCHANGED <<pos, groups, byKey, initialized, failed, index, frame, out, done>>
    BY <1>9 DEF vars, query
  <2>2. StateTypes'
    BY <2>1, QueryStays, AnswersStay DEF IInv, StateTypes
  <2>3. Phases'
    BY <2>1, QueryStays DEF IInv, Phases
  <2>4. GroupsAreKeyed'
    BY <2>1, GroupsStay DEF IInv
  <2> QED
    BY <2>2, <2>3, <2>4 DEF IInv
<1> QED
  BY <1>1, <1>2, <1>3, <1>4, <1>5, <1>6, <1>7, <1>8, <1>9 DEF Next, Build

(* The invariant holds throughout. *)
THEOREM AggregateInvariant == Spec => []IInv
BY InitIInv, NextIInv, PTL DEF Spec

-----------------------------------------------------------------------------
(* The properties. *)

LEMMA LeastIsMin ==
    ASSUME NEW S, S \subseteq Nat, NEW r \in S, \A m \in S : r <= m
    PROVE  Min(S) = r
<1>1. \A x \in S : (\A m \in S : x <= m) => x = r
  OBVIOUS
<1> QED
  BY <1>1 DEF Min

\* The members of a tuple's group are the rows with its key.
LEMMA MembersByKey ==
    ASSUME IInv, grouped, ~failed, NEW g \in DOMAIN groups
    PROVE  /\ Members(groups[g].values) =
                 {r \in 1 .. pos : RowKey(r) = GroupKey(groups[g].values)}
           /\ \A h \in DOMAIN groups : SameTuple(groups[g].values, groups[h].values)
                 <=> GroupKey(groups[g].values) = GroupKey(groups[h].values)
           /\ \A r \in 1 .. pos : Len(rows[r].group) = Len(groups[g].values)
                 /\ rows[r].group \in Seq(Values) /\ groups[g].values \in Seq(Values)
<1>1. /\ \A r \in 1 .. pos : rows[r].group \in Seq(Values)
      /\ \A h \in DOMAIN groups : \E r \in 1 .. pos : groups[h].values = rows[r].group
  BY DEF IInv, GroupsAreKeyed, Creates
<1>2. \A r, m \in 1 .. pos : Len(rows[r].group) = Len(rows[m].group)
  <2>1. StateTypes /\ pos \in 0 .. Len(rows)
    BY DEF IInv, StateTypes
  <2>2. Len(rows) \in Nat /\ \A r, m \in 1 .. Len(rows) : Len(rows[r].group) = Len(rows[m].group)
    BY <2>1, QueryFacts
  <2>3. 1 .. pos \subseteq 1 .. Len(rows)
    BY <2>1, <2>2
  <2> QED
    BY <2>2, <2>3
<1>3. \A r \in 1 .. pos : SameTuple(rows[r].group, groups[g].values)
                            <=> RowKey(r) = GroupKey(groups[g].values)
  <2> TAKE r \in 1 .. pos
  <2>1. PICK m \in 1 .. pos : groups[g].values = rows[m].group
    BY <1>1
  <2> DEFINE t == rows[r].group
             u == rows[m].group
  <2>2. t \in Seq(Values) /\ u \in Seq(Values) /\ Len(t) = Len(u)
    BY <1>1, <1>2
  <2>3. GroupKey(t) = GroupKey(u) <=> SameTuple(t, u)
    BY <2>2, GroupKeyAgrees DEF SameTuple
  <2> QED
    BY <2>1, <2>3 DEF RowKey
<1>4. \A h \in DOMAIN groups : SameTuple(groups[g].values, groups[h].values)
                 <=> GroupKey(groups[g].values) = GroupKey(groups[h].values)
  <2> TAKE h \in DOMAIN groups
  <2>1. PICK r \in 1 .. pos, m \in 1 .. pos :
            groups[g].values = rows[r].group /\ groups[h].values = rows[m].group
    BY <1>1
  <2> DEFINE t == rows[r].group
             u == rows[m].group
  <2>2. t \in Seq(Values) /\ u \in Seq(Values) /\ Len(t) = Len(u)
    BY <1>1, <1>2
  <2>3. GroupKey(t) = GroupKey(u) <=> SameTuple(t, u)
    BY <2>2, GroupKeyAgrees DEF SameTuple
  <2> QED
    BY <2>1, <2>3
<1>5. Members(groups[g].values) = {r \in 1 .. pos : RowKey(r) = GroupKey(groups[g].values)}
  BY <1>3 DEF Members
<1>6. \A r \in 1 .. pos : Len(rows[r].group) = Len(groups[g].values)
                       /\ rows[r].group \in Seq(Values) /\ groups[g].values \in Seq(Values)
  <2>1. PICK m \in 1 .. pos : groups[g].values = rows[m].group
    BY <1>1
  <2> QED
    BY <1>1, <1>2, <2>1
<1> QED
  BY <1>4, <1>5, <1>6

LEMMA InvariantClasses == IInv => GroupsAreClasses
<1> SUFFICES ASSUME IInv, grouped, ~failed
             PROVE  /\ \A r \in 1 .. pos : \E g \in DOMAIN groups :
                          r \in Members(groups[g].values)
                    /\ \A g, h \in DOMAIN groups :
                          g < h => /\ ~SameTuple(groups[g].values, groups[h].values)
                                   /\ Min(Members(groups[g].values)) < Min(Members(groups[h].values))
                    /\ \A g \in DOMAIN groups :
                          groups[g].values = rows[Min(Members(groups[g].values))].group
  BY DEF GroupsAreClasses
<1>1. /\ \A r \in 1 .. pos : RowKey(r) \in DOMAIN byKey
      /\ \A k \in DOMAIN byKey : GroupKey(groups[byKey[k]].values) = k /\ byKey[k] \in DOMAIN groups
      /\ \A g \in DOMAIN groups : \E r \in 1 .. pos : Creates(r, g) /\ byKey[RowKey(r)] = g
      /\ \A g, h \in DOMAIN groups :
            g < h => \E r, m \in 1 .. pos : r < m /\ Creates(r, g) /\ Creates(m, h)
  BY DEF IInv, GroupsAreKeyed, StateTypes
<1>2. pos \in Nat /\ 1 .. pos \subseteq Nat
  BY QueryFacts DEF IInv, StateTypes
<1>3. ASSUME NEW g \in DOMAIN groups, NEW r \in 1 .. pos, Creates(r, g)
      PROVE  Min(Members(groups[g].values)) = r /\ GroupKey(groups[g].values) = RowKey(r)
  <2> DEFINE S == Members(groups[g].values)
  <2>1. groups[g].values = rows[r].group /\ \A m \in 1 .. r - 1 : RowKey(m) # RowKey(r)
    BY <1>3 DEF Creates
  <2>2. GroupKey(groups[g].values) = RowKey(r)
    BY <2>1 DEF RowKey
  <2>3. S = {m \in 1 .. pos : RowKey(m) = RowKey(r)}
    BY <2>2, MembersByKey
  <2>4. S \subseteq Nat /\ r \in S
    BY <1>2, <2>3
  <2>5. \A m \in S : r <= m
    BY <1>2, <2>1, <2>3
  <2> HIDE DEF S
  <2>6. Min(S) = r
    BY <2>4, <2>5, LeastIsMin
  <2> QED
    BY <2>2, <2>6 DEF S
<1>4. ASSUME NEW r \in 1 .. pos
      PROVE  \E g \in DOMAIN groups : r \in Members(groups[g].values)
  <2>1. byKey[RowKey(r)] \in DOMAIN groups /\ GroupKey(groups[byKey[RowKey(r)]].values) = RowKey(r)
    BY <1>1
  <2> QED
    BY <2>1, MembersByKey
<1>5. ASSUME NEW g \in DOMAIN groups, NEW h \in DOMAIN groups, g < h
      PROVE  /\ ~SameTuple(groups[g].values, groups[h].values)
             /\ Min(Members(groups[g].values)) < Min(Members(groups[h].values))
  <2>1. PICK r, m \in 1 .. pos : r < m /\ Creates(r, g) /\ Creates(m, h)
    BY <1>1, <1>5
  <2>2. /\ Min(Members(groups[g].values)) = r /\ GroupKey(groups[g].values) = RowKey(r)
        /\ Min(Members(groups[h].values)) = m /\ GroupKey(groups[h].values) = RowKey(m)
    BY <1>3, <2>1
  <2>3. RowKey(r) # RowKey(m)
    <3>1. r \in 1 .. m - 1
      BY <1>2, <2>1
    <3> QED
      BY <2>1, <3>1 DEF Creates
  <2> QED
    BY <2>1, <2>2, <2>3, MembersByKey
<1>6. ASSUME NEW g \in DOMAIN groups
      PROVE  groups[g].values = rows[Min(Members(groups[g].values))].group
  <2>1. PICK r \in 1 .. pos : Creates(r, g)
    BY <1>1
  <2> QED
    BY <1>3, <2>1 DEF Creates
<1> QED
  BY <1>4, <1>5, <1>6

(* GROUP BY splits the rows of every query into the classes of equal grouping
   values, in the order of their first rows, whatever the values are: the keys
   of the map byKey tell apart exactly the tuples that differ. *)
THEOREM GroupsAreTheClasses == Spec => []GroupsAreClasses
BY AggregateInvariant, InvariantClasses, PTL

LEMMA InvariantTypes == IInv => TypeOK
<1> SUFFICES ASSUME IInv PROVE TypeOK
  OBVIOUS
<1>0. StateTypes
  BY DEF IInv
<1>1. ASSUME NEW g \in DOMAIN groups
      PROVE  /\ groups[g].values \in Seq(Values)
             /\ \A s \in DOMAIN specs :
                   LET st == groups[g].states[s]
                   IN  /\ st.count \in IntRange /\ st.intSum \in IntRange
                       /\ st.floatSum \in FloatValues
                       /\ st.seen \in BOOLEAN /\ st.best \in Values
  <2>1. groups[g].values \in Seq(Values) /\ groups[g].states \in [DOMAIN specs -> States]
    BY <1>0, GroupFacts
  <2>2. \A s \in DOMAIN specs : groups[g].states[s] \in States
    BY <2>1
  <2> QED
    BY <2>1, <2>2 DEF States
<1>2. Len(out) = index
  <2> DEFINE S == {Answer(groups[n]) : n \in 1 .. index}
  <2>1. index \in Nat /\ out \in [1 .. index -> S]
    BY <1>0, GroupFacts DEF StateTypes, AnswersEmitted
  <2> HIDE DEF S
  <2> QED
    BY <2>1, FunctionIsSeq
<1> QED
  BY <1>0, <1>1, <1>2 DEF TypeOK, StateTypes

LEMMA InvariantComplete == IInv => OutputIsComplete
<1> SUFFICES ASSUME IInv PROVE OutputIsComplete
  OBVIOUS
<1>0. StateTypes /\ Phases /\ TypeOK
  BY InvariantTypes DEF IInv
<1>1. failed => out = <<>>
  BY <1>0, NothingEmitted DEF Phases, StateTypes
<1>2. ASSUME done, ~failed
      PROVE  /\ pos = Len(rows) /\ Len(out) = Len(groups) /\ index = Len(groups)
             /\ ~grouped => Len(out) = 1
  BY <1>0, <1>2 DEF Phases, TypeOK
<1>3. ASSUME done, ~failed, grouped, NEW r \in DOMAIN rows
      PROVE  \E n \in DOMAIN out : SameTuple(rows[r].group, out[n].values)
  <2>1. r \in 1 .. pos
    BY <1>0, <1>2, <1>3, QueryFacts
  <2>2. PICK g \in DOMAIN groups : r \in Members(groups[g].values)
    BY <1>3, <2>1, InvariantClasses DEF GroupsAreClasses
  <2>3. g \in DOMAIN out /\ out[g].values = groups[g].values
    BY <1>0, <1>2, <1>3, GroupFacts DEF Answer
  <2> QED
    BY <2>2, <2>3 DEF Members
<1> QED
  BY <1>0, <1>1, <1>2, <1>3 DEF OutputIsComplete

(* A query that does not fail returns every group it has rows of, and exactly
   one row without GROUP BY; one that fails has returned nothing. *)
THEOREM EveryGroupIsReturned == Spec => []OutputIsComplete
BY AggregateInvariant, InvariantComplete, PTL

(* An evaluation error stops the operator for good. *)
THEOREM FailureStops == Spec => FailureIsFinal
<1>1. IInv /\ [Next]_vars => [failed => failed' /\ pos' = pos /\ out' = out]_vars
  <2> SUFFICES ASSUME IInv, Next, failed
               PROVE  failed' /\ pos' = pos /\ out' = out
    OBVIOUS
  <2>1. frame # "building" /\ initialized
    BY DEF IInv, Phases
  <2> QED
    BY <2>1 DEF Next, Build, CallBuild, CallNext, StepKnownGroup, StepNewGroup, FailKey,
                BuildEnd, Emit, EmitEnd, ReadRow
<1> QED
  BY <1>1, AggregateInvariant, PTL DEF Spec, FailureIsFinal

-----------------------------------------------------------------------------
(* Sums over finite sets: MapThenSumSet adds the weights in the order of its
   choice, and every other order gives the same. *)
IsSum(f, T, w) == f = [s \in SUBSET T |->
    IF s = {} THEN 0 ELSE w[CHOOSE x \in s : TRUE] + f[s \ {CHOOSE x \in s : TRUE}]]

\* The recursion, up to subsets of m elements.
UpTo(T, m) == {s \in SUBSET T : Cardinality(s) <= m}
IsSumUpTo(f, T, w, m) == f = [s \in UpTo(T, m) |->
    IF s = {} THEN 0 ELSE w[CHOOSE x \in s : TRUE] + f[s \ {CHOOSE x \in s : TRUE}]]

LEMMA Chosen ==
    ASSUME NEW T, IsFiniteSet(T), NEW s \in SUBSET T, s # {}
    PROVE  \E x \in s : /\ x = (CHOOSE y \in s : TRUE)
                        /\ s \ {x} \in SUBSET T
                        /\ Cardinality(s) \in Nat /\ Cardinality(s \ {x}) \in Nat
                        /\ Cardinality(s \ {x}) = Cardinality(s) - 1
<1>1. PICK x \in s : x = (CHOOSE y \in s : TRUE)
  OBVIOUS
<1>2. IsFiniteSet(s)
  BY FS_Subset
<1>3. IsFiniteSet(s \ {x}) /\ Cardinality(s \ {x}) = Cardinality(s) - 1
  BY <1>2, FS_RemoveElement
<1>4. Cardinality(s) \in Nat /\ Cardinality(s \ {x}) \in Nat
  BY <1>2, <1>3, FS_CardinalityType
<1> QED
  BY <1>1, <1>3, <1>4

LEMMA SumUpToExists ==
    ASSUME NEW T, IsFiniteSet(T), NEW w, NEW n \in Nat
    PROVE  \E f : IsSumUpTo(f, T, w, n)
<1> DEFINE missing == {m \in Nat : ~\E f : IsSumUpTo(f, T, w, m)}
<1> SUFFICES ASSUME missing # {} PROVE FALSE
  OBVIOUS
<1>1. PICK m \in missing : \A k \in missing : m <= k
  <2>1. missing \subseteq Nat
    OBVIOUS
  <2> HIDE DEF missing
  <2> QED
    BY <2>1, Smallest
<1>2. m \in Nat /\ ~\E f : IsSumUpTo(f, T, w, m)
  BY <1>1
<1>3. m # 0
  <2>1. \A s \in UpTo(T, 0) : s = {}
    <3> TAKE s \in UpTo(T, 0)
    <3>1. IsFiniteSet(s) /\ Cardinality(s) <= 0
      BY FS_Subset DEF UpTo
    <3>2. Cardinality(s) \in Nat
      BY <3>1, FS_CardinalityType
    <3>3. Cardinality(s) = 0
      BY <3>1, <3>2
    <3> QED
      BY <3>1, <3>3, FS_EmptySet
  <2>2. IsSumUpTo([s \in UpTo(T, 0) |-> 0], T, w, 0)
    BY <2>1 DEF IsSumUpTo
  <2> QED
    BY <1>2, <2>2
<1>4. PICK g : IsSumUpTo(g, T, w, m - 1)
  <2>1. m - 1 \in Nat /\ ~(m <= m - 1)
    BY <1>2, <1>3
  <2> QED
    BY <1>1, <2>1
<1> DEFINE c(s) == CHOOSE x \in s : TRUE
           f == [s \in UpTo(T, m) |-> IF Cardinality(s) <= m - 1 THEN g[s]
                                      ELSE IF s = {} THEN 0 ELSE w[c(s)] + g[s \ {c(s)}]]
<1>5. ASSUME NEW s \in UpTo(T, m)
      PROVE  f[s] = IF s = {} THEN 0 ELSE w[c(s)] + f[s \ {c(s)}]
  <2>0. s \in SUBSET T /\ Cardinality(s) <= m
    BY DEF UpTo
  <2>1. ASSUME s # {} PROVE f[s \ {c(s)}] = g[s \ {c(s)}]
    <3>1. /\ s \ {c(s)} \in SUBSET T /\ Cardinality(s) \in Nat /\ Cardinality(s \ {c(s)}) \in Nat
          /\ Cardinality(s \ {c(s)}) = Cardinality(s) - 1
      BY <2>0, <2>1, Chosen
    <3>2. Cardinality(s \ {c(s)}) <= m - 1 /\ Cardinality(s \ {c(s)}) <= m
      BY <1>2, <2>0, <3>1
    <3>3. s \ {c(s)} \in UpTo(T, m)
      BY <3>1, <3>2 DEF UpTo
    <3> QED
      BY <3>2, <3>3
  <2>2. f[s] = IF s = {} THEN 0 ELSE w[c(s)] + g[s \ {c(s)}]
    <3>1. CASE Cardinality(s) <= m - 1
      <4>1. f[s] = g[s] /\ s \in UpTo(T, m - 1)
        BY <2>0, <3>1 DEF UpTo
      <4> HIDE DEF f
      <4> QED
        BY <1>4, <4>1 DEF IsSumUpTo
    <3>2. CASE ~(Cardinality(s) <= m - 1)
      BY <3>2
    <3> QED
      BY <3>1, <3>2
  <2> HIDE DEF f, c
  <2> QED
    BY <2>1, <2>2
<1>6. IsSumUpTo(f, T, w, m)
  <2>1. f = [s \in UpTo(T, m) |-> f[s]]
    OBVIOUS
  <2> HIDE DEF f
  <2> QED
    BY <1>5, <2>1 DEF IsSumUpTo
<1> QED
  BY <1>2, <1>6

LEMMA SumExists ==
    ASSUME NEW T, IsFiniteSet(T), NEW w
    PROVE  \E f : IsSum(f, T, w)
<1>1. Cardinality(T) \in Nat
  BY FS_CardinalityType
<1>2. PICK f : IsSumUpTo(f, T, w, Cardinality(T))
  BY <1>1, SumUpToExists
<1>3. UpTo(T, Cardinality(T)) = SUBSET T
  BY FS_Subset DEF UpTo
<1> QED
  BY <1>2, <1>3 DEF IsSum, IsSumUpTo

LEMMA SumUnfolds ==
    ASSUME NEW T, IsFiniteSet(T), NEW w, NEW f, IsSum(f, T, w)
    PROVE  /\ f[{}] = 0
           /\ \A s \in SUBSET T : s # {} =>
                \E x \in s : /\ x = (CHOOSE y \in s : TRUE)
                             /\ f[s] = w[x] + f[s \ {x}]
                             /\ s \ {x} \in SUBSET T
                             /\ Cardinality(s) \in Nat
                             /\ Cardinality(s \ {x}) = Cardinality(s) - 1
<1>1. f[{}] = 0
  BY DEF IsSum
<1>2. ASSUME NEW s \in SUBSET T, s # {}
      PROVE  \E x \in s : /\ x = (CHOOSE y \in s : TRUE)
                          /\ f[s] = w[x] + f[s \ {x}]
                          /\ s \ {x} \in SUBSET T
                          /\ Cardinality(s) \in Nat
                          /\ Cardinality(s \ {x}) = Cardinality(s) - 1
  <2>1. PICK x \in s : /\ x = (CHOOSE y \in s : TRUE)
                       /\ s \ {x} \in SUBSET T
                       /\ Cardinality(s) \in Nat
                       /\ Cardinality(s \ {x}) = Cardinality(s) - 1
    BY <1>2, Chosen
  <2>2. f[s] = w[CHOOSE y \in s : TRUE] + f[s \ {CHOOSE y \in s : TRUE}]
    BY <1>2 DEF IsSum
  <2> QED
    BY <2>1, <2>2
<1> QED
  BY <1>1, <1>2

\* A set of finite sets that is not empty has one with the fewest elements.
LEMMA FewestElements ==
    ASSUME NEW T, IsFiniteSet(T), NEW B, B \subseteq SUBSET T, B # {}
    PROVE  \E s \in B : \A u \in B : Cardinality(s) <= Cardinality(u)
<1> DEFINE sizes == {Cardinality(s) : s \in B}
<1>1. sizes \subseteq Nat
  BY FS_Subset, FS_CardinalityType
<1>2. sizes # {}
  OBVIOUS
<1>3. PICK n \in sizes : \A m \in sizes : n <= m
  <2> HIDE DEF sizes
  <2> QED
    BY <1>1, <1>2, Smallest
<1> QED
  BY <1>3

\* Sums within two sets agree on what they share.
LEMMA SumsAgree ==
    ASSUME NEW T, IsFiniteSet(T), NEW U \in SUBSET T, NEW w, NEW f, IsSum(f, T, w), NEW g, IsSum(g, U, w)
    PROVE  \A s \in SUBSET U : f[s] = g[s]
<1> DEFINE bad == {s \in SUBSET U : f[s] # g[s]}
<1> SUFFICES ASSUME bad # {} PROVE FALSE
  OBVIOUS
<1>0. IsFiniteSet(U)
  BY FS_Subset
<1>1. PICK s \in bad : \A u \in bad : Cardinality(s) <= Cardinality(u)
  <2>1. bad \subseteq SUBSET U
    OBVIOUS
  <2> HIDE DEF bad
  <2> QED
    BY <1>0, <2>1, FewestElements
<1>2. s \in SUBSET U /\ s \in SUBSET T /\ f[s] # g[s]
  BY <1>1
<1>3. s # {}
  <2>1. f[{}] = 0
    BY SumUnfolds
  <2>2. g[{}] = 0
    BY <1>0, SumUnfolds
  <2> QED
    BY <1>2, <2>1, <2>2
<1>4. PICK x \in s : /\ x = (CHOOSE y \in s : TRUE)
                     /\ f[s] = w[x] + f[s \ {x}]
                     /\ s \ {x} \in SUBSET T /\ Cardinality(s) \in Nat
                     /\ Cardinality(s \ {x}) = Cardinality(s) - 1
  BY <1>2, <1>3, SumUnfolds
<1>5. g[s] = w[x] + g[s \ {x}]
  <2>1. PICK z \in s : z = (CHOOSE y \in s : TRUE) /\ g[s] = w[z] + g[s \ {z}]
    BY <1>0, <1>2, <1>3, SumUnfolds
  <2>2. z = x
    BY <1>4, <2>1
  <2> QED
    BY <2>1, <2>2
<1>6. s \ {x} \in SUBSET U /\ s \ {x} \notin bad
  BY <1>1, <1>2, <1>4
<1> QED
  BY <1>2, <1>4, <1>5, <1>6

\* The sum of a set with x is its sum without x, and x.
LEMMA SumPicks ==
    ASSUME NEW T, IsFiniteSet(T), NEW w, \A x \in T : w[x] \in Int, NEW f, IsSum(f, T, w)
    PROVE  \A s \in SUBSET T : f[s] \in Int /\ \A y \in s : f[s] = w[y] + f[s \ {y}]
<1> DEFINE Good(s) == f[s] \in Int /\ \A y \in s : f[s] = w[y] + f[s \ {y}]
           bad == {s \in SUBSET T : ~Good(s)}
<1> SUFFICES ASSUME bad # {} PROVE FALSE
  OBVIOUS
<1>1. PICK s \in bad : \A u \in bad : Cardinality(s) <= Cardinality(u)
  <2>1. bad \subseteq SUBSET T
    OBVIOUS
  <2> HIDE DEF bad
  <2> QED
    BY <2>1, FewestElements
<1>2. s \in SUBSET T /\ ~Good(s)
  BY <1>1
<1>3. s # {}
  <2>1. f[{}] = 0
    BY SumUnfolds
  <2>2. Good({})
    BY <2>1
  <2> HIDE DEF Good
  <2> QED
    BY <1>2, <2>2
<1>4. PICK x \in s : /\ f[s] = w[x] + f[s \ {x}]
                     /\ s \ {x} \in SUBSET T /\ Cardinality(s) \in Nat
                     /\ Cardinality(s \ {x}) = Cardinality(s) - 1
  BY <1>2, <1>3, SumUnfolds
<1>5. ASSUME NEW y \in s PROVE Good(s \ {y})
  <2>1. s \ {y} \in SUBSET T /\ IsFiniteSet(s)
    BY <1>2, FS_Subset
  <2>2. Cardinality(s \ {y}) = Cardinality(s) - 1
    BY <2>1, FS_RemoveElement
  <2>3. ~(Cardinality(s) <= Cardinality(s \ {y}))
    BY <1>4, <2>2
  <2> QED
    BY <1>1, <2>1, <2>3
<1>6. f[s \ {x}] \in Int /\ w[x] \in Int
  BY <1>2, <1>5
<1>7. ASSUME NEW y \in s PROVE f[s] = w[y] + f[s \ {y}]
  <2>1. CASE y = x
    BY <1>4, <2>1
  <2>2. CASE y # x
    <3>1. y \in s \ {x} /\ x \in s \ {y} /\ (s \ {x}) \ {y} = (s \ {y}) \ {x}
      BY <2>2
    <3>2. f[s \ {x}] = w[y] + f[(s \ {x}) \ {y}]
      BY <1>5, <3>1
    <3>3. f[s \ {y}] = w[x] + f[(s \ {y}) \ {x}]
      BY <1>5, <3>1
    <3>4. f[(s \ {x}) \ {y}] \in Int
      <4>1. (s \ {x}) \ {y} \in SUBSET T /\ IsFiniteSet(s) /\ IsFiniteSet(s \ {x})
        BY <1>2, <1>4, FS_Subset
      <4>2. Cardinality((s \ {x}) \ {y}) = Cardinality(s) - 1 - 1
        <5> DEFINE u == s \ {x}
        <5>1. IsFiniteSet(u) /\ y \in u /\ Cardinality(u) = Cardinality(s) - 1
          BY <1>4, <3>1, <4>1
        <5> HIDE DEF u
        <5>2. Cardinality(u \ {y}) = Cardinality(u) - 1
          BY <5>1, FS_RemoveElement
        <5> QED
          BY <5>1, <5>2 DEF u
      <4>3. ~(Cardinality(s) <= Cardinality((s \ {x}) \ {y}))
        BY <1>4, <4>2
      <4> QED
        BY <1>1, <4>1, <4>3
    <3>5. w[x] \in Int /\ w[y] \in Int
      BY <1>2
    <3> QED
      BY <1>4, <3>1, <3>2, <3>3, <3>4, <3>5
  <2> QED
    BY <2>1, <2>2
<1> QED
  BY <1>2, <1>4, <1>6, <1>7

\* MapThenSumSet, one element at a time.
LEMMA SumAdds ==
    ASSUME NEW S, IsFiniteSet(S), NEW x, x \notin S, NEW w, \A y \in S \cup {x} : w[y] \in Int
    PROVE  /\ SumOver(w, S) \in Int
           /\ SumOver(w, S \cup {x}) = SumOver(w, S) + w[x]
<1> DEFINE T == S \cup {x}
<1>1. IsFiniteSet(T) /\ S \in SUBSET T /\ T \ {x} = S
  BY FS_AddElement
<1>2. PICK f, g : /\ f = (CHOOSE h : IsSum(h, T, w)) /\ IsSum(f, T, w)
                  /\ g = (CHOOSE h : IsSum(h, S, w)) /\ IsSum(g, S, w)
  BY <1>1, SumExists
<1>3. SumOver(w, T) = f[T]
  BY <1>2 DEF SumOver, MapThenSumSet, MapThenFoldSet, IsSum
<1>4. SumOver(w, S) = g[S]
  BY <1>2 DEF SumOver, MapThenSumSet, MapThenFoldSet, IsSum
<1> HIDE DEF T
<1>5. f[S] = g[S]
  BY <1>1, <1>2, SumsAgree
<1>6. f[T] = w[x] + f[T \ {x}] /\ f[S] \in Int /\ w[x] \in Int
  <2>1. /\ \A y \in T : w[y] \in Int
        /\ x \in T
    BY DEF T
  <2> QED
    BY <1>1, <1>2, <2>1, SumPicks
<1>7. SumOver(w, S) \in Int /\ SumOver(w, T) = SumOver(w, S) + w[x]
  <2>1. SumOver(w, S) = f[S]
    BY <1>4, <1>5
  <2>2. SumOver(w, T) = w[x] + f[S]
    BY <1>1, <1>3, <1>6
  <2> QED
    BY <1>6, <2>1, <2>2
<1> QED
  BY <1>7 DEF T

LEMMA SumOfNone == ASSUME NEW w PROVE SumOver(w, {}) = 0
<1>1. PICK f : f = (CHOOSE h : IsSum(h, {}, w)) /\ IsSum(f, {}, w)
  BY SumExists, FS_EmptySet
<1>2. SumOver(w, {}) = f[{}]
  BY <1>1 DEF SumOver, MapThenSumSet, MapThenFoldSet, IsSum
<1> QED
  BY <1>1, <1>2, SumUnfolds, FS_EmptySet

-----------------------------------------------------------------------------
(* int64 and float64 sums. *)
LEMMA IntAddModulo ==
    ASSUME NEW i \in Int, NEW j \in Int
    PROVE  \E k \in Int : IntAdd(i, j) = i + j + (2 * IntCutoff) * k
<1> DEFINE w == 2 * IntCutoff
           n == i + j + IntCutoff
<1>1. w \in Nat \ {0} /\ n \in Int /\ IntCutoff \in Nat
  BY IntCutoffAssumption
<1>2. PICK k \in Int : n = w * k + (n % w) /\ n % w \in 0 .. w - 1
  <2> HIDE DEF n, w
  <2> QED
    BY <1>1, DivMod
<1>3. IntAdd(i, j) = (n % w) - IntCutoff
  BY DEF IntAdd
<1>4. w * (-k) = -(w * k) /\ w * k \in Int /\ n % w \in Int
  <2> HIDE DEF n
  <2> QED
    BY <1>1, <1>2
<1>5. IntAdd(i, j) = i + j + w * (-k)
  <2>1. PICK a, b : a = w * k /\ b = n % w
    OBVIOUS
  <2> QED
    BY <1>1, <1>2, <1>3, <1>4, <2>1
<1> QED
  BY <1>5

\* Inside int64 the addition is exact.
LEMMA IntAddExact ==
    ASSUME NEW i \in Int, NEW j \in Int, i + j \in IntRange
    PROVE  IntAdd(i, j) = i + j
<1>1. PICK k \in Int : IntAdd(i, j) = i + j + (2 * IntCutoff) * k
  BY IntAddModulo
<1>2. IntAdd(i, j) \in IntRange
  BY IntAddRange
<1> DEFINE w == 2 * IntCutoff
<1>3. w \in Nat \ {0} /\ IntCutoff \in Nat
  BY IntCutoffAssumption
<1>4. w * k \in Int /\ IntAdd(i, j) = i + j + w * k
  BY <1>1, <1>3
<1>5. w * k < w /\ w * k > -w
  <2>1. PICK a : a = w * k
    OBVIOUS
  <2> QED
    BY <1>2, <1>3, <1>4, <2>1 DEF IntRange
<1>6. k = 0
  <2> HIDE DEF w
  <2> QED
    BY <1>3, <1>5, Multiple
<1> QED
  BY <1>1, <1>3, <1>6

\* However often the sum wraps around, it stays right modulo 2^64 ...
LEMMA WrapsAdd ==
    ASSUME NEW x \in Int, NEW total \in Int, NEW j \in Int, Wraps(x, total)
    PROVE  Wraps(IntAdd(x, j), total + j)
<1> DEFINE w == 2 * IntCutoff
<1>1. w \in Nat \ {0}
  BY IntCutoffAssumption
<1>2. PICK k \in Int : x - total = w * k
  <2>1. PICK k \in Int : x - total = w * k + ((x - total) % w)
    <3>1. x - total \in Int
      OBVIOUS
    <3> HIDE DEF w
    <3> QED
      BY <1>1, <3>1, DivMod
  <2>2. (x - total) % w = 0
    BY DEF Wraps
  <2>3. w * k \in Int
    BY <1>1
  <2> QED
    BY <2>1, <2>2, <2>3
<1>3. PICK m \in Int : IntAdd(x, j) = x + j + w * m
  BY IntAddModulo
<1>4. IntAdd(x, j) - (total + j) = w * (k + m)
  <2>1. w * (k + m) = w * k + w * m /\ w * k \in Int /\ w * m \in Int
    <3> HIDE DEF w
    <3> QED
      BY <1>1
  <2> QED
    BY <1>2, <1>3, <2>1
<1>5. (w * (k + m)) % w = 0
  <2>1. k + m \in Int
    OBVIOUS
  <2> HIDE DEF w
  <2> QED
    BY <1>1, <2>1, ModOfMultiple
<1> QED
  BY <1>4, <1>5 DEF Wraps

\* ... and is the total when that is an int64.
LEMMA WrapsInside ==
    ASSUME NEW x \in IntRange, NEW total \in IntRange, Wraps(x, total)
    PROVE  x = total
<1> DEFINE w == 2 * IntCutoff
<1>1. w \in Nat \ {0} /\ IntCutoff \in Nat /\ x \in Int /\ total \in Int
  BY IntCutoffAssumption DEF IntRange
<1>2. PICK k \in Int : x - total = w * k + ((x - total) % w)
  <2>1. x - total \in Int
    BY <1>1
  <2> HIDE DEF w
  <2> QED
    BY <1>1, <2>1, DivMod
<1>3. w * k = x - total
  <2>1. (x - total) % w = 0 /\ w * k \in Int
    BY <1>1 DEF Wraps
  <2> QED
    BY <1>1, <1>2, <2>1
<1>4. w * k < w /\ w * k > -w
  BY <1>1, <1>3 DEF IntRange
<1>5. k = 0
  <2> HIDE DEF w
  <2> QED
    BY <1>1, <1>4, Multiple
<1> QED
  BY <1>1, <1>3, <1>5

\* Where every sum is a double, float64 adds exactly.
LEMMA FloatAddExact ==
    ASSUME NEW h \in Int, NEW v, v.x \in Int, ~IsNaN(v),
           h + v.x >= -FloatExact, h + v.x <= FloatExact,
           h >= -FloatExact, h <= FloatExact, v.x >= -FloatExact, v.x <= FloatExact
    PROVE  FloatAdd(Float64(h), v) = Float64(h + v.x)
<1>1. Inf \in Int /\ Inf > FloatExact /\ FloatExact \in Nat
  BY InfFacts, IntCutoffAssumption
<1>2. h # Inf /\ h # -Inf /\ v.x # Inf /\ v.x # -Inf
  BY <1>1
<1>3. h + v.x \in Floats
  BY <1>1, FloatsAssumption
<1>4. Round[h + v.x] = h + v.x
  BY <1>3, RoundFloat
<1>5. Float64(h).x = h /\ ~IsNaN(Float64(h))
  BY DEF Float64, IsNaN
<1>6. ~(h + v.x > Inf) /\ ~(h + v.x < -Inf)
  BY <1>1
<1> QED
  BY <1>2, <1>4, <1>5, <1>6 DEF FloatAdd

-----------------------------------------------------------------------------
(* One more row of a column. *)

\* Row n comes after the rows S, and the values of the column are of type t.
Extends(col, t, S, n) ==
    /\ IsFiniteSet(S) /\ n \in Int /\ n \notin S /\ \A r \in S : r \in Int /\ r < n
    /\ \A r \in S \cup {n} : r \in DOMAIN col /\ col[r] \in Values /\ col[r].type = t
    /\ t \in {TInt, TFloat, TText, TBool}

\* Any value, one that failed included, is NULL or not.
LEMMA NonNullStep ==
    ASSUME NEW col, NEW S, IsFiniteSet(S), NEW n, n \notin S
    PROVE  /\ IsNull(col[n]) => NonNull(col, S \cup {n}) = NonNull(col, S)
           /\ ~IsNull(col[n]) => NonNull(col, S \cup {n}) = NonNull(col, S) \cup {n}
           /\ n \notin NonNull(col, S) /\ IsFiniteSet(NonNull(col, S))
           /\ Cardinality(NonNull(col, S)) <= Cardinality(S)
           /\ Cardinality(NonNull(col, S)) \in Nat
<1>1. NonNull(col, S) \subseteq S
  BY DEF NonNull
<1>2. /\ IsFiniteSet(NonNull(col, S)) /\ Cardinality(NonNull(col, S)) <= Cardinality(S)
      /\ Cardinality(NonNull(col, S)) \in Nat
  BY <1>1, FS_Subset, FS_CardinalityType
<1> QED
  BY <1>1, <1>2 DEF NonNull

LEMMA NumbersStep ==
    ASSUME NEW col, NEW S, IsFiniteSet(S), NEW n, n \notin S
    PROVE  /\ ~Ordinary(col[n]) => Numbers(col, S \cup {n}) = Numbers(col, S)
           /\ Ordinary(col[n]) => Numbers(col, S \cup {n}) = Numbers(col, S) \cup {n}
           /\ n \notin Numbers(col, S) /\ IsFiniteSet(Numbers(col, S))
           /\ Cardinality(Numbers(col, S)) <= Cardinality(S)
           /\ Cardinality(Numbers(col, S)) \in Nat
<1>1. Numbers(col, S) \subseteq S
  BY DEF Numbers, NonNull
<1>2. /\ IsFiniteSet(Numbers(col, S)) /\ Cardinality(Numbers(col, S)) <= Cardinality(S)
      /\ Cardinality(Numbers(col, S)) \in Nat
  BY <1>1, FS_Subset, FS_CardinalityType
<1> QED
  BY <1>1, <1>2 DEF Numbers, NonNull, Ordinary

\* Counting one more.
LEMMA CountStep ==
    ASSUME NEW S, IsFiniteSet(S), NEW n, n \notin S, Cardinality(S) + 1 < IntCutoff
    PROVE  IntAdd(Cardinality(S), 1) = Cardinality(S \cup {n})
<1>1. Cardinality(S) \in Nat /\ Cardinality(S \cup {n}) = Cardinality(S) + 1
  BY FS_CardinalityType, FS_AddElement
<1>2. Cardinality(S) + 1 \in IntRange
  BY <1>1, IntCutoffAssumption DEF IntRange
<1> QED
  BY <1>1, <1>2, IntAddExact

LEMMA AbsFacts ==
    ASSUME NEW x \in Int
    PROVE  /\ Abs(x) \in Int /\ Abs(x) >= 0 /\ Abs(x) >= x /\ Abs(x) >= -x
           /\ \A y \in Int : Abs(x + y) <= Abs(x) + Abs(y) /\ Abs(y) \in Nat
BY DEF Abs

\* What a number adds to the sums of its column.
AddsUp(col, S, n) == /\ col[n].x \in Int
                     /\ Total(col, S \cup {n}) = Total(col, S) + col[n].x
                     /\ Magnitude(col, S \cup {n}) = Magnitude(col, S) + Abs(col[n].x)

LEMMA TotalStep ==
    ASSUME NEW col, NEW t, NEW S, NEW n, Extends(col, t, S, n)
    PROVE  /\ Total(col, S) \in Int /\ Magnitude(col, S) \in Int
           /\ ~Ordinary(col[n]) => /\ Total(col, S \cup {n}) = Total(col, S)
                                   /\ Magnitude(col, S \cup {n}) = Magnitude(col, S)
           /\ Ordinary(col[n]) => AddsUp(col, S, n)
<1> DEFINE w == [r \in DOMAIN col |-> col[r].x]
           m == [r \in DOMAIN col |-> Abs(col[r].x)]
           N == Numbers(col, S)
<1>1. IsFiniteSet(S) /\ n \notin S
      /\ \A r \in S \cup {n} : r \in DOMAIN col /\ col[r] \in Values
  BY DEF Extends
<1>2. /\ IsFiniteSet(N) /\ n \notin N /\ N \subseteq S
      /\ ~Ordinary(col[n]) => Numbers(col, S \cup {n}) = N
      /\ Ordinary(col[n]) => Numbers(col, S \cup {n}) = N \cup {n}
  <2>1. N \subseteq S
    BY DEF Numbers, NonNull
  <2> QED
    BY <1>1, <2>1, NumbersStep
<1>3. \A r \in N \cup {n} : col[r].x \in Int
  BY <1>1, <1>2, ValueNumber
<1>4. \A r \in N \cup {n} : w[r] = col[r].x /\ m[r] = Abs(col[r].x) /\ w[r] \in Int /\ m[r] \in Int
  BY <1>1, <1>2, <1>3, AbsFacts
<1>5. Total(col, S) = SumOver(w, N) /\ Magnitude(col, S) = SumOver(m, N)
  BY DEF Total, Magnitude
<1>6. ~Ordinary(col[n]) => /\ Total(col, S \cup {n}) = SumOver(w, N)
                           /\ Magnitude(col, S \cup {n}) = SumOver(m, N)
  BY <1>2 DEF Total, Magnitude
<1>7. Ordinary(col[n]) => /\ Total(col, S \cup {n}) = SumOver(w, N \cup {n})
                          /\ Magnitude(col, S \cup {n}) = SumOver(m, N \cup {n})
  BY <1>2 DEF Total, Magnitude
<1> HIDE DEF w, m, N
<1>8. SumOver(w, N) \in Int /\ SumOver(w, N \cup {n}) = SumOver(w, N) + w[n]
  BY <1>2, <1>4, SumAdds
<1>9. SumOver(m, N) \in Int /\ SumOver(m, N \cup {n}) = SumOver(m, N) + m[n]
  BY <1>2, <1>4, SumAdds
<1> QED
  BY <1>4, <1>5, <1>6, <1>7, <1>8, <1>9 DEF AddsUp

\* The magnitude bounds the total.
LEMMA BoundStep ==
    ASSUME NEW col, NEW t, NEW S, NEW n, Extends(col, t, S, n),
           Abs(Total(col, S)) <= Magnitude(col, S)
    PROVE  /\ Total(col, S \cup {n}) \in Int /\ Magnitude(col, S \cup {n}) \in Int
           /\ Abs(Total(col, S \cup {n})) <= Magnitude(col, S \cup {n})
           /\ Dense(col, S \cup {n}) => Dense(col, S)
<1>1. PICK a, b : a = Total(col, S) /\ b = Magnitude(col, S) /\ a \in Int /\ b \in Int /\ Abs(a) <= b
  BY TotalStep
<1>2. FloatExact \div 2 \in Int
  BY IntCutoffAssumption
<1>3. CASE ~Ordinary(col[n])
  BY <1>1, <1>3, TotalStep DEF Dense
<1>4. CASE Ordinary(col[n])
  <2>1. PICK x \in Int : x = col[n].x
    BY <1>4, TotalStep DEF AddsUp
  <2>2. Total(col, S \cup {n}) = a + x /\ Magnitude(col, S \cup {n}) = b + Abs(x)
    BY <1>1, <1>4, <2>1, TotalStep DEF AddsUp
  <2>3. Abs(x) \in Nat /\ Abs(a + x) <= Abs(a) + Abs(x) /\ Abs(a) \in Int
    BY <1>1, <2>1, AbsFacts
  <2>4. a + x \in Int /\ b + Abs(x) \in Int /\ Abs(a + x) <= b + Abs(x) /\ b <= b + Abs(x)
    <3>1. PICK p, q : p = Abs(a) /\ q = Abs(x)
      OBVIOUS
    <3>2. Abs(a + x) \in Int
      <4>1. a + x \in Int
        BY <1>1
      <4> QED
        BY <4>1, AbsFacts
    <3> QED
      BY <1>1, <2>1, <2>3, <3>1, <3>2
  <2>5. Dense(col, S \cup {n}) => Dense(col, S)
    BY <1>1, <1>2, <2>2, <2>4 DEF Dense
  <2> QED
    BY <2>2, <2>4, <2>5
<1> QED
  BY <1>3, <1>4

-----------------------------------------------------------------------------
(* The state of each kind of aggregate fits the rows it was stepped with. *)

\* step, by the kind of the aggregate.
LEMMA CountSteps ==
    ASSUME NEW spec \in Specs, spec.kind = "COUNT", NEW st \in States, NEW v
    PROVE  StepState(spec, st, v).count =
             IF spec.star \/ ~IsNull(v) THEN IntAdd(st.count, 1) ELSE st.count
<1>1. Counted(st).count = IntAdd(st.count, 1)
  BY DEF Counted, States
<1> QED
  BY <1>1 DEF StepState

LEMMA SkippedSteps ==
    ASSUME NEW spec \in Specs, spec.kind # "COUNT", NEW st \in States, NEW v, ~Ordinary(v)
    PROVE  StepState(spec, st, v) = st
BY DEF StepState, Ordinary

LEMMA SumSteps ==
    ASSUME NEW spec \in Specs, spec.kind = "SUM", NEW st \in States, NEW v, Ordinary(v)
    PROVE  /\ StepState(spec, st, v).seen
           /\ v.type = TInt => StepState(spec, st, v).intSum = IntAdd(st.intSum, v.x)
           /\ v.type # TInt => StepState(spec, st, v).floatSum = FloatAdd(st.floatSum, v)
<1>1. CASE v.type = TInt
  <2>1. StepState(spec, st, v) = [st EXCEPT !.seen = TRUE, !.intSum = IntAdd(@, v.x)]
    BY <1>1 DEF StepState, Ordinary
  <2> QED
    BY <1>1, <2>1 DEF States
<1>2. CASE v.type # TInt
  <2>1. StepState(spec, st, v) = [st EXCEPT !.seen = TRUE, !.floatSum = FloatAdd(@, v)]
    BY <1>2 DEF StepState, Ordinary
  <2> QED
    BY <1>2, <2>1 DEF States
<1> QED
  BY <1>1, <1>2

LEMMA AvgSteps ==
    ASSUME NEW spec \in Specs, spec.kind = "AVG", NEW st \in States, NEW v, Ordinary(v)
    PROVE  /\ StepState(spec, st, v).count = IntAdd(st.count, 1)
           /\ StepState(spec, st, v).floatSum = FloatAdd(st.floatSum, AsFloat(v))
<1>1. StepState(spec, st, v) = [Counted(st) EXCEPT !.floatSum = FloatAdd(@, AsFloat(v))]
  BY DEF StepState, Ordinary
<1> QED
  BY <1>1 DEF Counted, States

LEMMA ExtremeSteps ==
    ASSUME NEW spec \in Specs, spec.kind \in {"MIN", "MAX"}, NEW st \in States, NEW v, Ordinary(v)
    PROVE  /\ StepState(spec, st, v).seen
           /\ StepState(spec, st, v).best =
                IF ~st.seen \/ Better(spec.kind, v, st.best) THEN v ELSE st.best
<1>1. StepState(spec, st, v) = IF ~st.seen \/ Better(spec.kind, v, st.best)
                               THEN [st EXCEPT !.seen = TRUE, !.best = v] ELSE st
  BY DEF StepState, Ordinary
<1> QED
  BY <1>1 DEF States

LEMMA CountFits ==
    ASSUME NEW spec \in Specs, spec.kind = "COUNT", NEW st \in States, NEW col,
           NEW S, IsFiniteSet(S), NEW n, n \notin S, Cardinality(S) + 1 < IntCutoff,
           Fits(spec, st, col, S)
    PROVE  Fits(spec, StepState(spec, st, col[n]), col, S \cup {n})
<1>1. st.count = Cardinality(IF spec.star THEN S ELSE NonNull(col, S))
  BY DEF Fits
<1> SUFFICES StepState(spec, st, col[n]).count =
               Cardinality(IF spec.star THEN S \cup {n} ELSE NonNull(col, S \cup {n}))
  BY DEF Fits
<1>2. spec.star \in BOOLEAN
  BY DEF Specs
<1>3. StepState(spec, st, col[n]).count =
          IF spec.star \/ ~IsNull(col[n]) THEN IntAdd(st.count, 1) ELSE st.count
  BY CountSteps
<1>4. CASE spec.star
  <2>1. IntAdd(Cardinality(S), 1) = Cardinality(S \cup {n})
    BY CountStep
  <2> QED
    BY <1>1, <1>3, <1>4, <2>1
<1>5. CASE ~spec.star /\ IsNull(col[n])
  <2>1. NonNull(col, S \cup {n}) = NonNull(col, S)
    BY <1>5, NonNullStep
  <2> QED
    BY <1>1, <1>3, <1>5, <2>1
<1>6. CASE ~spec.star /\ ~IsNull(col[n])
  <2> DEFINE N == NonNull(col, S)
  <2>1. /\ IsFiniteSet(N) /\ n \notin N /\ Cardinality(N) + 1 < IntCutoff
        /\ NonNull(col, S \cup {n}) = N \cup {n}
    <3>1. Cardinality(N) <= Cardinality(S) /\ Cardinality(N) \in Nat /\ Cardinality(S) \in Nat
      BY NonNullStep, FS_CardinalityType
    <3> QED
      BY <1>6, <3>1, NonNullStep, IntCutoffAssumption
  <2>2. st.count = Cardinality(N)
    BY <1>1, <1>6
  <2> HIDE DEF N
  <2>3. IntAdd(Cardinality(N), 1) = Cardinality(N \cup {n})
    BY <2>1, CountStep
  <2> QED
    BY <1>3, <1>6, <2>1, <2>2, <2>3
<1> QED
  BY <1>2, <1>4, <1>5, <1>6

\* A value that is skipped leaves the state as it was, and so its numbers.
LEMMA SkippedFits ==
    ASSUME NEW spec \in Specs, spec.kind # "COUNT", NEW st \in States, NEW col, NEW t,
           NEW S, NEW n, Extends(col, t, S, n), Fits(spec, st, col, S), ~Ordinary(col[n])
    PROVE  Fits(spec, StepState(spec, st, col[n]), col, S \cup {n})
<1>1. StepState(spec, st, col[n]) = st
  BY SkippedSteps
<1>2. /\ Numbers(col, S \cup {n}) = Numbers(col, S)
      /\ Total(col, S \cup {n}) = Total(col, S)
      /\ Magnitude(col, S \cup {n}) = Magnitude(col, S)
  <2>1. IsFiniteSet(S) /\ n \notin S
    BY DEF Extends
  <2>2. Numbers(col, S \cup {n}) = Numbers(col, S)
    BY <2>1, NumbersStep
  <2> QED
    BY <2>2, TotalStep
<1>3. /\ AllInts(col, S \cup {n}) <=> AllInts(col, S)
      /\ Dense(col, S \cup {n}) <=> Dense(col, S)
      /\ IsExtreme(spec.kind, st.best, col, S \cup {n}) <=> IsExtreme(spec.kind, st.best, col, S)
  BY <1>2 DEF AllInts, Dense, IsExtreme
<1>4. Halves(col, S \cup {n}) = Halves(col, S)
  BY <1>2, <1>3 DEF Halves
<1> QED
  BY <1>1, <1>2, <1>3, <1>4 DEF Fits

\* What a number adds to its column.
AddsNumber(col, S, n) ==
    /\ Total(col, S) \in Int /\ Magnitude(col, S) \in Int /\ col[n].x \in Int
    /\ Total(col, S \cup {n}) = Total(col, S) + col[n].x
    /\ Magnitude(col, S \cup {n}) = Magnitude(col, S) + Abs(col[n].x)
    /\ Numbers(col, S \cup {n}) = Numbers(col, S) \cup {n}
    /\ n \notin Numbers(col, S) /\ IsFiniteSet(Numbers(col, S)) /\ Numbers(col, S) \subseteq S
    /\ Cardinality(Numbers(col, S)) \in Nat /\ Cardinality(S) \in Nat
    /\ Cardinality(Numbers(col, S)) <= Cardinality(S)

LEMMA NumberAdds ==
    ASSUME NEW col, NEW t, NEW S, NEW n, Extends(col, t, S, n), Ordinary(col[n])
    PROVE  AddsNumber(col, S, n)
<1>1. IsFiniteSet(S) /\ n \notin S
  BY DEF Extends
<1>2. Numbers(col, S \cup {n}) = Numbers(col, S) \cup {n}
  BY <1>1, NumbersStep
<1>3. /\ n \notin Numbers(col, S) /\ IsFiniteSet(Numbers(col, S))
      /\ Cardinality(Numbers(col, S)) \in Nat
      /\ Cardinality(Numbers(col, S)) <= Cardinality(S)
  BY <1>1, NumbersStep
<1>4. Total(col, S) \in Int /\ Magnitude(col, S) \in Int /\ AddsUp(col, S, n)
  BY TotalStep
<1>5. Cardinality(S) \in Nat /\ Numbers(col, S) \subseteq S
  BY <1>1, FS_CardinalityType DEF Numbers, NonNull
<1> QED
  BY <1>2, <1>3, <1>4, <1>5 DEF AddsNumber, AddsUp

\* While the magnitudes stay in the dense range, so do twice the sums.
LEMMA DenseBounds ==
    ASSUME NEW col, NEW t, NEW S, NEW n, Extends(col, t, S, n), Ordinary(col[n]),
           Abs(Total(col, S)) <= Magnitude(col, S), Dense(col, S \cup {n})
    PROVE  /\ Dense(col, S) /\ Total(col, S) \in Int /\ col[n].x \in Int
           /\ Total(col, S \cup {n}) = Total(col, S) + col[n].x
           /\ 2 * Total(col, S) \in -FloatExact .. FloatExact
           /\ 2 * col[n].x \in -FloatExact .. FloatExact
           /\ 2 * (Total(col, S) + col[n].x) \in -FloatExact .. FloatExact
<1>1. Dense(col, S)
  BY BoundStep
<1>2. PICK a, b, x : a = Total(col, S) /\ b = Magnitude(col, S) /\ x = col[n].x
  OBVIOUS
<1>3. /\ a \in Int /\ b \in Int /\ x \in Int /\ Abs(a) <= b
      /\ Total(col, S \cup {n}) = a + x /\ Magnitude(col, S \cup {n}) = b + Abs(x)
  BY <1>2, TotalStep DEF AddsUp
<1>4. b + Abs(x) <= FloatExact \div 2 /\ FloatExact \in Nat
  BY <1>3, IntCutoffAssumption DEF Dense
<1>5. 2 * (b + Abs(x)) <= FloatExact
  <2>1. PICK m : m = b + Abs(x)
    OBVIOUS
  <2>2. m \in Int /\ m <= FloatExact \div 2
    BY <1>3, <1>4, <2>1, AbsFacts
  <2>3. 2 * m <= FloatExact
    BY <1>4, <2>2
  <2> QED
    BY <2>1, <2>3
<1>6. /\ 2 * a \in -FloatExact .. FloatExact /\ 2 * x \in -FloatExact .. FloatExact
      /\ 2 * (a + x) \in -FloatExact .. FloatExact
  <2>1. PICK p, q : p = Abs(a) /\ q = Abs(x)
    OBVIOUS
  <2>2. p \in Int /\ p >= a /\ p >= -a /\ p >= 0
    BY <1>3, <2>1, AbsFacts
  <2>3. q \in Int /\ q >= x /\ q >= -x /\ q >= 0
    BY <1>3, <2>1, AbsFacts
  <2> QED
    BY <1>3, <1>4, <1>5, <2>1, <2>2, <2>3
<1> QED
  BY <1>1, <1>2, <1>3, <1>6

LEMMA FloatExactFacts == FloatExact \in Nat /\ IntCutoff \in Nat
BY IntCutoffAssumption

LEMMA SumFits ==
    ASSUME NEW spec \in Specs, spec.kind = "SUM", NEW st \in States, NEW col,
           NEW t \in {TInt, TFloat}, spec.outType = t,
           NEW S, NEW n, Extends(col, t, S, n), Fits(spec, st, col, S), Ordinary(col[n])
    PROVE  Fits(spec, StepState(spec, st, col[n]), col, S \cup {n})
<1>0. TInt # TFloat
  BY DEF TInt, TFloat
<1>1. PICK new : new = StepState(spec, st, col[n])
  OBVIOUS
<1>2. /\ new.seen
      /\ col[n].type = TInt => new.intSum = IntAdd(st.intSum, col[n].x)
      /\ col[n].type # TInt => new.floatSum = FloatAdd(st.floatSum, col[n])
      /\ col[n].type = t
  BY <1>1, SumSteps DEF Extends
<1>3. /\ Abs(Total(col, S)) <= Magnitude(col, S)
      /\ spec.outType = TInt => Wraps(st.intSum, Total(col, S))
      /\ spec.outType = TFloat /\ Dense(col, S) => st.floatSum = Float64(Total(col, S))
  BY DEF Fits
<1>4. /\ Total(col, S) \in Int /\ col[n].x \in Int
      /\ Total(col, S \cup {n}) = Total(col, S) + col[n].x
      /\ Numbers(col, S \cup {n}) = Numbers(col, S) \cup {n}
  <2>1. AddsNumber(col, S, n)
    BY NumberAdds
  <2> QED
    BY <2>1 DEF AddsNumber
<1>5. Numbers(col, S \cup {n}) # {}
  BY <1>4
<1>6. /\ Total(col, S \cup {n}) \in Int /\ Magnitude(col, S \cup {n}) \in Int
      /\ Abs(Total(col, S \cup {n})) <= Magnitude(col, S \cup {n})
  BY <1>3, BoundStep
<1>7. ASSUME spec.outType = TInt PROVE Wraps(new.intSum, Total(col, S \cup {n}))
  <2>1. PICK x, a, j : x = st.intSum /\ a = Total(col, S) /\ j = col[n].x
    OBVIOUS
  <2>2. x \in Int /\ a \in Int /\ j \in Int /\ Wraps(x, a)
    BY <1>3, <1>4, <1>7, <2>1, IntCutoffAssumption DEF States, IntRange
  <2>3. Wraps(IntAdd(x, j), a + j)
    BY <2>2, WrapsAdd
  <2> QED
    BY <1>2, <1>4, <1>7, <2>1, <2>3
<1>8. ASSUME spec.outType = TFloat, Dense(col, S \cup {n})
      PROVE  new.floatSum = Float64(Total(col, S \cup {n}))
  <2>1. PICK h, v : h = Total(col, S) /\ v = col[n]
    OBVIOUS
  <2>2. /\ Dense(col, S) /\ h \in Int /\ v.x \in Int
        /\ 2 * h \in -FloatExact .. FloatExact /\ 2 * v.x \in -FloatExact .. FloatExact
        /\ 2 * (h + v.x) \in -FloatExact .. FloatExact
    BY <1>3, <1>8, <2>1, DenseBounds
  <2>3. /\ h + v.x >= -FloatExact /\ h + v.x <= FloatExact
        /\ h >= -FloatExact /\ h <= FloatExact /\ v.x >= -FloatExact /\ v.x <= FloatExact
    BY <2>2, FloatExactFacts
  <2>4. ~IsNaN(v)
    BY <2>1 DEF Ordinary
  <2>5. FloatAdd(Float64(h), v) = Float64(h + v.x)
    BY <2>2, <2>3, <2>4, FloatAddExact
  <2>6. st.floatSum = Float64(h) /\ new.floatSum = FloatAdd(st.floatSum, v)
    BY <1>0, <1>2, <1>3, <1>8, <2>1, <2>2
  <2> QED
    BY <1>4, <2>1, <2>5, <2>6
<1> QED
  BY <1>1, <1>2, <1>5, <1>6, <1>7, <1>8 DEF Fits

LEMMA AvgFits ==
    ASSUME NEW spec \in Specs, spec.kind = "AVG", NEW st \in States, NEW col,
           NEW t \in {TInt, TFloat}, NEW S, NEW n, Extends(col, t, S, n),
           Cardinality(S) + 1 < IntCutoff, Fits(spec, st, col, S), Ordinary(col[n])
    PROVE  Fits(spec, StepState(spec, st, col[n]), col, S \cup {n})
<1>0. TInt # TFloat
  BY DEF TInt, TFloat
<1>1. PICK new : new = StepState(spec, st, col[n])
  OBVIOUS
<1>2. /\ new.count = IntAdd(st.count, 1)
      /\ new.floatSum = FloatAdd(st.floatSum, AsFloat(col[n]))
      /\ col[n].type = t
  BY <1>1, AvgSteps DEF Extends
<1>3. /\ Abs(Total(col, S)) <= Magnitude(col, S)
      /\ st.count = Cardinality(Numbers(col, S))
      /\ Dense(col, S) => st.floatSum = Float64(Halves(col, S))
  BY DEF Fits
<1> DEFINE N == Numbers(col, S)
<1>4. /\ Numbers(col, S \cup {n}) = N \cup {n} /\ n \notin N /\ IsFiniteSet(N)
      /\ Cardinality(N) + 1 < IntCutoff /\ N \subseteq S
  <2>1. AddsNumber(col, S, n)
    BY NumberAdds
  <2>2. Cardinality(N) \in Nat /\ Cardinality(S) \in Nat /\ Cardinality(N) <= Cardinality(S)
    BY <2>1 DEF AddsNumber
  <2>3. Cardinality(N) + 1 < IntCutoff
    <3> HIDE DEF N
    <3> QED
      BY <2>2, FloatExactFacts
  <2> QED
    BY <2>1, <2>3 DEF AddsNumber
<1>5. new.count = Cardinality(Numbers(col, S \cup {n}))
  <2>1. IntAdd(Cardinality(N), 1) = Cardinality(N \cup {n})
    BY <1>4, CountStep
  <2> QED
    BY <1>2, <1>3, <1>4, <2>1
<1>6. /\ Total(col, S \cup {n}) \in Int /\ Magnitude(col, S \cup {n}) \in Int
      /\ Abs(Total(col, S \cup {n})) <= Magnitude(col, S \cup {n})
  BY <1>3, BoundStep
<1>7. ASSUME Dense(col, S \cup {n})
      PROVE  new.floatSum = Float64(Halves(col, S \cup {n}))
  <2>1. PICK a, v : a = Total(col, S) /\ v = col[n]
    OBVIOUS
  <2>2. /\ Dense(col, S) /\ a \in Int /\ v.x \in Int
        /\ Total(col, S \cup {n}) = a + v.x
        /\ 2 * a \in -FloatExact .. FloatExact /\ 2 * v.x \in -FloatExact .. FloatExact
        /\ 2 * (a + v.x) \in -FloatExact .. FloatExact
    BY <1>3, <1>7, <2>1, DenseBounds
  <2>3. v.type = t /\ ~IsNaN(v) /\ st.floatSum = Float64(Halves(col, S))
        /\ new.floatSum = FloatAdd(st.floatSum, AsFloat(v))
    BY <1>2, <1>3, <2>1, <2>2 DEF Ordinary
  <2>4. \A r \in N \cup {n} : col[r].type = t
    BY <1>4 DEF Extends
  <2>5. CASE t = TInt
    <3>1. AllInts(col, S) /\ AllInts(col, S \cup {n})
      BY <1>4, <2>4, <2>5 DEF AllInts
    <3>2. Halves(col, S) = 2 * a /\ Halves(col, S \cup {n}) = 2 * (a + v.x)
      BY <2>1, <2>2, <3>1 DEF Halves
    <3>3. PICK h, w : h = 2 * a /\ w = Float64(2 * v.x)
      OBVIOUS
    <3>4. 2 * v.x \in Floats
      BY <2>2, FloatsAssumption
    <3>5. AsFloat(v) = w
      BY <2>3, <2>5, <3>3, <3>4, RoundFloat DEF AsFloat, ToFloat
    <3>6. w.x = 2 * v.x /\ ~IsNaN(w)
      BY <3>3 DEF Float64, IsNaN
    <3>7. /\ h \in Int /\ w.x \in Int /\ h + w.x = 2 * (a + v.x)
          /\ h + w.x >= -FloatExact /\ h + w.x <= FloatExact
          /\ h >= -FloatExact /\ h <= FloatExact /\ w.x >= -FloatExact /\ w.x <= FloatExact
      BY <2>2, <3>3, <3>6, FloatExactFacts
    <3>8. FloatAdd(Float64(h), w) = Float64(h + w.x)
      BY <3>6, <3>7, FloatAddExact
    <3> QED
      BY <2>3, <3>2, <3>3, <3>5, <3>7, <3>8
  <2>6. CASE t = TFloat
    <3>1. ~AllInts(col, S \cup {n})
      <4>1. n \in N \cup {n} /\ col[n].type # TInt
        BY <1>0, <2>4, <2>6
      <4> QED
        BY <1>4, <4>1 DEF AllInts
    <3>2. Halves(col, S \cup {n}) = a + v.x
      BY <2>1, <2>2, <3>1 DEF Halves
    <3>3. Halves(col, S) = a
      <4>1. CASE N = {}
        <5>1. Total(col, S) = 0
          BY <1>4, <4>1, SumOfNone DEF Total
        <5> QED
          BY <2>1, <5>1 DEF Halves
      <4>2. CASE N # {}
        <5>1. ~AllInts(col, S)
          BY <1>0, <1>4, <2>4, <2>6, <4>2 DEF AllInts
        <5> QED
          BY <2>1, <5>1 DEF Halves
      <4> QED
        BY <4>1, <4>2
    <3>4. AsFloat(v) = v
      BY <1>0, <2>3, <2>6 DEF AsFloat
    <3>5. /\ a + v.x >= -FloatExact /\ a + v.x <= FloatExact
          /\ a >= -FloatExact /\ a <= FloatExact /\ v.x >= -FloatExact /\ v.x <= FloatExact
      BY <2>2, FloatExactFacts
    <3>6. FloatAdd(Float64(a), v) = Float64(a + v.x)
      BY <2>2, <2>3, <3>5, FloatAddExact
    <3> QED
      BY <2>3, <3>2, <3>3, <3>4, <3>6
  <2> QED
    BY <2>5, <2>6
<1> QED
  BY <1>1, <1>5, <1>6, <1>7 DEF Fits

\* Values of one type are ordered as the numbers that stand for them.
Below(kind, a, b) == IF kind = "MIN" THEN a < b ELSE a > b

LEMMA BeatsIsBelow ==
    ASSUME NEW kind \in {"MIN", "MAX"}, NEW a \in Values, NEW b \in Values,
           a.type = b.type, Ordinary(a), Ordinary(b)
    PROVE  /\ Beats(kind, a, b) <=> Below(kind, a.x, b.x)
           /\ Better(kind, a, b) <=> Below(kind, a.x, b.x)
           /\ a.x \in Int /\ b.x \in Int
<1>1. a.x \in Int /\ b.x \in Int
  BY OrdinaryShape
<1>2. Compare(a, b) = Known(Sign(a.x, b.x))
  <2>1. ~(a.type = TInt /\ b.type = TFloat) /\ ~(a.type = TFloat /\ b.type = TInt)
    BY DEF TInt, TFloat
  <2> QED
    BY <2>1 DEF Compare, Ordinary
<1>3. Sign(a.x, b.x) = IF a.x < b.x THEN -1 ELSE IF a.x > b.x THEN 1 ELSE 0
  BY DEF Sign
<1>4. Known(Sign(a.x, b.x)).known /\ Known(Sign(a.x, b.x)).ord = Sign(a.x, b.x)
  BY DEF Known
<1>5. Beats(kind, a, b) <=> Sign(a.x, b.x) = IF kind = "MIN" THEN -1 ELSE 1
  <2>1. \A i, j : Known(i) = Known(j) => i = j
    BY DEF Known
  <2> QED
    BY <1>2, <2>1 DEF Beats
<1>6. Better(kind, a, b) <=> IF kind = "MIN" THEN Sign(a.x, b.x) < 0 ELSE Sign(a.x, b.x) > 0
  BY <1>2, <1>4 DEF Better
<1> QED
  BY <1>1, <1>3, <1>5, <1>6 DEF Below

LEMMA ExtremeFits ==
    ASSUME NEW spec \in Specs, spec.kind \in {"MIN", "MAX"}, NEW st \in States, NEW col, NEW t,
           NEW S, NEW n, Extends(col, t, S, n), Fits(spec, st, col, S), Ordinary(col[n])
    PROVE  Fits(spec, StepState(spec, st, col[n]), col, S \cup {n})
<1> DEFINE N == Numbers(col, S)
           kind == spec.kind
<1>1. PICK new : new = StepState(spec, st, col[n])
  OBVIOUS
<1>2. new.seen /\ new.best = IF ~st.seen \/ Better(kind, col[n], st.best) THEN col[n] ELSE st.best
  BY <1>1, ExtremeSteps
<1>3. (st.seen <=> N # {}) /\ (st.seen => IsExtreme(kind, st.best, col, S))
  BY DEF Fits
<1>4. Numbers(col, S \cup {n}) = N \cup {n} /\ n \notin N /\ N \subseteq S
  <2>1. AddsNumber(col, S, n)
    BY NumberAdds
  <2> QED
    BY <2>1 DEF AddsNumber
<1>5. \A r \in N \cup {n} : col[r] \in Values /\ col[r].type = t /\ Ordinary(col[r])
  BY <1>4 DEF Extends, Numbers, NonNull, Ordinary
<1>6. /\ n \in Int /\ \A r \in N : r \in Int /\ r < n
      /\ \A q, r \in N \cup {n} :
            /\ Beats(kind, col[q], col[r]) <=> Below(kind, col[q].x, col[r].x)
            /\ Better(kind, col[q], col[r]) <=> Below(kind, col[q].x, col[r].x)
            /\ col[q].x \in Int
  <2>1. n \in Int /\ \A r \in N : r \in Int /\ r < n
    BY <1>4 DEF Extends
  <2>2. \A q, r \in N \cup {n} :
            /\ Beats(kind, col[q], col[r]) <=> Below(kind, col[q].x, col[r].x)
            /\ Better(kind, col[q], col[r]) <=> Below(kind, col[q].x, col[r].x)
            /\ col[q].x \in Int
    BY <1>5, BeatsIsBelow
  <2> QED
    BY <2>1, <2>2
<1> HIDE DEF N
<1>7. ASSUME N # {}
      PROVE  \E r \in N : /\ st.best = col[r]
                          /\ \A q \in N : /\ ~Below(kind, col[q].x, col[r].x)
                                          /\ q < r => Below(kind, col[r].x, col[q].x)
  <2>1. PICK r \in N : /\ st.best = col[r]
                       /\ \A q \in N : ~Beats(kind, col[q], st.best)
                                       /\ (q < r => Beats(kind, st.best, col[q]))
    BY <1>3, <1>7 DEF IsExtreme, N
  <2> QED
    BY <1>6, <2>1
<1>8. \E r \in N \cup {n} :
          /\ new.best = col[r]
          /\ \A q \in N \cup {n} : /\ ~Below(kind, col[q].x, col[r].x)
                                   /\ q < r => Below(kind, col[r].x, col[q].x)
  <2>1. CASE N = {}
    <3>1. new.best = col[n]
      BY <1>2, <1>3, <2>1
    <3>2. ~Below(kind, col[n].x, col[n].x) /\ ~(n < n)
      BY <1>6 DEF Below
    <3> QED
      BY <2>1, <3>1, <3>2
  <2>2. CASE N # {}
    <3>1. PICK r \in N : /\ st.best = col[r]
                         /\ \A q \in N : /\ ~Below(kind, col[q].x, col[r].x)
                                         /\ q < r => Below(kind, col[r].x, col[q].x)
      BY <1>7, <2>2
    <3>2. new.best = IF Below(kind, col[n].x, col[r].x) THEN col[n] ELSE col[r]
      BY <1>2, <1>3, <1>6, <2>2, <3>1
    <3>3. CASE Below(kind, col[n].x, col[r].x)
      <4>1. ASSUME NEW q \in N
            PROVE  ~Below(kind, col[q].x, col[n].x) /\ Below(kind, col[n].x, col[q].x)
        <5>1. PICK a, b, c : a = col[n].x /\ b = col[r].x /\ c = col[q].x
          OBVIOUS
        <5>2. a \in Int /\ b \in Int /\ c \in Int /\ ~Below(kind, c, b) /\ Below(kind, a, b)
          BY <1>6, <3>1, <3>3, <5>1
        <5> QED
          BY <5>1, <5>2 DEF Below
      <4>2. ~Below(kind, col[n].x, col[n].x) /\ ~(n < n)
        BY <1>6 DEF Below
      <4> QED
        BY <3>2, <3>3, <4>1, <4>2
    <3>4. CASE ~Below(kind, col[n].x, col[r].x)
      <4>1. r < n /\ ~(n < r)
        BY <1>6
      <4> QED
        BY <3>1, <3>2, <3>4, <4>1
    <3> QED
      BY <3>3, <3>4
  <2> QED
    BY <2>1, <2>2
<1>9. IsExtreme(kind, new.best, col, S \cup {n})
  BY <1>4, <1>6, <1>8 DEF IsExtreme
<1> QED
  BY <1>1, <1>2, <1>4, <1>9 DEF Fits

\* A group starts with no rows.
LEMMA ZeroFits ==
    ASSUME NEW spec \in Specs, NEW col
    PROVE  Fits(spec, ZeroState, col, {})
<1>1. NonNull(col, {}) = {} /\ Numbers(col, {}) = {}
  BY DEF NonNull, Numbers
<1>2. Cardinality({}) = 0
  BY FS_EmptySet
<1>3. Total(col, {}) = 0 /\ Magnitude(col, {}) = 0
  BY <1>1, SumOfNone DEF Total, Magnitude
<1>4. Halves(col, {}) = 0
  BY <1>3 DEF Halves
<1>5. Wraps(0, 0)
  BY IntCutoffAssumption DEF Wraps
<1>6. /\ ZeroState.count = 0 /\ ZeroState.intSum = 0 /\ ZeroState.floatSum = Float64(0)
      /\ ZeroState.seen = FALSE
  BY DEF ZeroState
<1>7. Abs(0) <= 0
  BY DEF Abs
<1> QED
  BY <1>1, <1>2, <1>3, <1>4, <1>5, <1>6, <1>7 DEF Fits

\* The column of an aggregate over the rows S and one more, as the planner lets it through.
ColumnStep(spec, col, t, S, n) ==
    /\ IsFiniteSet(S) /\ n \notin S /\ Cardinality(S) + 1 < IntCutoff
    /\ spec.kind # "COUNT" => Extends(col, t, S, n)
    /\ spec.kind \in {"SUM", "AVG"} => t \in {TInt, TFloat}
    /\ spec.kind = "SUM" => spec.outType = t

LEMMA FitsStep ==
    ASSUME NEW spec \in Specs, NEW st \in States, NEW col, NEW t, NEW S, NEW n,
           ColumnStep(spec, col, t, S, n), Fits(spec, st, col, S)
    PROVE  Fits(spec, StepState(spec, st, col[n]), col, S \cup {n})
<1>1. /\ IsFiniteSet(S) /\ n \notin S /\ Cardinality(S) + 1 < IntCutoff
      /\ spec.kind # "COUNT" => Extends(col, t, S, n)
      /\ spec.kind \in {"SUM", "AVG"} => t \in {TInt, TFloat}
      /\ spec.kind = "SUM" => spec.outType = t
  BY DEF ColumnStep
<1>2. CASE spec.kind = "COUNT"
  BY <1>1, <1>2, CountFits
<1>3. CASE spec.kind # "COUNT" /\ ~Ordinary(col[n])
  BY <1>1, <1>3, SkippedFits
<1>4. CASE spec.kind = "SUM" /\ Ordinary(col[n])
  BY <1>1, <1>4, SumFits
<1>5. CASE spec.kind = "AVG" /\ Ordinary(col[n])
  BY <1>1, <1>5, AvgFits
<1>6. CASE spec.kind \in {"MIN", "MAX"} /\ Ordinary(col[n])
  BY <1>1, <1>6, ExtremeFits
<1>7. spec.kind \in {"COUNT", "SUM", "AVG", "MIN", "MAX"}
  BY DEF Specs, AggregateKinds
<1> QED
  BY <1>2, <1>3, <1>4, <1>5, <1>6, <1>7

\* What a state that fits becomes is what the property asks for.
LEMMA FinalFits ==
    ASSUME NEW spec \in Specs, NEW st \in States, NEW col, NEW S, IsFiniteSet(S),
           Fits(spec, st, col, S), NEW t,
           spec.kind = "SUM" => /\ \A r \in Numbers(col, S) : col[r].type = t
                                /\ t \in {TInt, TFloat} /\ spec.outType = t
    PROVE  /\ CountMatches(spec, FinalizeAggregate(spec, st), col, S)
           /\ SumIsExact(spec, FinalizeAggregate(spec, st), col, S)
           /\ ExtremeMatches(spec, FinalizeAggregate(spec, st), col, S)
<1>0. TInt # TFloat
  BY DEF TInt, TFloat
<1> DEFINE N == Numbers(col, S)
<1>1. IsFiniteSet(N)
  <2>1. N \subseteq S
    BY DEF Numbers, NonNull
  <2> HIDE DEF N
  <2> QED
    BY <2>1, FS_Subset
<1>2. PICK v : v = FinalizeAggregate(spec, st)
  OBVIOUS
<1>3. CASE spec.kind = "COUNT"
  <2>1. v = Int64(st.count)
    BY <1>2, <1>3 DEF FinalizeAggregate
  <2>2. st.count = Cardinality(IF spec.star THEN S ELSE NonNull(col, S))
    BY <1>3 DEF Fits
  <2> QED
    BY <1>2, <1>3, <2>1, <2>2 DEF CountMatches, SumIsExact, ExtremeMatches
<1>4. CASE spec.kind = "AVG"
  <2>1. /\ st.count = Cardinality(N)
        /\ Dense(col, S) => st.floatSum = Float64(Halves(col, S))
    BY <1>4 DEF Fits
  <2>2. v = IF st.count = 0 THEN NullOf(TFloat) ELSE Quotient(st.floatSum, st.count)
    BY <1>2, <1>4 DEF FinalizeAggregate
  <2>3. st.count = 0 <=> N = {}
    <3> HIDE DEF N
    <3> QED
      BY <1>1, <2>1, FS_EmptySet
  <2>4. N # {} => v.cls = "quotient" /\ v.x[1] = st.floatSum /\ v.x[2] = st.count
    BY <2>2, <2>3 DEF Quotient
  <2>5. CountMatches(spec, v, col, S)
    BY <1>4, <2>1, <2>2, <2>3, <2>4 DEF CountMatches
  <2>6. SumIsExact(spec, v, col, S)
    BY <1>4, <2>1, <2>4 DEF SumIsExact
  <2>7. ExtremeMatches(spec, v, col, S)
    BY <1>4 DEF ExtremeMatches
  <2> QED
    BY <1>2, <2>5, <2>6, <2>7
<1>5. CASE spec.kind = "SUM"
  <2>1. /\ st.seen <=> N # {}
        /\ spec.outType = TInt => Wraps(st.intSum, Total(col, S))
        /\ spec.outType = TFloat /\ Dense(col, S) => st.floatSum = Float64(Total(col, S))
    BY <1>5 DEF Fits
  <2>2. v = IF ~st.seen THEN NullOf(spec.outType)
            ELSE IF spec.outType = TInt THEN Int64(st.intSum) ELSE st.floatSum
    BY <1>2, <1>5 DEF FinalizeAggregate
  <2>3. N # {} => (AllInts(col, S) <=> spec.outType = TInt)
    BY <1>0, <1>5 DEF AllInts
  <2>4. ASSUME spec.outType = TInt, Total(col, S) \in IntRange PROVE st.intSum = Total(col, S)
    <3>1. st.intSum \in IntRange
      BY DEF States
    <3> QED
      BY <2>1, <2>4, <3>1, WrapsInside
  <2>5. SumIsExact(spec, v, col, S)
    BY <1>0, <1>5, <2>1, <2>2, <2>3, <2>4 DEF SumIsExact
  <2>6. CountMatches(spec, v, col, S) /\ ExtremeMatches(spec, v, col, S)
    BY <1>5 DEF CountMatches, ExtremeMatches
  <2> QED
    BY <1>2, <2>5, <2>6
<1>6. CASE spec.kind \in {"MIN", "MAX"}
  <2>1. (st.seen <=> N # {}) /\ (st.seen => IsExtreme(spec.kind, st.best, col, S))
    BY <1>6 DEF Fits
  <2>2. v = IF ~st.seen THEN NullOf(spec.outType) ELSE st.best
    BY <1>2, <1>6 DEF FinalizeAggregate
  <2>3. ExtremeMatches(spec, v, col, S)
    BY <1>6, <2>1, <2>2 DEF ExtremeMatches
  <2>4. CountMatches(spec, v, col, S) /\ SumIsExact(spec, v, col, S)
    BY <1>6 DEF CountMatches, SumIsExact
  <2> QED
    BY <1>2, <2>3, <2>4
<1>7. spec.kind \in {"COUNT", "SUM", "AVG", "MIN", "MAX"}
  BY DEF Specs, AggregateKinds
<1> QED
  BY <1>3, <1>4, <1>5, <1>6, <1>7

-----------------------------------------------------------------------------
(* Every state fits the rows stepped into its group. *)

\* The columns of the query, as the planner typed them.
LEMMA ColumnFacts ==
    ASSUME StateTypes, NEW s \in DOMAIN specs
    PROVE  /\ Len(rows) \in Nat /\ Len(rows) < IntCutoff /\ DOMAIN Column(s) = 1 .. Len(rows)
           /\ \A r \in 1 .. Len(rows) : Column(s)[r] = rows[r].args[s]
                                        /\ Column(s)[r] \in Values \cup {NoValue}
           /\ specs[s] \in Specs
           /\ \E t \in {TInt, TFloat, TText, TBool} :
                 /\ \A r \in 1 .. Len(rows) : Column(s)[r] = NoValue \/ Column(s)[r].type = t
                 /\ specs[s].kind \in {"SUM", "AVG"} => t \in {TInt, TFloat}
                 /\ specs[s].kind = "SUM" => specs[s].outType = t
<1>1. PICK q \in Queries : grouped = q.grouped /\ specs = q.specs /\ rows = q.rows
  BY DEF StateTypes
<1>2. /\ Len(rows) \in Nat /\ DOMAIN rows = 1 .. Len(rows) /\ specs[s] \in Specs
      /\ \A r \in 1 .. Len(rows) : rows[r].args[s] \in Values \cup {NoValue}
  BY QueryFacts
<1>3. DOMAIN Column(s) = 1 .. Len(rows)
      /\ \A r \in 1 .. Len(rows) : Column(s)[r] = rows[r].args[s]
  BY <1>2 DEF Column
<1>4. Len(rows) < IntCutoff
  BY <1>1, QueriesAssumption
<1>5. PICK t \in {TInt, TFloat, TText, TBool} :
          WellTyped(specs[s], {rows[r].args[s] : r \in DOMAIN rows}, t)
  <2>1. \A k \in DOMAIN q.specs : \E t \in {TInt, TFloat, TText, TBool} :
            WellTyped(q.specs[k], {q.rows[r].args[k] : r \in DOMAIN q.rows}, t)
    BY QueriesAssumption
  <2> QED
    BY <1>1, <2>1
<1>6. /\ \A r \in 1 .. Len(rows) : Column(s)[r] = NoValue \/ Column(s)[r].type = t
      /\ specs[s].kind \in {"SUM", "AVG"} => t \in {TInt, TFloat}
      /\ specs[s].kind = "SUM" => specs[s].outType = t
  BY <1>2, <1>3, <1>5 DEF WellTyped
<1> QED
  BY <1>2, <1>3, <1>4, <1>6

\* Where no row failed, the arguments are values.
LEMMA ArgsAreValues ==
    ASSUME StateTypes, NEW s \in DOMAIN specs, specs[s].kind # "COUNT",
           NEW r \in 1 .. Len(rows), ~StepFails(rows[r])
    PROVE  Column(s)[r] \in Values
<1>1. Column(s)[r] = rows[r].args[s] /\ Column(s)[r] \in Values \cup {NoValue}
  BY ColumnFacts
<1>2. rows[r].args[s] # NoValue
  BY DEF StepFails, ArgFails
<1> QED
  BY <1>1, <1>2

LEMMA CountRows ==
    ASSUME NEW n \in Nat, NEW S, S \subseteq 1 .. n
    PROVE  IsFiniteSet(S) /\ Cardinality(S) \in Nat /\ Cardinality(S) <= n
<1>1. IsFiniteSet(1 .. n) /\ Cardinality(1 .. n) = n
  <2>1. 1 \in Int /\ n \in Int /\ 1 <= n + 1
    OBVIOUS
  <2>2. IsFiniteSet(1 .. n)
    BY <2>1, FS_Interval
  <2>3. Cardinality(1 .. n) = n
    <3>1. Cardinality(1 .. n) = IF 1 > n THEN 0 ELSE n - 1 + 1
      BY <2>1, FS_Interval
    <3> QED
      BY <3>1
  <2> QED
    BY <2>2, <2>3
<1> QED
  BY <1>1, FS_Subset, FS_CardinalityType

\* A state that fits rows read before still fits when the next row is stepped.
LEMMA NextRowFits ==
    ASSUME StateTypes, pos + 1 \in 1 .. Len(rows), pos \in Nat,
           \A r \in 1 .. pos + 1 : ~StepFails(rows[r]),
           NEW s \in DOMAIN specs, NEW st \in States,
           NEW S, S \subseteq 1 .. pos, Fits(specs[s], st, Column(s), S)
    PROVE  Fits(specs[s], StepState(specs[s], st, rows[pos + 1].args[s]), Column(s), S \cup {pos + 1})
<1> DEFINE col == Column(s)
           n == pos + 1
<1>1. /\ Len(rows) \in Nat /\ Len(rows) < IntCutoff /\ DOMAIN col = 1 .. Len(rows)
      /\ \A r \in 1 .. Len(rows) : col[r] = rows[r].args[s]
      /\ specs[s] \in Specs
  BY ColumnFacts
<1>2. PICK t \in {TInt, TFloat, TText, TBool} :
          /\ \A r \in 1 .. Len(rows) : col[r] = NoValue \/ col[r].type = t
          /\ specs[s].kind \in {"SUM", "AVG"} => t \in {TInt, TFloat}
          /\ specs[s].kind = "SUM" => specs[s].outType = t
  BY ColumnFacts
<1>3. IsFiniteSet(S) /\ Cardinality(S) \in Nat /\ Cardinality(S) <= pos
  BY CountRows
<1>4. n \notin S /\ Cardinality(S) + 1 < IntCutoff /\ 1 .. n \subseteq 1 .. Len(rows)
      /\ S \cup {n} \subseteq 1 .. n /\ n \in Int /\ \A r \in S : r \in Int /\ r < n
  BY <1>1, <1>3, FloatExactFacts
<1>5. ASSUME specs[s].kind # "COUNT" PROVE Extends(col, t, S, n)
  <2>1. ASSUME NEW r \in S \cup {n} PROVE r \in DOMAIN col /\ col[r] \in Values /\ col[r].type = t
    <3>1. r \in 1 .. n /\ r \in 1 .. Len(rows)
      BY <1>4
    <3>2. col[r] \in Values
      BY <1>5, <3>1, ArgsAreValues
    <3>3. NoValue \notin Values
      <4>1. \A v \in Values : v.type \in {TInt, TFloat, TText, TBool}
        BY DEF Values, IntValues, FloatValues, TextValues, BoolValues, NullValues, Int64,
               Float64, NaN, NegZero, Text, Bool, NullOf
      <4>2. NoValue.type \notin {TInt, TFloat, TText, TBool}
        BY DEF NoValue, TInt, TFloat, TText, TBool
      <4> QED
        BY <4>1, <4>2
    <3> QED
      BY <1>1, <1>2, <3>1, <3>2, <3>3
  <2> QED
    BY <1>2, <1>3, <1>4, <2>1 DEF Extends
<1>6. ColumnStep(specs[s], col, t, S, n)
  BY <1>2, <1>3, <1>4, <1>5 DEF ColumnStep
<1>7. Fits(specs[s], StepState(specs[s], st, col[n]), col, S \cup {n})
  <2>1. specs[s] \in Specs
    BY <1>1
  <2> HIDE DEF col, n
  <2> QED
    BY <1>6, <2>1, FitsStep DEF col
<1>8. col[n] = rows[pos + 1].args[s]
  BY <1>1
<1> QED
  BY <1>7, <1>8

\* The states of the groups after a row that does not fail.
LEMMA SteppedStates ==
    ASSUME StateTypes, NEW gs \in Seq(GroupRecords), NEW g \in 1 .. Len(gs),
           NEW r \in 1 .. Len(rows), ~StepFails(rows[r]), NEW s \in DOMAIN specs
    PROVE  /\ Stepped(gs, g, rows[r])[g].states[s]
                = StepState(specs[s], gs[g].states[s], rows[r].args[s])
           /\ gs[g].states[s] \in States
           /\ \A n \in 1 .. Len(gs) : n # g => Stepped(gs, g, rows[r])[n] = gs[n]
<1> DEFINE hs == [gs EXCEPT ![g].states = StepStates(@, rows[r])]
<1>1. /\ Len(gs) \in Nat /\ gs \in [1 .. Len(gs) -> GroupRecords]
      /\ \A n \in 1 .. Len(gs) : gs[n] \in GroupRecords
  BY SeqElements, SeqIsFunction
<1>2. gs[g] \in [values : Seq(Values), states : [DOMAIN specs -> States]]
  BY <1>1 DEF GroupRecords
<1>3. hs[g].states = StepStates(gs[g].states, rows[r])
  <2>1. hs[g] = [gs[g] EXCEPT !.states = StepStates(@, rows[r])]
    BY <1>1
  <2> QED
    BY <1>2, <2>1
<1>4. \A n \in 1 .. Len(gs) : n # g => hs[n] = gs[n]
  BY <1>1
<1>5. StepStates(gs[g].states, rows[r])[s] = StepState(specs[s], gs[g].states[s], rows[r].args[s])
  <2>1. Len(specs) \in Nat /\ DOMAIN specs = 1 .. Len(specs)
    BY QueryFacts, SeqElements
  <2>2. 1 .. s \subseteq DOMAIN specs
    BY <2>1
  <2>3. ~\E m \in 1 .. s : ArgFails(rows[r], m)
    BY <2>2 DEF StepFails
  <2> QED
    BY <2>3 DEF StepStates
<1>6. gs[g].states[s] \in States
  BY <1>2
<1> QED
  BY <1>3, <1>4, <1>5, <1>6 DEF Stepped

\* Over an unchanged query the columns are the same.
LEMMA ColumnsStay ==
    ASSUME UNCHANGED query
    PROVE  /\ \A s : Column(s)' = Column(s)
           /\ \A r : RowKey(r)' = RowKey(r)
           /\ specs' = specs /\ rows' = rows /\ grouped' = grouped
<1>1. specs' = specs /\ rows' = rows /\ grouped' = grouped
  BY DEF query
<1> QED
  BY <1>1 DEF Column, RowKey

\* Reading a row that does not fail.
LEMMA NoneFailed ==
    ASSUME UNCHANGED query, pos \in Nat, pos' = pos + 1, NoRowFailed, ~StepFails(rows[pos + 1])
    PROVE  NoRowFailed' /\ \A r \in 1 .. pos + 1 : ~StepFails(rows[r])
<1>1. specs' = specs /\ rows' = rows
  BY DEF query
<1>2. \A r \in 1 .. pos + 1 : r \in 1 .. pos \/ r = pos + 1
  OBVIOUS
<1>3. \A r \in 1 .. pos + 1 : ~StepFails(rows[r])
  BY <1>2 DEF NoRowFailed
<1> QED
  BY <1>1, <1>3 DEF NoRowFailed, StepFails, ArgFails

LEMMA InitFits == Init => StatesFit
<1> SUFFICES ASSUME Init PROVE StatesFit
  OBVIOUS
<1>1. pos = 0 /\ groups = <<>> /\ initialized = FALSE
  BY DEF Init
<1>2. DOMAIN groups = {} /\ 1 .. pos = {}
  BY <1>1
<1> QED
  BY <1>1, <1>2 DEF StatesFit, NoRowFailed

\* The build starts with at most one group, of no rows.
LEMMA CallBuildFits == IInv /\ StatesFit /\ CallBuild => StatesFit'
<1> SUFFICES ASSUME IInv, StatesFit, CallBuild PROVE StatesFit'
  OBVIOUS
<1>1. /\ UNCHANGED query /\ pos' = pos /\ failed' = failed
      /\ groups' = IF grouped THEN <<>> ELSE <<NewGroup(<<>>)>>
  BY DEF CallBuild
<1>2. pos = 0 /\ StateTypes /\ grouped \in BOOLEAN
  BY QueryFacts DEF CallBuild, IInv, Phases
<1>3. 1 .. pos' = {} /\ \A g : ClassOf(g)' = {}
  <2>1. 1 .. pos' = {}
    BY <1>1, <1>2
  <2> QED
    BY <2>1 DEF ClassOf
<1>4. /\ \A s : Column(s)' = Column(s)
      /\ specs' = specs /\ rows' = rows /\ grouped' = grouped
  BY <1>1, ColumnsStay
<1>5. CASE grouped
  <2>1. DOMAIN groups' = {}
    BY <1>1, <1>5
  <2> QED
    BY <1>3, <1>4, <1>5, <2>1 DEF StatesFit, NoRowFailed
<1>6. CASE ~grouped
  <2>1. groups' = <<NewGroup(<<>>)>>
    BY <1>1, <1>6
  <2>2. DOMAIN groups' = {1} /\ groups'[1] = NewGroup(<<>>)
    BY <2>1
  <2>3. /\ groups'[1].values = <<>>
        /\ \A s \in DOMAIN specs : groups'[1].states[s] = ZeroState
    BY <2>2 DEF NewGroup
  <2>4. \A s \in DOMAIN specs : Fits(specs[s], ZeroState, Column(s), {})
    <3> TAKE s \in DOMAIN specs
    <3>1. specs[s] \in Specs
      BY <1>2, QueryFacts
    <3> QED
      BY <3>1, ZeroFits
  <2>5. GroupFits(1)'
    BY <1>3, <1>4, <2>3, <2>4 DEF GroupFits
  <2> QED
    BY <1>3, <2>2, <2>3, <2>5 DEF StatesFit, NoRowFailed
<1> QED
  BY <1>5, <1>6

\* A row of a known group goes to that group's rows alone.
LEMMA StepKnownGroupFits == IInv /\ StatesFit /\ StepKnownGroup => StatesFit'
<1> SUFFICES ASSUME IInv, StatesFit, StepKnownGroup PROVE StatesFit'
  OBVIOUS
<1> DEFINE g == IF grouped THEN byKey[GroupKey(Row.group)] ELSE 1
<1>0. /\ ReadRow /\ ~KeyFails /\ UNCHANGED query /\ initialized' = initialized
      /\ groups' = Stepped(groups, g, Row)
      /\ failed' = StepFails(Row)
      /\ grouped => GroupKey(Row.group) \in DOMAIN byKey
  BY DEF StepKnownGroup, StepGroup
<1>1. /\ StateTypes /\ Phases /\ ~failed /\ initialized
      /\ pos \in Nat /\ pos' = pos + 1 /\ pos + 1 \in 1 .. Len(rows) /\ Len(rows) \in Nat
      /\ Row = rows[pos + 1]
  BY <1>0, ReadRowFacts
<1>2. Len(groups) \in Nat /\ DOMAIN groups = 1 .. Len(groups) /\ g \in 1 .. Len(groups)
      /\ groups \in Seq(GroupRecords)
  <2>1. Len(groups) \in Nat /\ DOMAIN groups = 1 .. Len(groups)
    BY <1>1, GroupFacts
  <2>2. grouped => g \in 1 .. Len(groups)
    BY <1>0, <1>1, <2>1 DEF StateTypes
  <2>3. ~grouped => g \in 1 .. Len(groups)
    BY <1>1, <2>1 DEF Phases
  <2> QED
    BY <1>1, <2>1, <2>2, <2>3 DEF StateTypes
<1>3. GroupKey(groups[g].values) = RowKey(pos + 1)
      /\ \A n \in 1 .. Len(groups) : n # g => GroupKey(groups[n].values) # RowKey(pos + 1)
  <2>1. CASE grouped
    <3>1. /\ \A k \in DOMAIN byKey : GroupKey(groups[byKey[k]].values) = k
          /\ \A n \in DOMAIN groups : \E r \in 1 .. pos : Creates(r, n) /\ byKey[RowKey(r)] = n
      BY <1>1, <2>1 DEF IInv, GroupsAreKeyed
    <3>2. RowKey(pos + 1) = GroupKey(Row.group) /\ RowKey(pos + 1) \in DOMAIN byKey
      BY <1>0, <1>1, <2>1 DEF RowKey
    <3>3. GroupKey(groups[g].values) = RowKey(pos + 1)
      BY <2>1, <3>1, <3>2
    <3>4. ASSUME NEW n \in 1 .. Len(groups), GroupKey(groups[n].values) = RowKey(pos + 1)
          PROVE  n = g
      <4>1. PICK r \in 1 .. pos : Creates(r, n) /\ byKey[RowKey(r)] = n
        BY <1>2, <3>1
      <4>2. RowKey(r) = RowKey(pos + 1)
        BY <3>4, <4>1 DEF Creates, RowKey
      <4> QED
        BY <2>1, <3>2, <4>1, <4>2
    <3> QED
      BY <3>3, <3>4
  <2>2. CASE ~grouped
    <3>1. g = 1 /\ Len(groups) = 1 /\ groups[1].values = <<>>
      BY <1>1, <2>2 DEF Phases, StatesFit
    <3>2. rows[pos + 1].group = <<>>
      BY <1>1, <2>2, QueryFacts
    <3> QED
      BY <3>1, <3>2 DEF RowKey
  <2> QED
    BY <2>1, <2>2
<1> HIDE DEF g
<1>4. /\ Len(groups') = Len(groups) /\ DOMAIN groups' = 1 .. Len(groups)
      /\ \A n \in 1 .. Len(groups) : groups'[n].values = groups[n].values
  <2>1. /\ groups' \in Seq(GroupRecords) /\ Len(groups') = Len(groups)
        /\ \A n \in 1 .. Len(groups) : groups'[n].values = groups[n].values
    BY <1>0, <1>1, <1>2, SteppedGroups
  <2> QED
    BY <2>1, SeqElements
<1>5. /\ \A s : Column(s)' = Column(s)
      /\ \A r : RowKey(r)' = RowKey(r)
      /\ specs' = specs /\ rows' = rows /\ grouped' = grouped
  BY <1>0, ColumnsStay
<1>6. initialized' /\ ~grouped' => groups'[1].values = <<>>
  <2>1. ASSUME ~grouped PROVE 1 \in 1 .. Len(groups)
    BY <1>1, <1>2, <2>1 DEF Phases
  <2>2. ASSUME ~grouped PROVE groups[1].values = <<>>
    BY <1>1, <2>2 DEF StatesFit
  <2> QED
    BY <1>4, <1>5, <2>1, <2>2
<1>7. ASSUME ~failed' PROVE NoRowFailed' /\ \A n \in DOMAIN groups' : GroupFits(n)'
  <2>1. NoRowFailed' /\ \A r \in 1 .. pos + 1 : ~StepFails(rows[r])
    <3>1. ~StepFails(rows[pos + 1]) /\ NoRowFailed
      BY <1>0, <1>1, <1>7 DEF StatesFit
    <3> QED
      BY <1>0, <1>1, <3>1, NoneFailed
  <2>2. \A n \in 1 .. Len(groups) :
            ClassOf(n)' = IF n = g THEN ClassOf(n) \cup {pos + 1} ELSE ClassOf(n)
    <3>1. 1 .. pos' = (1 .. pos) \cup {pos + 1}
      BY <1>1
    <3> QED
      BY <1>3, <1>4, <1>5, <3>1 DEF ClassOf
  <2>3. ASSUME NEW n \in 1 .. Len(groups), NEW s \in DOMAIN specs
        PROVE  Fits(specs[s], groups'[n].states[s], Column(s), ClassOf(n)')
    <3>1. Fits(specs[s], groups[n].states[s], Column(s), ClassOf(n))
      BY <1>1, <1>2 DEF StatesFit, GroupFits
    <3>2. /\ groups'[g].states[s] = StepState(specs[s], groups[g].states[s], rows[pos + 1].args[s])
          /\ groups[g].states[s] \in States
          /\ n # g => groups'[n] = groups[n]
      <4>1. ~StepFails(rows[pos + 1])
        BY <1>1, <2>1
      <4> QED
        BY <1>0, <1>1, <1>2, <4>1, SteppedStates
    <3>3. CASE n # g
      BY <2>2, <3>1, <3>2, <3>3
    <3>4. CASE n = g
      <4>1. PICK st, S : st = groups[g].states[s] /\ S = ClassOf(n)
        OBVIOUS
      <4>2. S \subseteq 1 .. pos /\ st \in States /\ Fits(specs[s], st, Column(s), S)
        BY <3>1, <3>2, <3>4, <4>1 DEF ClassOf
      <4>3. Fits(specs[s], StepState(specs[s], st, rows[pos + 1].args[s]), Column(s), S \cup {pos + 1})
        BY <1>1, <2>1, <4>2, NextRowFits
      <4> QED
        BY <2>2, <3>2, <3>4, <4>1, <4>3
    <3> QED
      BY <3>3, <3>4
  <2>4. ASSUME NEW n \in 1 .. Len(groups) PROVE GroupFits(n)'
    BY <1>5, <2>3 DEF GroupFits
  <2> QED
    BY <1>4, <2>1, <2>4
<1> QED
  BY <1>6, <1>7 DEF StatesFit

\* The first row of a group is all there is of it, and no other group's.
LEMMA StepNewGroupFits == IInv /\ StatesFit /\ StepNewGroup => StatesFit'
<1> SUFFICES ASSUME IInv, StatesFit, StepNewGroup PROVE StatesFit'
  OBVIOUS
<1> DEFINE key == GroupKey(Row.group)
           len == Len(groups)
           gs  == Append(groups, NewGroup(Row.group))
<1>0. /\ ReadRow /\ ~KeyFails /\ UNCHANGED query
      /\ groups' = Stepped(gs, len + 1, Row)
      /\ failed' = StepFails(Row)
      /\ grouped /\ key \notin DOMAIN byKey
  BY DEF StepNewGroup, StepGroup
<1>1. /\ StateTypes /\ ~failed /\ initialized
      /\ pos \in Nat /\ pos' = pos + 1 /\ pos + 1 \in 1 .. Len(rows) /\ Len(rows) \in Nat
      /\ Row = rows[pos + 1] /\ Row.group \in Seq(Values)
  BY <1>0, ReadRowFacts
<1>2. len \in Nat /\ DOMAIN groups = 1 .. len
  BY <1>1, GroupFacts
<1>3. /\ gs \in Seq(GroupRecords) /\ Len(gs) = len + 1
      /\ \A n \in 1 .. len : gs[n] = groups[n]
      /\ gs[len + 1] = NewGroup(Row.group) /\ NewGroup(Row.group).values = Row.group
  <2>1. groups \in Seq(GroupRecords)
    BY <1>1 DEF StateTypes
  <2>2. NewGroup(Row.group) \in GroupRecords /\ NewGroup(Row.group).values = Row.group
    BY <1>1, NewGroupTyped
  <2> QED
    BY <2>1, <2>2, AppendFacts
<1>4. \A s \in DOMAIN specs : gs[len + 1].states[s] = ZeroState
  BY <1>3 DEF NewGroup
<1>5. RowKey(pos + 1) = key
      /\ (\A r \in 1 .. pos : RowKey(r) # key)
      /\ (\A n \in 1 .. len : GroupKey(groups[n].values) # key)
  <2>1. /\ \A r \in 1 .. pos : RowKey(r) \in DOMAIN byKey
        /\ \A n \in DOMAIN groups : \E r \in 1 .. pos : Creates(r, n)
    BY <1>0, <1>1 DEF IInv, GroupsAreKeyed
  <2>2. RowKey(pos + 1) = key
    BY <1>1 DEF RowKey
  <2>3. \A r \in 1 .. pos : RowKey(r) # key
    BY <1>0, <2>1
  <2>4. \A n \in 1 .. len : GroupKey(groups[n].values) # key
    <3> TAKE n \in 1 .. len
    <3>1. PICK r \in 1 .. pos : Creates(r, n)
      BY <1>2, <2>1
    <3>2. GroupKey(groups[n].values) = RowKey(r)
      BY <3>1 DEF Creates, RowKey
    <3> QED
      BY <2>3, <3>2
  <2> QED
    BY <2>2, <2>3, <2>4
<1> HIDE DEF gs, len
<1>6. /\ DOMAIN groups' = 1 .. len + 1
      /\ \A n \in 1 .. len : groups'[n].values = groups[n].values
      /\ groups'[len + 1].values = Row.group
  <2>1. len + 1 \in 1 .. Len(gs)
    BY <1>2, <1>3
  <2>2. /\ groups' \in Seq(GroupRecords) /\ Len(groups') = Len(gs)
        /\ \A n \in 1 .. Len(gs) : groups'[n].values = gs[n].values
    BY <1>0, <1>1, <1>3, <2>1, SteppedGroups
  <2>3. DOMAIN groups' = 1 .. Len(gs)
    BY <2>2, SeqElements
  <2> QED
    BY <1>2, <1>3, <2>1, <2>2, <2>3
<1>7. /\ \A s : Column(s)' = Column(s)
      /\ \A r : RowKey(r)' = RowKey(r)
      /\ specs' = specs /\ rows' = rows /\ grouped' = grouped
  BY <1>0, ColumnsStay
<1>8. PICK new : new = len + 1
  OBVIOUS
<1>9. ASSUME ~failed' PROVE NoRowFailed' /\ \A n \in DOMAIN groups' : GroupFits(n)'
  <2>1. NoRowFailed' /\ \A r \in 1 .. pos + 1 : ~StepFails(rows[r])
    <3>1. ~StepFails(rows[pos + 1]) /\ NoRowFailed
      BY <1>0, <1>1, <1>9 DEF StatesFit
    <3> QED
      BY <1>0, <1>1, <3>1, NoneFailed
  <2>2. /\ \A n \in 1 .. len : ClassOf(n)' = ClassOf(n)
        /\ ClassOf(new)' = {pos + 1}
    <3>1. 1 .. pos' = (1 .. pos) \cup {pos + 1}
      BY <1>1
    <3>2. GroupKey(groups'[new].values) = key
      BY <1>6, <1>8
    <3> HIDE DEF key
    <3>3. \A n \in 1 .. len : ClassOf(n)' = ClassOf(n)
      BY <1>5, <1>6, <1>7, <3>1 DEF ClassOf
    <3>4. ClassOf(new)' = {pos + 1}
      BY <1>5, <1>7, <3>1, <3>2 DEF ClassOf
    <3> QED
      BY <3>3, <3>4
  <2>3. ASSUME NEW s \in DOMAIN specs
        PROVE  /\ groups'[new].states[s]
                    = StepState(specs[s], ZeroState, rows[pos + 1].args[s])
               /\ \A n \in 1 .. len : groups'[n] = groups[n]
    <3>1. len + 1 \in 1 .. Len(gs) /\ ~StepFails(rows[pos + 1])
      BY <1>1, <1>2, <1>3, <2>1
    <3>2. /\ groups'[new].states[s]
               = StepState(specs[s], gs[len + 1].states[s], rows[pos + 1].args[s])
          /\ \A n \in 1 .. Len(gs) : n # len + 1 => groups'[n] = gs[n]
      BY <1>0, <1>1, <1>3, <1>8, <3>1, SteppedStates
    <3>3. \A n \in 1 .. len : n \in 1 .. Len(gs) /\ n # len + 1
      BY <1>2, <1>3
    <3> QED
      BY <1>3, <1>4, <1>8, <3>2, <3>3
  <2>4. ASSUME NEW n \in 1 .. len PROVE GroupFits(n)'
    <3>1. GroupFits(n)
      BY <1>1, <1>2 DEF StatesFit
    <3>2. ASSUME NEW s \in DOMAIN specs
          PROVE  Fits(specs[s], groups'[n].states[s], Column(s), ClassOf(n)')
      BY <2>2, <2>3, <3>1 DEF GroupFits
    <3> QED
      BY <1>7, <3>2 DEF GroupFits
  <2>5. GroupFits(new)'
    <3>1. ASSUME NEW s \in DOMAIN specs
          PROVE  Fits(specs[s], groups'[new].states[s], Column(s), ClassOf(new)')
      <4>1. specs[s] \in Specs /\ ZeroState \in States /\ {} \subseteq 1 .. pos
        BY <1>1, QueryFacts, ZeroStateTyped
      <4>2. Fits(specs[s], ZeroState, Column(s), {})
        BY <4>1, ZeroFits
      <4>3. Fits(specs[s], StepState(specs[s], ZeroState, rows[pos + 1].args[s]), Column(s),
                 {} \cup {pos + 1})
        BY <1>1, <2>1, <4>1, <4>2, NextRowFits
      <4>4. {} \cup {pos + 1} = {pos + 1}
        OBVIOUS
      <4> QED
        BY <2>2, <2>3, <4>3, <4>4
    <3> QED
      BY <1>7, <3>1 DEF GroupFits
  <2>6. \A n \in DOMAIN groups' : n \in 1 .. len \/ n = new
    BY <1>2, <1>6, <1>8
  <2> QED
    BY <2>1, <2>4, <2>5, <2>6
<1>10. grouped'
  BY <1>0, <1>7
<1> QED
  BY <1>9, <1>10 DEF StatesFit

\* Where nothing of the build changes, the states still fit.
LEMMA FitsStay ==
    ASSUME UNCHANGED query, pos' = pos, groups' = groups, failed' = failed,
           initialized' = initialized, StatesFit
    PROVE  StatesFit'
<1>1. /\ \A s : Column(s)' = Column(s)
      /\ \A r : RowKey(r)' = RowKey(r)
      /\ specs' = specs /\ rows' = rows /\ grouped' = grouped
  BY ColumnsStay
<1>2. \A g : ClassOf(g)' = ClassOf(g)
  BY <1>1 DEF ClassOf
<1>3. \A g : GroupFits(g) => GroupFits(g)'
  BY <1>1, <1>2 DEF GroupFits
<1>4. NoRowFailed => NoRowFailed'
  BY <1>1 DEF NoRowFailed, StepFails, ArgFails
<1> QED
  BY <1>1, <1>3, <1>4 DEF StatesFit

LEMMA NextFits == IInv /\ StatesFit /\ [Next]_vars => StatesFit'
<1> SUFFICES ASSUME IInv, StatesFit, [Next]_vars PROVE StatesFit'
  OBVIOUS
<1>1. CASE CallBuild
  BY <1>1, CallBuildFits
<1>2. CASE StepKnownGroup
  BY <1>2, StepKnownGroupFits
<1>3. CASE StepNewGroup
  BY <1>3, StepNewGroupFits
<1>4. CASE FailKey
  <2>1. failed' = TRUE /\ groups' = groups /\ initialized' = initialized /\ grouped' = grouped
    BY <1>4 DEF FailKey, query
  <2> QED
    BY <2>1 DEF StatesFit
<1>5. CASE CallNext \/ BuildEnd \/ Emit \/ EmitEnd \/ UNCHANGED vars
  <2>1. /\ UNCHANGED query /\ pos' = pos /\ groups' = groups /\ failed' = failed
        /\ initialized' = initialized
    BY <1>5 DEF CallNext, BuildEnd, Emit, EmitEnd, vars, query
  <2> QED
    BY <2>1, FitsStay
<1> QED
  BY <1>1, <1>2, <1>3, <1>4, <1>5 DEF Next, Build

(* Every aggregate state is the one its group's rows define, in every state. *)
THEOREM StatesFitTheirRows == Spec => [](IInv /\ StatesFit)
<1>1. Init => IInv /\ StatesFit
  BY InitIInv, InitFits
<1>2. (IInv /\ StatesFit) /\ [Next]_vars => (IInv /\ StatesFit)'
  BY NextIInv, NextFits
<1> QED
  BY <1>1, <1>2, PTL DEF Spec

LEMMA InvariantResults == IInv /\ StatesFit => ResultsMatch
<1> SUFFICES ASSUME IInv, StatesFit, NEW n \in DOMAIN out, NEW s \in DOMAIN specs
             PROVE  LET v == out[n].results[s]
                        S == Members(out[n].values)
                    IN  /\ CountMatches(specs[s], v, Column(s), S)
                        /\ SumIsExact(specs[s], v, Column(s), S)
                        /\ ExtremeMatches(specs[s], v, Column(s), S)
  BY DEF ResultsMatch
<1>1. StateTypes /\ Phases
  BY DEF IInv
<1>2. /\ n \in 1 .. index /\ n \in 1 .. Len(groups) /\ DOMAIN groups = 1 .. Len(groups)
      /\ out[n] = Answer(groups[n]) /\ index \in Nat /\ Len(groups) \in Nat
      /\ groups[n].states \in [DOMAIN specs -> States]
  <2>1. /\ n \in 1 .. index /\ index \in 0 .. Len(groups) /\ Len(groups) \in Nat
        /\ DOMAIN groups = 1 .. Len(groups) /\ out[n] = Answer(groups[n])
        /\ \A g \in 1 .. Len(groups) : groups[g].states \in [DOMAIN specs -> States]
    BY <1>1, GroupFacts DEF StateTypes
  <2> QED
    BY <2>1
<1>3. ~failed /\ initialized
  <2>1. index # 0
    BY <1>2
  <2>2. groups # <<>>
    BY <1>2
  <2> QED
    BY <1>1, <2>1, <2>2 DEF Phases, StateTypes
<1>4. PICK st : st = groups[n].states[s] /\ st \in States
  BY <1>2
<1>5. out[n].values = groups[n].values /\ out[n].results[s] = FinalizeAggregate(specs[s], st)
  BY <1>2, <1>4 DEF Answer
<1>6. Members(groups[n].values) = ClassOf(n)
  <2>1. CASE grouped
    BY <1>2, <1>3, <2>1, MembersByKey DEF ClassOf
  <2>2. CASE ~grouped
    <3>1. n = 1 /\ groups[n].values = <<>>
      BY <1>1, <1>2, <1>3, <2>2 DEF Phases, StatesFit
    <3>2. \A r \in 1 .. pos : rows[r].group = <<>>
      <4>1. pos \in 0 .. Len(rows) /\ Len(rows) \in Nat
        BY <1>1, QueryFacts DEF StateTypes
      <4>2. 1 .. pos \subseteq 1 .. Len(rows)
        BY <4>1
      <4> QED
        BY <1>1, <2>2, <4>2, QueryFacts
    <3>3. Members(groups[n].values) = 1 .. pos
      BY <3>1, <3>2 DEF Members, SameTuple
    <3>4. ClassOf(n) = 1 .. pos
      BY <3>1, <3>2 DEF ClassOf, RowKey
    <3> QED
      BY <3>3, <3>4
  <2> QED
    BY <1>1, <2>1, <2>2, QueryFacts
<1>7. PICK S : S = ClassOf(n)
  OBVIOUS
<1>8. IsFiniteSet(S) /\ S \subseteq 1 .. pos /\ 1 .. pos \subseteq 1 .. Len(rows)
  <2>1. pos \in Nat /\ pos \in 0 .. Len(rows) /\ Len(rows) \in Nat
    BY <1>1, QueryFacts DEF StateTypes
  <2>2. S \subseteq 1 .. pos
    BY <1>7 DEF ClassOf
  <2>3. IsFiniteSet(S)
    BY <2>1, <2>2, CountRows
  <2> QED
    BY <2>1, <2>2, <2>3
<1>9. Fits(specs[s], st, Column(s), S)
  BY <1>2, <1>3, <1>4, <1>7 DEF StatesFit, GroupFits
<1>10. PICK t : specs[s].kind = "SUM" =>
                  /\ \A r \in Numbers(Column(s), S) : Column(s)[r].type = t
                  /\ t \in {TInt, TFloat} /\ specs[s].outType = t
  <2>1. PICK t \in {TInt, TFloat, TText, TBool} :
            /\ \A r \in 1 .. Len(rows) : Column(s)[r] = NoValue \/ Column(s)[r].type = t
            /\ specs[s].kind \in {"SUM", "AVG"} => t \in {TInt, TFloat}
            /\ specs[s].kind = "SUM" => specs[s].outType = t
    BY <1>1, ColumnFacts
  <2>2. ASSUME specs[s].kind = "SUM", NEW r \in Numbers(Column(s), S)
        PROVE  Column(s)[r].type = t
    <3>1. r \in 1 .. Len(rows) /\ r \in 1 .. pos
      BY <1>8 DEF Numbers, NonNull
    <3>2. Column(s)[r] # NoValue
      <4>1. ~StepFails(rows[r])
        BY <1>3, <3>1 DEF StatesFit, NoRowFailed
      <4>2. Column(s)[r] = rows[r].args[s]
        BY <1>1, <3>1, ColumnFacts
      <4> QED
        BY <2>2, <4>1, <4>2 DEF StepFails, ArgFails
    <3> QED
      BY <2>1, <3>1, <3>2
  <2> QED
    BY <2>1, <2>2
<1>11. specs[s] \in Specs
  BY <1>1, QueryFacts
<1>12. /\ CountMatches(specs[s], FinalizeAggregate(specs[s], st), Column(s), S)
       /\ SumIsExact(specs[s], FinalizeAggregate(specs[s], st), Column(s), S)
       /\ ExtremeMatches(specs[s], FinalizeAggregate(specs[s], st), Column(s), S)
  BY <1>4, <1>8, <1>9, <1>10, <1>11, FinalFits
<1> QED
  BY <1>5, <1>6, <1>7, <1>12

(* Every result the operator returns is the one its group's rows define: counts,
   sums that are exact while they can be, averages over the same numbers, and
   the first of the least or greatest arguments. *)
THEOREM ResultsAreDefined == Spec => []ResultsMatch
BY StatesFitTheirRows, InvariantResults, PTL
=============================================================================
