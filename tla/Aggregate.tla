----------------------------- MODULE Aggregate -----------------------------
(***************************************************************************)
(* exec.Aggregate (internal/exec/aggregate.go): the first call of Next     *)
(* drains the child, assigning each row to its group and stepping every    *)
(* aggregate of that group; every call then finalizes one group.  An       *)
(* evaluation error stops the build and makes every call report            *)
(* exhaustion.                                                             *)
(*                                                                         *)
(* A child row is the tuple of its grouping values with the tuple of the   *)
(* aggregates' argument values.                                            *)
(***************************************************************************)
EXTENDS Values

CONSTANT Queries    \* [grouped, specs, rows]: a query and its child's rows

\* The (zero value, error) result of Eval.
NoValue == [type |-> "ERROR", cls |-> "error", x |-> 0]

AggregateKinds == {"COUNT", "SUM", "AVG", "MIN", "MAX"}

Specs == [kind : AggregateKinds, star : BOOLEAN, outType : {TInt, TFloat, TText, TBool}]

\* What the planner lets through: arguments of one type, the result's unless
\* the aggregate is COUNT or AVG, and numbers under SUM and AVG.
WellTyped(spec, args, t) ==
    /\ \A v \in args : v = NoValue \/ v.type = t
    /\ spec.kind \in {"SUM", "AVG"} => t \in {TInt, TFloat}
    /\ spec.kind \in {"SUM", "MIN", "MAX"} => spec.outType = t

\* The rows are in memory, so their number is far from int64's end.
ASSUME QueriesAssumption ==
    \A q \in Queries :
        /\ Len(q.rows) < IntCutoff
        /\ \A s \in DOMAIN q.specs : \E t \in {TInt, TFloat, TText, TBool} :
              WellTyped(q.specs[s], {q.rows[r].args[s] : r \in DOMAIN q.rows}, t)
        /\ q.grouped \in BOOLEAN /\ q.specs \in Seq(Specs)
        /\ q.rows \in Seq([group : Seq(Values \cup {NoValue}),
                          args : [DOMAIN q.specs -> Values \cup {NoValue}]])
        /\ \A r \in DOMAIN q.rows : q.grouped <=> q.rows[r].group # <<>>
        /\ \A r, m \in DOMAIN q.rows : Len(q.rows[r].group) = Len(q.rows[m].group)

VARIABLES
    grouped, specs, rows,   \* the query: has GROUP BY; aggregates; child rows
    pos,                    \* child rows read
    groups, byKey,          \* groups in creation order; group key to its index
    initialized, failed,
    index,                  \* groups handed out
    frame,                  \* where the call of Next is
    out, done               \* rows returned so far; Next has returned false

vars == <<grouped, specs, rows, pos, groups, byKey, initialized, failed, index,
          frame, out, done>>

query == <<grouped, specs, rows>>

-----------------------------------------------------------------------------
(* The state of one aggregate of one group. *)

ZeroState == [count |-> 0, intSum |-> 0, floatSum |-> Float64(0),
              seen |-> FALSE, best |-> Int64(0)]

AsFloat(v) == IF v.type = TInt THEN Float64(ToFloat(v.x)) ELSE v

Counted(st) == [st EXCEPT !.count = IntAdd(@, 1)]

\* MIN and MAX keep the first of equal values.
Better(kind, v, best) ==
    LET c == Compare(v, best)
    IN  c.known /\ IF kind = "MIN" THEN c.ord < 0 ELSE c.ord > 0

\* Mutant: COUNT counts NULL arguments, the others are not aggregated.
StepStateCountsNull(spec, st, v) == IF spec.kind = "COUNT" THEN Counted(st) ELSE st

\* step, for one aggregate and an argument that evaluated to v.
StepState(spec, st, v) ==
    CASE spec.kind = "COUNT" /\ (spec.star \/ ~IsNull(v)) -> Counted(st)
      [] spec.kind # "COUNT" /\ ~IsNull(v) /\ ~IsNaN(v) ->
           (CASE spec.kind = "SUM" /\ v.type = TInt ->
                   [st EXCEPT !.seen = TRUE, !.intSum = IntAdd(@, v.x)]
              [] spec.kind = "SUM" /\ v.type # TInt ->
                   [st EXCEPT !.seen = TRUE, !.floatSum = FloatAdd(@, v)]
              [] spec.kind = "AVG" ->
                   [Counted(st) EXCEPT !.floatSum = FloatAdd(@, AsFloat(v))]
              [] OTHER ->
                   IF ~st.seen \/ Better(spec.kind, v, st.best)
                   THEN [st EXCEPT !.seen = TRUE, !.best = v] ELSE st)
      [] OTHER -> st

\* The argument of COUNT(*) is not evaluated.
ArgFails(row, s) == ~(specs[s].kind = "COUNT" /\ specs[s].star) /\ row.args[s] = NoValue
StepFails(row)   == \E s \in DOMAIN specs : ArgFails(row, s)

\* step: the aggregates in order, up to the first that fails.
StepStates(states, row) ==
    [s \in DOMAIN specs |-> IF \E m \in 1 .. s : ArgFails(row, m) THEN states[s]
                            ELSE StepState(specs[s], states[s], row.args[s])]

\* The float division of AVG is kept unevaluated, as a sum and its divisor.
Quotient(sum, n) == [type |-> TFloat, cls |-> "quotient", x |-> <<sum, n>>]

FinalizeAggregate(spec, st) ==
    CASE spec.kind = "COUNT" -> Int64(st.count)
      [] spec.kind = "AVG" -> IF st.count = 0 THEN NullOf(TFloat)
                              ELSE Quotient(st.floatSum, st.count)
      [] spec.kind \notin {"COUNT", "AVG"} /\ ~st.seen -> NullOf(spec.outType)
      [] spec.kind = "SUM" /\ st.seen -> IF spec.outType = TInt THEN Int64(st.intSum)
                                         ELSE st.floatSum
      [] spec.kind \in {"MIN", "MAX"} /\ st.seen -> st.best

\* The output row of a group.
Answer(g) == [values |-> g.values,
              results |-> [s \in DOMAIN specs |-> FinalizeAggregate(specs[s], g.states[s])]]

NewGroup(values) == [values |-> values, states |-> [s \in DOMAIN specs |-> ZeroState]]

-----------------------------------------------------------------------------
Init == /\ \E q \in Queries : grouped = q.grouped /\ specs = q.specs /\ rows = q.rows
        /\ pos = 0
        /\ groups = <<>> /\ byKey = <<>>
        /\ initialized = FALSE /\ failed = FALSE
        /\ index = 0
        /\ frame = "idle"
        /\ out = <<>> /\ done = FALSE

(* The first call starts build; without GROUP BY there is one group. *)
CallBuild ==
    /\ frame = "idle" /\ ~initialized
    /\ initialized' = TRUE
    /\ groups' = IF grouped THEN <<>> ELSE <<NewGroup(<<>>)>>
    /\ frame' = "building"
    /\ UNCHANGED <<query, pos, byKey, failed, index, out, done>>

CallNext ==
    /\ frame = "idle" /\ initialized
    /\ frame' = "emitting"
    /\ UNCHANGED <<query, pos, groups, byKey, initialized, failed, index, out, done>>

Row == rows[pos + 1]

ReadRow == frame = "building" /\ pos < Len(rows) /\ pos' = pos + 1

KeyFails == \E n \in DOMAIN Row.group : Row.group[n] = NoValue

Stepped(gs, g, row) == [gs EXCEPT ![g].states = StepStates(@, row)]

(* step on the row's group: an error in it fails the build. *)
StepGroup(gs, g) ==
    /\ groups' = Stepped(gs, g, Row)
    /\ failed' = StepFails(Row)
    /\ frame' = IF StepFails(Row) THEN "emitting" ELSE frame
    /\ UNCHANGED <<query, initialized, index, out, done>>

(* The row belongs to a group there is: always so without GROUP BY. *)
StepKnownGroup ==
    /\ ReadRow /\ ~KeyFails
    /\ ~grouped \/ GroupKey(Row.group) \in DOMAIN byKey
    /\ StepGroup(groups, IF grouped THEN byKey[GroupKey(Row.group)] ELSE 1)
    /\ UNCHANGED byKey

\* Mutant: the new group is not entered under its key.
StepNewGroupUnkeyed ==
    /\ ReadRow /\ ~KeyFails
    /\ grouped /\ GroupKey(Row.group) \notin DOMAIN byKey
    /\ StepGroup(Append(groups, NewGroup(Row.group)), Len(groups) + 1)
    /\ UNCHANGED byKey

(* The row is the first of its group. *)
StepNewGroup ==
    /\ ReadRow /\ ~KeyFails
    /\ grouped /\ GroupKey(Row.group) \notin DOMAIN byKey
    /\ byKey' = [k \in DOMAIN byKey \cup {GroupKey(Row.group)} |->
                    IF k \in DOMAIN byKey THEN byKey[k] ELSE Len(groups) + 1]
    /\ StepGroup(Append(groups, NewGroup(Row.group)), Len(groups) + 1)

\* Mutant: the build goes on after the failure.
FailKeyContinues ==
    /\ ReadRow /\ KeyFails
    /\ failed' = TRUE
    /\ UNCHANGED <<query, groups, byKey, initialized, index, frame, out, done>>

(* A grouping expression fails on the row. *)
FailKey ==
    /\ ReadRow /\ KeyFails
    /\ failed' = TRUE
    /\ frame' = "emitting"
    /\ UNCHANGED <<query, groups, byKey, initialized, index, out, done>>

BuildEnd ==
    /\ frame = "building" /\ pos = Len(rows)
    /\ frame' = "emitting"
    /\ UNCHANGED <<query, pos, groups, byKey, initialized, failed, index, out, done>>

\* Mutant: a failed build is not noticed.
EmitDespiteFailure ==
    /\ frame = "emitting" /\ index < Len(groups)
    /\ out' = Append(out, Answer(groups[index + 1]))
    /\ index' = index + 1
    /\ frame' = "idle"
    /\ UNCHANGED <<query, pos, groups, byKey, initialized, failed, done>>

(* Next after the build: finalize a group, or report exhaustion. *)
Emit ==
    /\ frame = "emitting" /\ ~failed /\ index < Len(groups)
    /\ out' = Append(out, Answer(groups[index + 1]))
    /\ index' = index + 1
    /\ frame' = "idle"
    /\ UNCHANGED <<query, pos, groups, byKey, initialized, failed, done>>

EmitEnd ==
    /\ frame = "emitting" /\ (failed \/ index >= Len(groups))
    /\ done' = TRUE
    /\ frame' = "idle"
    /\ UNCHANGED <<query, pos, groups, byKey, initialized, failed, index, out>>

Build == StepKnownGroup \/ StepNewGroup \/ FailKey \/ BuildEnd
Next  == CallBuild \/ CallNext \/ Build \/ Emit \/ EmitEnd

(* The consumer drains the operator. *)
Spec == Init /\ [][Next]_vars /\ WF_vars(Next)

-----------------------------------------------------------------------------
(* Properties *)

TypeOK ==
    /\ pos \in 0 .. Len(rows)
    /\ \A g \in DOMAIN groups :
          /\ groups[g].values \in Seq(Values)
          /\ \A s \in DOMAIN specs :
                LET st == groups[g].states[s]
                IN  /\ st.count \in IntRange /\ st.intSum \in IntRange
                    /\ st.floatSum \in FloatValues
                    /\ st.seen \in BOOLEAN /\ st.best \in Values
    /\ \A k \in DOMAIN byKey : byKey[k] \in DOMAIN groups
    /\ initialized \in BOOLEAN /\ failed \in BOOLEAN /\ done \in BOOLEAN
    /\ index \in 0 .. Len(groups) /\ Len(out) = index
    /\ frame \in {"idle", "building", "emitting"}

SameTuple(t, u) == \A n \in DOMAIN t : SameGroup(t[n], u[n])

\* The rows read so far that belong with the grouping tuple t.
Members(t) == {r \in 1 .. pos : SameTuple(rows[r].group, t)}

(* GROUP BY splits the rows by equality of their grouping values: no two
   groups hold the same tuple, every row read is in one of them, and groups
   stand in the order of their first rows, whose values they show. *)
GroupsAreClasses ==
    grouped /\ ~failed =>
        /\ \A r \in 1 .. pos : \E g \in DOMAIN groups :
              r \in Members(groups[g].values)
        /\ \A g, h \in DOMAIN groups :
              g < h => /\ ~SameTuple(groups[g].values, groups[h].values)
                       /\ Min(Members(groups[g].values)) < Min(Members(groups[h].values))
        /\ \A g \in DOMAIN groups :
              groups[g].values = rows[Min(Members(groups[g].values))].group

Abs(x) == IF x < 0 THEN -x ELSE x

\* The arguments of the s-th aggregate, and those of the rows S it does not skip.
Column(s)       == [r \in DOMAIN rows |-> rows[r].args[s]]
NonNull(col, S) == {r \in S : ~IsNull(col[r])}
Numbers(col, S) == {r \in NonNull(col, S) : ~IsNaN(col[r])}

(* COUNT of a group counts its rows, or its non-NULL arguments, NaN included;
   AVG divides by the number of arguments that are neither. *)
CountMatches(spec, v, col, S) ==
    CASE spec.kind = "COUNT" -> v = Int64(Cardinality(IF spec.star THEN S ELSE NonNull(col, S)))
      [] spec.kind = "AVG" ->
           IF Numbers(col, S) = {} THEN v = NullOf(TFloat)
           ELSE v.cls = "quotient" /\ v.x[2] = Cardinality(Numbers(col, S))
      [] OTHER -> TRUE

\* Exact sums, in the units of the argument's type and in half units.
SumOver(w, S)     == MapThenSumSet(LAMBDA r : w[r], S)
Total(col, S)     == SumOver([r \in DOMAIN col |-> col[r].x], Numbers(col, S))
Magnitude(col, S) == SumOver([r \in DOMAIN col |-> Abs(col[r].x)], Numbers(col, S))
AllInts(col, S)   == \A r \in Numbers(col, S) : col[r].type = TInt
Halves(col, S)    == IF AllInts(col, S) THEN 2 * Total(col, S) ELSE Total(col, S)
Dense(col, S)     == Magnitude(col, S) <= FloatExact \div 2

(* SUM over INTs is the exact total whenever the total is an int64, even when
   the running sum wrapped around on the way.  SUM over FLOATs, and the sum
   under AVG, is exact while the magnitudes added stay in the range where every
   sum is a double.  Over no number at all the result is NULL. *)
SumIsExact(spec, v, col, S) ==
    /\ spec.kind = "SUM" =>
          IF Numbers(col, S) = {} THEN v = NullOf(spec.outType)
          ELSE IF AllInts(col, S) THEN Total(col, S) \in IntRange => v = Int64(Total(col, S))
          ELSE Dense(col, S) => v = Float64(Total(col, S))
    /\ spec.kind = "AVG" /\ Numbers(col, S) # {} /\ Dense(col, S) =>
          v.x[1] = Float64(Halves(col, S))

Beats(kind, a, b) == Compare(a, b) = Known(IF kind = "MIN" THEN -1 ELSE 1)

\* The first of the arguments that no other one beats.
IsExtreme(kind, v, col, S) ==
    \E r \in Numbers(col, S) :
        /\ v = col[r]
        /\ \A q \in Numbers(col, S) :
              ~Beats(kind, col[q], v) /\ (q < r => Beats(kind, v, col[q]))

(* MIN and MAX return an argument of the group that no other one beats and
   none before it equals; NULL when every argument is NULL or NaN. *)
ExtremeMatches(spec, v, col, S) ==
    spec.kind \in {"MIN", "MAX"} =>
        IF Numbers(col, S) = {} THEN v = NullOf(spec.outType)
                                ELSE IsExtreme(spec.kind, v, col, S)

(* Every result is the one its group's rows define. *)
ResultsMatch ==
    \A n \in DOMAIN out : \A s \in DOMAIN specs :
        LET v == out[n].results[s]
            S == Members(out[n].values)
        IN  /\ CountMatches(specs[s], v, Column(s), S)
            /\ SumIsExact(specs[s], v, Column(s), S)
            /\ ExtremeMatches(specs[s], v, Column(s), S)

(* A query without GROUP BY returns one row, also over no rows at all; one
   with GROUP BY returns every group; one that failed returns nothing.  The
   groups and their states keep their types. *)
OutputIsComplete ==
    /\ TypeOK
    /\ failed => out = <<>>
    /\ done /\ ~failed =>
          IF grouped THEN \A r \in DOMAIN rows : \E n \in DOMAIN out :
                              SameTuple(rows[r].group, out[n].values)
                     ELSE Len(out) = 1
    /\ done /\ ~failed => pos = Len(rows)

(* An error stops the build for good: the child is not read again and no later
   call returns a row. *)
FailureIsFinal == [][failed => failed' /\ pos' = pos /\ out' = out]_vars

-----------------------------------------------------------------------------
(* The inductive invariant. *)

States == [count : IntRange, intSum : IntRange, floatSum : FloatValues,
           seen : BOOLEAN, best : Values]

GroupRecords == [values : Seq(Values), states : [DOMAIN specs -> States]]

\* Each row handed out is the answer of its group as it still is.
AnswersEmitted == out = [n \in 1 .. index |-> Answer(groups[n])]

StateTypes ==
    /\ \E q \in Queries : grouped = q.grouped /\ specs = q.specs /\ rows = q.rows
    /\ pos \in 0 .. Len(rows)
    /\ groups \in Seq(GroupRecords)
    /\ \A k \in DOMAIN byKey : byKey[k] \in DOMAIN groups
    /\ initialized \in BOOLEAN /\ failed \in BOOLEAN /\ done \in BOOLEAN
    /\ index \in 0 .. Len(groups)
    /\ AnswersEmitted
    /\ frame \in {"idle", "building", "emitting"}

\* The build comes first, and unless it fails it reads every row.
Phases ==
    /\ frame # "idle" => initialized
    /\ ~initialized => pos = 0 /\ groups = <<>> /\ ~failed /\ ~done
    /\ initialized /\ ~grouped => Len(groups) = 1
    /\ frame = "building" \/ failed => index = 0
    /\ frame = "building" => ~failed /\ ~done
    /\ initialized /\ frame # "building" /\ ~failed => pos = Len(rows)
    /\ done /\ ~failed => index = Len(groups)

RowKey(r) == GroupKey(rows[r].group)

\* Row r is the one group g was made for.
Creates(r, g) == /\ groups[g].values = rows[r].group
                 /\ \A m \in 1 .. r - 1 : RowKey(m) # RowKey(r)

GroupsAreKeyed ==
    grouped /\ ~failed =>
        /\ \A r \in 1 .. pos : rows[r].group \in Seq(Values) /\ RowKey(r) \in DOMAIN byKey
        /\ \A k \in DOMAIN byKey : GroupKey(groups[byKey[k]].values) = k
        /\ \A g \in DOMAIN groups : \E r \in 1 .. pos : Creates(r, g) /\ byKey[RowKey(r)] = g
        /\ \A g, h \in DOMAIN groups :
              g < h => \E r, m \in 1 .. pos : r < m /\ Creates(r, g) /\ Creates(m, h)

IInv == StateTypes /\ Phases /\ GroupsAreKeyed

\* The rows read so far that were stepped into group g.
ClassOf(g) == {r \in 1 .. pos : RowKey(r) = GroupKey(groups[g].values)}

\* The running sum of an INT column, as int64 arithmetic keeps it.
Wraps(x, total) == (x - total) % (2 * IntCutoff) = 0

\* The state of an aggregate that was stepped with the rows S of a column.
Fits(spec, st, col, S) ==
    /\ spec.kind = "COUNT" => st.count = Cardinality(IF spec.star THEN S ELSE NonNull(col, S))
    /\ spec.kind = "AVG" => st.count = Cardinality(Numbers(col, S))
    /\ spec.kind \in {"SUM", "MIN", "MAX"} => (st.seen <=> Numbers(col, S) # {})
    /\ spec.kind \in {"SUM", "AVG"} => /\ Total(col, S) \in Int /\ Magnitude(col, S) \in Int
                                       /\ Abs(Total(col, S)) <= Magnitude(col, S)
    /\ spec.kind = "SUM" /\ spec.outType = TInt => Wraps(st.intSum, Total(col, S))
    /\ spec.kind = "SUM" /\ spec.outType = TFloat /\ Dense(col, S) =>
          st.floatSum = Float64(Total(col, S))
    /\ spec.kind = "AVG" /\ Dense(col, S) => st.floatSum = Float64(Halves(col, S))
    /\ spec.kind \in {"MIN", "MAX"} /\ st.seen => IsExtreme(spec.kind, st.best, col, S)

NoRowFailed == \A r \in 1 .. pos : ~StepFails(rows[r])

GroupFits(g) == \A s \in DOMAIN specs :
                   Fits(specs[s], groups[g].states[s], Column(s), ClassOf(g))

StatesFit ==
    /\ initialized /\ ~grouped => groups[1].values = <<>>
    /\ ~failed => NoRowFailed /\ \A g \in DOMAIN groups : GroupFits(g)
=============================================================================
