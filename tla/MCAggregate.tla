---------------------------- MODULE MCAggregate ----------------------------
(* Instances of Aggregate: one grouping column or none, and the aggregates of
   one argument column, over at most MaxRows rows. *)
EXTENDS Aggregate, SmallDomain

CONSTANT MaxRows

ASSUME MaxRowsAssumption == MaxRows \in Nat

Spec1(kind, star, t) == [kind |-> kind, star |-> star, outType |-> t]

\* Every aggregate of an argument of type t.
AllSpecs(t) == << Spec1("COUNT", TRUE, TInt), Spec1("COUNT", FALSE, TInt),
                  Spec1("SUM", FALSE, t), Spec1("AVG", FALSE, TFloat),
                  Spec1("MIN", FALSE, t), Spec1("MAX", FALSE, t) >>

Tables(n, keys, args) ==
    LET row(k, v) == [group |-> k, args |-> [s \in 1 .. 6 |-> v]]
    IN  UNION {[1 .. m -> {row(k, v) : k \in keys, v \in args}] : m \in 0 .. n}

QueriesOver(n, g, keys, t, args) ==
    {[grouped |-> g, specs |-> AllSpecs(t), rows |-> tb] : tb \in Tables(n, keys, args)}

GroupKeys == {<<Float64(0)>>, <<NegZero>>, <<NaN>>, <<NullOf(TFloat)>>}

\* INT arguments next to int64's ends, so that running sums wrap around.
IntArgs   == {Int64(1), Int64(IntCutoff - 1), Int64(-IntCutoff), NullOf(TInt)}
FloatArgs == {Float64(0), NegZero, NaN, Float64(Inf), Float64(-Inf), Float64(3)}

\* A grouping column whose evaluation fails, or an argument that does.
FailingQueries ==
    QueriesOver(2, TRUE, {<<NoValue>>}, TInt, {Int64(1)})
    \cup QueriesOver(2, TRUE, {<<Int64(0)>>, <<Int64(1)>>}, TInt, {NoValue})
    \cup QueriesOver(2, FALSE, {<<>>}, TInt, {NoValue})

MCQueries ==
    QueriesOver(MaxRows, TRUE, GroupKeys, TFloat, {Float64(1), NaN})
    \cup QueriesOver(MaxRows, TRUE, {<<Bool(TRUE)>>, <<NullOf(TBool)>>}, TInt, IntArgs)
    \cup QueriesOver(MaxRows + 1, FALSE, {<<>>}, TInt, IntArgs)
    \cup QueriesOver(MaxRows, FALSE, {<<>>}, TFloat, FloatArgs)
    \cup FailingQueries
=============================================================================
