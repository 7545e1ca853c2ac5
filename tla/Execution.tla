----------------------------- MODULE Execution -----------------------------
(***************************************************************************)
(* What the operators of a plan evaluate, on the rows they evaluate it on: *)
(* the promises of the planner that they rely on without a check.          *)
(***************************************************************************)
EXTENDS Planner

CONSTANTS
    Ids,        \* the addresses of the nodes that are calls
    Samples,    \* type to the values of the type that rows are made of
    Results     \* type to results of that type, one for each call

ASSUME IdsAssumption == \A s \in Statements : \A call \in ToSet(CallsIn(s)) : call.id \in Ids

ASSUME ValuesAssumption ==
    /\ Samples \in [Types -> SUBSET Values]
    /\ Results \in [Types -> [Ids -> Values]]
    /\ \A type \in Types : /\ \A v \in Samples[type] : v.type = type
                           /\ \A id \in Ids : Results[type][id].type = type

-----------------------------------------------------------------------------
Accepted == plan.kind = "plan"

RowsOf(schema) ==
    {row \in [DOMAIN schema -> UNION {Samples[schema[n].type] : n \in DOMAIN schema}] :
        \A n \in DOMAIN schema : row[n] \in Samples[schema[n].type]}

Env(schema, row) == [schema |-> schema, row |-> row, saturates |-> TRUE]

LeftSchema == FromTable(st.from)

\* An expression of the plan, the rows an operator evaluates it on, its type.
Use(e, schema, types) == [expr |-> e, schema |-> schema, types |-> types]

Uses ==
    {Use(plan.where, plan.input, {TBool}), Use(plan.having, plan.schema, {TBool})}
    \cup {Use(plan.calls[n].arg, plan.input, Types) :
             n \in {m \in DOMAIN plan.calls : ~plan.calls[m].star}}
    \cup {Use(plan.sortKeys[n], plan.schema, Types) : n \in DOMAIN plan.sortKeys}
    \cup {Use(plan.exprs[n], plan.schema, {plan.outTypes[n]}) : n \in DOMAIN plan.exprs}
    \cup (IF plan.keys = None THEN {}
          ELSE {Use(plan.keys.left, LeftSchema, Types), Use(plan.keys.right, Joined, Types)})

(* Operators evaluate the expressions of an accepted plan without a check, and
   a failure would be a dropped row or the silent end of the answer.  None
   fails on any row, and each has one type on all rows, the predicted one where
   there is a prediction (plan.go:14-16). *)
AcceptedPlansNeverFail ==
    Accepted =>
        \A use \in {u \in Uses : u.expr # None} : \E type \in use.types :
            \A row \in RowsOf(use.schema) : Eval(use.expr, Env(use.schema, row)).type = type

\* The order in which ON names its operands does not matter (plan.go:123-126).
OperandOrderDoesNotMatter ==
    st.join # None /\ st.join.kind = "join" /\ st.join.table \in DOMAIN Catalog =>
        SplitJoinKeys(st.join.on, LeftSchema, Joined)
            = SplitJoinKeys([st.join.on EXCEPT !.left = st.join.on.right,
                                               !.right = st.join.on.left], LeftSchema, Joined)

(* An accepted ON condition is what the two keys say, in either order of its
   operands: on every pair of rows the keys, each evaluated on its own input's
   row, compare as the condition does on the joined row. *)
JoinKeysAreTheCondition ==
    /\ OperandOrderDoesNotMatter
    /\ Accepted /\ plan.keys # None =>
        \A l \in RowsOf(LeftSchema), r \in RowsOf(Joined) :
            Eval(st.join.on, Env(plan.input, l \o r))
                = EvalBinary("=", Eval(plan.keys.left, Env(LeftSchema, l)),
                                  Eval(plan.keys.right, Env(Joined, r)), TRUE)

\* The expression with the result of each call in the call's place.
PlugNode(e, plugged, result) ==
    CASE e.kind = "aggregate" -> Literal(result[e.id])
      [] e.kind \in {"unary", "isnull"} -> [e EXCEPT !.arg = plugged[e.arg]]
      [] e.kind = "binary" -> [e EXCEPT !.left = plugged[e.left], !.right = plugged[e.right]]
      [] OTHER -> e

Plugging(result) == LET plugged[e \in Exprs] == PlugNode(e, plugged, result) IN plugged

Plug(e, result) == Plugging(result)[e]

\* A result of its own for every call.
ResultOf == [id \in {plan.calls[n].id : n \in DOMAIN plan.calls} |->
                Results[OutType(CHOOSE call \in ToSet(plan.calls) : call.id = id, plan.input)][id]]

\* The row Aggregate emits for the group of an input row.
GroupRow(row) ==
    [n \in DOMAIN st.groupBy |-> Eval(st.groupBy[n], Env(plan.input, row))]
    \o [n \in DOMAIN plan.calls |-> ResultOf[plan.calls[n].id]]

\* The lowered expressions, each with what was written.
Lowered == {<<plan.exprs[n], st.projections[n]>> : n \in DOMAIN plan.exprs}
           \cup {<<plan.sortKeys[n], st.orderBy[n]>> : n \in DOMAIN plan.sortKeys}
           \cup ({<<plan.having, st.having>>} \ {<<None, None>>})

(* Lowering keeps the meaning of an aggregate query: on the group's row each
   lowered expression has the value the written one has on any row of the
   group with the aggregates' results in place of their calls. *)
LoweringKeepsMeaning ==
    Accepted /\ IsAggregateQuery =>
        \A row \in RowsOf(plan.input) : \A group \in {GroupRow(row)}, e \in Lowered :
            Eval(e[1], Env(plan.schema, group)) = Eval(Plug(e[2], ResultOf), Env(plan.input, row))
=============================================================================
