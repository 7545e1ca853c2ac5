------------------------------ MODULE Planner ------------------------------
(***************************************************************************)
(* plan.Build (internal/plan/plan.go, internal/plan/aggregate.go): from a  *)
(* statement and the catalog to the expressions the operators evaluate,    *)
(* or a rejection.  LIMIT, sort directions and labels decide nothing here  *)
(* and are left out; so is the reading of the files.                       *)
(*                                                                         *)
(* Operators evaluate a plan's expressions without a check of their own,   *)
(* on the rows of the schemas the plan was made for.                       *)
(***************************************************************************)
EXTENDS Expressions

CONSTANTS
    Catalog,      \* table name to its columns, each [name, type]
    Statements

\* Tables have names, and columns of a type.
ASSUME CatalogAssumption ==
    /\ DOMAIN Catalog \subseteq STRING \ {Unqualified}
    /\ \A name \in DOMAIN Catalog : Catalog[name] \in Seq([name : STRING, type : Types])

\* The error result of Build and of the functions it calls.
Rejected == [kind |-> "rejected"]

VARIABLES st, plan   \* the statement; None before Build, then its result

vars == <<st, plan>>

-----------------------------------------------------------------------------
(* Which clauses hold aggregates *)

ContainsNode(e, contains) ==
    CASE e.kind = "aggregate" -> TRUE
      [] e.kind \in {"unary", "isnull"} -> contains[e.arg]
      [] e.kind = "binary" -> contains[e.left] \/ contains[e.right]
      [] OTHER -> FALSE

ContainsAggregate(e) ==
    LET contains[x \in Exprs] == ContainsNode(x, contains) IN contains[e]

IsAggregateQuery ==
    \/ st.groupBy # <<>>
    \/ \E e \in ToSet(st.projections) \cup ToSet(st.orderBy) \cup {st.having} :
          ContainsAggregate(e)

\* Mutant: only the names are resolved.
HasNames(e, schema) ==
    LET named[x \in Exprs] ==
            CASE x.kind = "column" -> Index(schema, x.table, x.name) # Unresolved
              [] x.kind = "binary" -> named[x.left] /\ named[x.right]
              [] x.kind \in {"unary", "isnull"} -> named[x.arg]
              [] OTHER -> TRUE
    IN  named[e]

HasType(e, schema) == InferExprType(e, schema) # NoType
IsBool(e, schema)  == InferExprType(e, schema) = TBool

-----------------------------------------------------------------------------
(* Join keys *)

FromTable(name) == [n \in DOMAIN Catalog[name] |->
    [table |-> name, name |-> Catalog[name][n].name, type |-> Catalog[name][n].type]]

\* An operand's owner is "none", "left", "right" or "invalid".
CombineJoinOwners(l, r) ==
    CASE "invalid" \in {l, r} -> "invalid"
      [] "invalid" \notin {l, r} /\ l = "none" -> r
      [] "invalid" \notin {l, r} /\ l # "none" -> IF r \in {"none", l} THEN l ELSE "invalid"

\* Mutant: the left input is searched first.
ColumnOwnerLeftFirst(e, left, right) ==
    IF Index(left, e.table, e.name) # Unresolved THEN "left"
    ELSE IF Index(right, e.table, e.name) # Unresolved THEN "right" ELSE "invalid"

ColumnOwner(e, left, right) ==
    LET inLeft  == Index(left, e.table, e.name) # Unresolved
        inRight == Index(right, e.table, e.name) # Unresolved
    IN  IF inLeft = inRight THEN "invalid" ELSE IF inLeft THEN "left" ELSE "right"

OwnerNode(e, owner, left, right) ==
    CASE e.kind = "literal" -> "none"
      [] e.kind = "column" -> ColumnOwner(e, left, right)
      [] e.kind \in {"unary", "isnull"} -> owner[e.arg]
      [] e.kind = "binary" -> IF e.op = "=" THEN "invalid"
                              ELSE CombineJoinOwners(owner[e.left], owner[e.right])
      [] OTHER -> "invalid"

Ownership(left, right) == LET owner[e \in Exprs] == OwnerNode(e, owner, left, right) IN owner

JoinOperandOwner(e, left, right) == Ownership(left, right)[e]

JoinKeys(l, r, left, right) ==
    IF ComparableTypes(InferExprType(l, left), InferExprType(r, right))
       /\ HasType(l, left) /\ HasType(r, right)
    THEN [left |-> l, right |-> r] ELSE Rejected

SplitJoinKeys(on, left, right) ==
    IF ~(on.kind = "binary" /\ on.op = "=") THEN Rejected
    ELSE LET l == JoinOperandOwner(on.left, left, right)
             r == JoinOperandOwner(on.right, left, right)
         IN  CASE l = "left" /\ r = "right" -> JoinKeys(on.left, on.right, left, right)
               [] l = "right" /\ r = "left" -> JoinKeys(on.right, on.left, left, right)
               [] OTHER -> Rejected

-----------------------------------------------------------------------------
(* Aggregate queries *)

\* The type of an aggregate's result, NoType if the call is not one.
OutType(call, schema) ==
    LET t == IF call.star THEN NoType ELSE InferExprType(call.arg, schema)
    IN  CASE call.name = "COUNT" -> IF call.star \/ t # NoType THEN TInt ELSE NoType
          [] call.name = "SUM" -> IF NumericType(t) THEN t ELSE NoType
          [] call.name = "AVG" -> IF NumericType(t) THEN TFloat ELSE NoType
          [] call.name \in {"MIN", "MAX"} -> t
          [] OTHER -> NoType

\* The calls in an expression, from left to right.
CallsNode(e, calls) ==
    CASE e.kind = "aggregate" -> <<e>>
      [] e.kind \in {"unary", "isnull"} -> calls[e.arg]
      [] e.kind = "binary" -> calls[e.left] \o calls[e.right]
      [] OTHER -> <<>>

CallLists == LET calls[e \in Exprs] == CallsNode(e, calls) IN calls

Calls(e) == CallLists[e]

CallsOf(es) == FlattenSeq([n \in DOMAIN es |-> Calls(es[n])])

\* collect: projections, then HAVING, then ORDER BY.
CallsIn(s) == CallsOf(s.projections) \o Calls(s.having) \o CallsOf(s.orderBy)

Collected == CallsIn(st)

ValidCall(call, schema) ==
    /\ ~call.star => ~ContainsAggregate(call.arg)
    /\ OutType(call, schema) # NoType

GroupsValid(schema) ==
    /\ \A e \in ToSet(st.groupBy) :
          e.kind = "column" /\ Index(schema, e.table, e.name) # Unresolved
    /\ \A m, n \in DOMAIN st.groupBy :
          LET e == st.groupBy[m]
              f == st.groupBy[n]
          IN  m # n => Index(schema, e.table, e.name) # Index(schema, f.table, f.name)

\* Groups first, then the calls in the order they were collected.
AggregateSchema(schema, calls) ==
    [n \in DOMAIN st.groupBy |->
        schema[Index(schema, st.groupBy[n].table, st.groupBy[n].name)]]
    \o [n \in DOMAIN calls |->
           [table |-> Unqualified, name |-> "computed", type |-> OutType(calls[n], schema)]]

\* Mutant: the groups' columns are forgotten.
CallSlotUnshifted(call, calls) == CHOOSE n \in DOMAIN calls : calls[n].id = call.id

CallSlot(call, calls) == Len(st.groupBy) + CHOOSE n \in DOMAIN calls : calls[n].id = call.id

\* groupSlots: the group column that the column is.
GroupSlots(e, schema) ==
    {n \in DOMAIN st.groupBy :
        /\ Index(schema, e.table, e.name) # Unresolved
        /\ Index(schema, e.table, e.name)
              = Index(schema, st.groupBy[n].table, st.groupBy[n].name)}

LowerNode(e, lower, calls, schema) ==
    CASE e.kind \in {"literal", "slot"} -> e
      [] e.kind = "aggregate" -> SlotRef(CallSlot(e, calls))
      [] e.kind = "column" ->
           LET slots == GroupSlots(e, schema)
           IN  IF slots = {} THEN Rejected ELSE SlotRef(CHOOSE n \in slots : TRUE)
      [] e.kind \in {"unary", "isnull"} ->
           IF lower[e.arg] = Rejected THEN Rejected ELSE [e EXCEPT !.arg = lower[e.arg]]
      [] e.kind = "binary" ->
           IF Rejected \in {lower[e.left], lower[e.right]} THEN Rejected
           ELSE [e EXCEPT !.left = lower[e.left], !.right = lower[e.right]]
      [] OTHER -> Rejected

Lowering(calls, schema) == LET lower[e \in Exprs] == LowerNode(e, lower, calls, schema) IN lower

LowerAggregateExpr(e, calls, schema) == Lowering(calls, schema)[e]

\* The lowered expressions and HAVING over the aggregate's rows.
BuildAggregatePlan(base, schema) ==
    LET calls == Collected
        lower(e) == LowerAggregateExpr(e, calls, schema)
        aggSchema == AggregateSchema(schema, calls)
        accepts(e) == lower(e) # Rejected /\ HasType(lower(e), aggSchema)
    IN  IF /\ \A e \in ToSet(st.projections) : e.kind # "star"
           /\ GroupsValid(schema)
           /\ \A call \in ToSet(calls) : ValidCall(call, schema)
           /\ \A e \in ToSet(st.projections) \cup ToSet(st.orderBy) : accepts(e)
           /\ st.having # None => accepts(st.having) /\ IsBool(lower(st.having), aggSchema)
        THEN [base EXCEPT
                 !.calls = calls,
                 !.schema = aggSchema,
                 !.having = IF st.having = None THEN None ELSE lower(st.having),
                 !.sortKeys = [n \in DOMAIN st.orderBy |-> lower(st.orderBy[n])],
                 !.exprs = [n \in DOMAIN st.projections |-> lower(st.projections[n])],
                 !.outTypes = [n \in DOMAIN st.projections |->
                                  InferExprType(lower(st.projections[n]), aggSchema)]]
        ELSE Rejected

-----------------------------------------------------------------------------
(* Plain queries *)

\* `*` stands for the input's columns by name; it is not validated.
Expand(e, schema) ==
    IF e.kind = "star"
    THEN [n \in DOMAIN schema |-> [expr |-> ColumnRef(schema[n].table, schema[n].name),
                                   type |-> schema[n].type]]
    ELSE << [expr |-> e, type |-> InferExprType(e, schema)] >>

BuildPlainPlan(base, schema) ==
    LET out == FlattenSeq([n \in DOMAIN st.projections |-> Expand(st.projections[n], schema)])
    IN  IF /\ \A e \in ToSet(st.orderBy) : HasType(e, schema)
           /\ \A e \in ToSet(st.projections) : e.kind = "star" \/ HasType(e, schema)
        THEN [base EXCEPT !.sortKeys = st.orderBy,
                          !.exprs = [n \in DOMAIN out |-> out[n].expr],
                          !.outTypes = [n \in DOMAIN out |-> out[n].type]]
        ELSE Rejected

-----------------------------------------------------------------------------
\* The parser lets one JOIN through at most.
Joined == IF st.join = None THEN <<>> ELSE FromTable(st.join.table)

BuildOver(left, right, keys) ==
    LET schema == left \o right
        base == [kind |-> "plan", input |-> schema, keys |-> keys, where |-> st.where,
                 calls |-> <<>>, schema |-> schema, having |-> None,
                 sortKeys |-> <<>>, exprs |-> <<>>, outTypes |-> <<>>]
    IN  CASE \/ keys = Rejected
             \/ ContainsAggregate(st.where)
             \/ st.having # None /\ ~IsAggregateQuery
             \/ st.where # None /\ ~IsBool(st.where, schema) -> Rejected
          [] OTHER -> IF IsAggregateQuery THEN BuildAggregatePlan(base, schema)
                                          ELSE BuildPlainPlan(base, schema)

\* What the parser makes: every call is a node of its own.
ASSUME StatementsAssumption ==
    \A s \in Statements :
        /\ {s.where, s.having} \subseteq Written
        /\ {s.projections, s.groupBy, s.orderBy} \subseteq Seq(Written)
        /\ s.join # None => s.join.on \in Written
        /\ \A m, n \in DOMAIN CallsIn(s) : CallsIn(s)[m].id = CallsIn(s)[n].id => m = n

Init == st \in Statements /\ plan = None

Build ==
    /\ plan = None
    /\ plan' = IF ~({st.from} \cup (IF st.join = None THEN {} ELSE {st.join.table})
                       \subseteq DOMAIN Catalog)
               THEN Rejected
               ELSE LET left == FromTable(st.from)
                    IN  BuildOver(left, Joined,
                                  IF st.join = None THEN None
                                  ELSE SplitJoinKeys(st.join.on, left, Joined))
    /\ UNCHANGED st

Next == Build

Spec == Init /\ [][Next]_vars
=============================================================================
