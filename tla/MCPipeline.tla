----------------------------- MODULE MCPipeline -----------------------------
(* Every statement over tables of at most MaxRows rows: with and without
   WHERE, ORDER BY (two ranks, so ties occur) and LIMIT 0 .. MaxRows + 1. *)
EXTENDS Pipeline

CONSTANT MaxRows

ASSUME MaxRowsAssumption == MaxRows \in Nat

Wheres(n) == [1 .. n -> {"true", "false", "null"}] \cup {[r \in 1 .. n |-> "error"]}

\* Without WHERE or ORDER BY the outcomes and ranks do not matter.
Statements(n) ==
    {q \in [where : Wheres(n), rank : [1 .. n -> {1, 2}],
            filtered : BOOLEAN, sorted : BOOLEAN, projects : BOOLEAN,
            limit : {NoLimit} \cup 0 .. MaxRows + 1] :
        /\ ~q.filtered => q.where = [r \in 1 .. n |-> "true"]
        /\ ~q.sorted => q.rank = [r \in 1 .. n |-> 1]}

MCQueries == UNION {Statements(n) : n \in 0 .. MaxRows}
=============================================================================
