----------------------------- MODULE MCHashJoin -----------------------------
(***************************************************************************)
(* Instances of HashJoin: two columns of at most MaxRows keys.  A column   *)
(* has one type, and evaluating its key fails on every row or on none.     *)
(***************************************************************************)
EXTENDS HashJoin, SmallDomain

CONSTANT MaxRows

ASSUME MaxRowsAssumption == MaxRows \in Nat \ {0}

Column(keys) == UNION {[1 .. n -> keys] : n \in 0 .. MaxRows}

IntKeys   == {Int64(0), Int64(2), NullOf(TInt)}
FloatKeys == {Float64(4), NegZero, NaN}

SmallColumns == Column(IntKeys) \cup Column(FloatKeys) \cup {<<NoValue, NoValue>>}

\* Beyond 2^53: 8 is the last of the consecutive integers float64 holds.
BigIntColumns == Column({Int64(8), Int64(9)})
=============================================================================
