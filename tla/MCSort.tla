------------------------------- MODULE MCSort -------------------------------
(* Instances of Sort: one or two typed key columns of at most MaxRows rows. *)
EXTENDS Sort, SmallDomain

CONSTANT MaxRows

ASSUME MaxRowsAssumption == MaxRows \in Nat

Columns(ks) == UNION {[1 .. n -> ks] : n \in 0 .. MaxRows}

OneKey(vs) == {[keys |-> [r \in DOMAIN c |-> <<c[r]>>], desc |-> <<d>>] :
                  c \in Columns(vs), d \in BOOLEAN}

TwoKeys(vs, ws) ==
    {[keys |-> c, desc |-> <<d, e>>] : c \in Columns(vs \X ws), d, e \in BOOLEAN}

\* A FLOAT key with NULL, NaN and -0; an INT key before a BOOL key; a key
\* whose evaluation fails on every row.
MixedQueries ==
    OneKey({Float64(1), Float64(3), NaN, NullOf(TFloat)})
    \cup {q \in TwoKeys({Int64(1), NullOf(TInt)}, {Bool(FALSE), Bool(TRUE)}) :
              Len(q.keys) <= 3}
    \cup OneKey({NoValue})

NaNQueries == OneKey({Float64(1), Float64(3), NaN})
=============================================================================
