-------------------------------- MODULE Sort --------------------------------
(***************************************************************************)
(* exec.Sort (internal/exec/sort.go): the first call of Next drains the    *)
(* child and sorts what it delivered with sort.SliceStable; every call     *)
(* then hands out one row.                                                 *)
(*                                                                         *)
(* SliceStable is the Go library's: up to BlockSize (20) elements it is an *)
(* insertion sort that swaps neighbours, modelled here one comparison at a *)
(* time, since on a comparator that is no strict weak order the result     *)
(* depends on which pairs are compared.  Longer inputs are not modelled.   *)
(*                                                                         *)
(* A row is its position in the child's output, keys[r] the values of the  *)
(* sort expressions on it.                                                 *)
(***************************************************************************)
EXTENDS Values

CONSTANTS
    Queries,     \* the child rows' keys with the DESC flags of the sort keys
    BlockSize    \* SliceStable's insertion-sort block

\* The (zero value, error) result of Eval.
NoValue == [type |-> "ERROR", cls |-> "error", x |-> 0]

\* The comparator ignores an evaluation error and goes on with the zero value,
\* an INT 0.
KeyOf(v) == IF v = NoValue THEN Int64(0) ELSE v

\* The planner gives every sort key one type.
ASSUME QueriesAssumption ==
    /\ BlockSize \in Nat
    /\ \A q \in Queries :
          /\ q.desc \in Seq(BOOLEAN)
          /\ q.keys \in Seq([DOMAIN q.desc -> Values \cup {NoValue}])
          /\ Len(q.keys) <= BlockSize
          /\ \A r, s \in DOMAIN q.keys : \A k \in DOMAIN q.desc :
                Comparable(KeyOf(q.keys[r][k]), KeyOf(q.keys[s][k]))

VARIABLES
    keys, desc,    \* the keys of the child's rows; which sort keys are DESC
    pos,           \* rows read from the child so far
    rows, loaded,  \* the materialized rows and whether they are sorted
    outer, inner,  \* the insertion sort's i and j, as 1-based positions
    i,             \* rows handed out
    frame,         \* where the call of Next is
    out, done      \* the rows returned so far; Next has returned false

vars == <<keys, desc, pos, rows, loaded, outer, inner, i, frame, out, done>>

query == <<keys, desc>>

\* Mutant: NULL compares as unknown, that is, as a tie.
NullBlindCompare(a, b) == Compare(a, b).ord

NullAwareCompare(a, b) ==
    CASE IsNull(a) /\ IsNull(b) -> 0
      [] IsNull(a) /\ ~IsNull(b) -> -1
      [] ~IsNull(a) /\ IsNull(b) -> 1
      [] OTHER -> Compare(a, b).ord

\* The order the k-th sort key gives rows r and s.
KeyOrd(k, r, s) == NullAwareCompare(KeyOf(keys[r][k]), KeyOf(keys[s][k]))

\* Mutant: only the first sort key is looked at.
LessByFirstKey(r, s) ==
    desc # <<>> /\ IF desc[1] THEN KeyOrd(1, r, s) > 0 ELSE KeyOrd(1, r, s) < 0

\* The first key that tells the rows apart decides.
Less(r, s) ==
    \E k \in DOMAIN desc :
        /\ \A m \in 1 .. k - 1 : KeyOrd(m, r, s) = 0
        /\ IF desc[k] THEN KeyOrd(k, r, s) > 0 ELSE KeyOrd(k, r, s) < 0

Init == /\ \E q \in Queries : keys = q.keys /\ desc = q.desc
        /\ pos = 0 /\ rows = <<>> /\ loaded = FALSE
        /\ outer = 0 /\ inner = 0
        /\ i = 0
        /\ frame = "idle"
        /\ out = <<>> /\ done = FALSE

-----------------------------------------------------------------------------
(* The consumer's call. *)
CallNext ==
    /\ frame = "idle"
    /\ frame' = IF loaded THEN "emitting" ELSE "loading"
    /\ UNCHANGED <<query, pos, rows, loaded, outer, inner, i, out, done>>

(* load: drain the child ... *)
LoadRow ==
    /\ frame = "loading"
    /\ pos < Len(keys)
    /\ pos' = pos + 1
    /\ rows' = Append(rows, pos + 1)
    /\ UNCHANGED <<query, loaded, outer, inner, i, frame, out, done>>

(* ... and sort: insertion starts with the second row. *)
LoadEnd ==
    /\ frame = "loading"
    /\ pos = Len(keys)
    /\ frame' = "sorting"
    /\ outer' = 2 /\ inner' = 2
    /\ UNCHANGED <<query, pos, rows, loaded, i, out, done>>

InsertMoves == inner > 1 /\ Less(rows[inner], rows[inner - 1])

(* The row being inserted is less than its left neighbour: swap. *)
SortSwap ==
    /\ frame = "sorting" /\ outer <= Len(rows)
    /\ InsertMoves
    /\ rows' = [rows EXCEPT ![inner] = rows[inner - 1], ![inner - 1] = rows[inner]]
    /\ inner' = inner - 1
    /\ UNCHANGED <<query, pos, loaded, outer, i, frame, out, done>>

(* It has found its place: go on with the next row. *)
SortPlaced ==
    /\ frame = "sorting" /\ outer <= Len(rows)
    /\ ~InsertMoves
    /\ outer' = outer + 1 /\ inner' = outer + 1
    /\ UNCHANGED <<query, pos, rows, loaded, i, frame, out, done>>

SortEnd ==
    /\ frame = "sorting" /\ outer > Len(rows)
    /\ loaded' = TRUE
    /\ frame' = "emitting"
    /\ UNCHANGED <<query, pos, rows, outer, inner, i, out, done>>

-----------------------------------------------------------------------------
(* Next: hand out a row, or report exhaustion. *)
Emit ==
    /\ frame = "emitting"
    /\ i < Len(rows)
    /\ out' = Append(out, rows[i + 1])
    /\ i' = i + 1
    /\ frame' = "idle"
    /\ UNCHANGED <<query, pos, rows, loaded, outer, inner, done>>

\* Mutant: the last row is taken for the end.
EmitEndEarly ==
    /\ frame = "emitting"
    /\ i + 1 >= Len(rows)
    /\ done' = TRUE
    /\ frame' = "idle"
    /\ UNCHANGED <<query, pos, rows, loaded, outer, inner, i, out>>

EmitEnd ==
    /\ frame = "emitting"
    /\ i >= Len(rows)
    /\ done' = TRUE
    /\ frame' = "idle"
    /\ UNCHANGED <<query, pos, rows, loaded, outer, inner, i, out>>

Load == LoadRow \/ LoadEnd \/ SortSwap \/ SortPlaced \/ SortEnd
Next == CallNext \/ Load \/ Emit \/ EmitEnd

(* The consumer drains the operator. *)
Spec == Init /\ [][Next]_vars /\ WF_vars(Next)

-----------------------------------------------------------------------------
(* Properties *)

TypeOK ==
    /\ desc \in Seq(BOOLEAN)
    /\ keys \in Seq([DOMAIN desc -> Values \cup {NoValue}])
    /\ pos \in 0 .. Len(keys)
    /\ rows \in Seq(1 .. pos) /\ Len(rows) = pos
    /\ loaded \in BOOLEAN /\ done \in BOOLEAN
    /\ outer \in 0 .. Len(keys) + 2 /\ inner \in 0 .. outer
    /\ i \in 0 .. Len(rows)
    /\ frame \in {"idle", "loading", "sorting", "emitting"}
    /\ out \in Seq(1 .. pos) /\ Len(out) = i

\* ORDER BY without the comparator: a value is below another if it alone is NULL
\* or is the smaller; the first key whose values differ decides, arrival last.
Below(a, b) == ~IsNull(b) /\ (IsNull(a) \/ Exact(a) < Exact(b))

Above(k, r, s) == IF desc[k] THEN Below(KeyOf(keys[s][k]), KeyOf(keys[r][k]))
                            ELSE Below(KeyOf(keys[r][k]), KeyOf(keys[s][k]))

Precedes(r, s) ==
    LET ahead == {k \in DOMAIN desc : Above(k, r, s)}
        behind == {k \in DOMAIN desc : Above(k, s, r)}
    IN  IF ahead \cup behind = {} THEN r < s ELSE Min(ahead \cup behind) \in ahead

NaNFree == \A r \in DOMAIN keys : \A k \in DOMAIN desc : ~IsNaN(keys[r][k])

(* Without NaN keys the rows come out in the stable order, for any mix of
   keys, directions, NULLs and ties. *)
StablySorted ==
    NaNFree => \A m, n \in DOMAIN out : m < n => Precedes(out[m], out[n])

(* Whatever the keys are, NaN included, the sort neither loses nor repeats a
   row while it moves them: rows and output are permutations of what arrived, and
   the state keeps its types on the way. *)
NoRowLost ==
    /\ TypeOK
    /\ \A m, n \in DOMAIN rows : m # n => rows[m] # rows[n]
    /\ \A n \in DOMAIN out : out[n] = rows[n]
    /\ done => Len(out) = Len(keys)

(* The comment on Sort puts NULLs before non-NULLs: on a leading ascending key
   no row with a NULL key follows one without, even among NaNs; a descending
   key mirrors that. *)
NullsTogether ==
    \A m, n \in DOMAIN out :
        m < n /\ desc # <<>> =>
            IF desc[1] THEN IsNull(keys[out[m]][1]) => IsNull(keys[out[n]][1])
                       ELSE IsNull(keys[out[n]][1]) => IsNull(keys[out[m]][1])

(* The doc comment of Sort: the rows come out sorted (sort.go:15-16), that is,
   no row is less than one handed out before it. *)
SortedOutput == \A m, n \in DOMAIN out : m < n => ~Less(out[n], out[m])

-----------------------------------------------------------------------------
(* The inductive invariant. *)

\* NULLs first on an ascending leading key, last on a descending one.
NullsInOrder(r, s) ==
    desc # <<>> => IF desc[1] THEN IsNull(keys[r][1]) => IsNull(keys[s][1])
                              ELSE IsNull(keys[s][1]) => IsNull(keys[r][1])

\* Row r may stand before row s.
InOrder(r, s) == NullsInOrder(r, s) /\ (NaNFree => Precedes(r, s))

KeysComparable ==
    \A r, s \in DOMAIN keys : \A k \in DOMAIN desc :
        Comparable(KeyOf(keys[r][k]), KeyOf(keys[s][k]))

\* Loading comes first, sorting next, and only then is anything handed out.
Phases ==
    /\ frame = "loading" => ~loaded
    /\ frame = "idle" /\ ~loaded => pos = 0
    /\ frame = "emitting" => loaded
    /\ frame = "sorting" => /\ ~loaded /\ pos = Len(keys) /\ outer >= 2 /\ inner >= 1
                            /\ outer > pos => inner = outer
    /\ loaded => pos = Len(keys)
    /\ ~loaded => i = 0 /\ ~done
    /\ done => i = Len(rows)

\* No row is in two places; those handed out are the first i.
RowsAreDistinct ==
    /\ \A m, n \in DOMAIN rows : m # n => rows[m] # rows[n]
    /\ \A n \in DOMAIN out : out[n] = rows[n]

\* Rows beyond the prefix being sorted stand where they arrived.
SuffixUntouched ==
    \A n \in DOMAIN rows :
        \/ frame \in {"idle", "loading"} /\ ~loaded
        \/ frame = "sorting" /\ n > outer
        => rows[n] = n

\* The row that arrived at outer is being inserted and now stands at inner: it
\* goes before those it has passed, and the others are in order.
PrefixInOrder ==
    frame = "sorting" =>
        /\ outer \in DOMAIN rows => rows[inner] = outer
        /\ \A n \in DOMAIN rows : n <= outer /\ n # inner => rows[n] < outer
        /\ \A m, n \in DOMAIN rows :
              m < n /\ n <= outer /\ m # inner /\ n # inner => InOrder(rows[m], rows[n])
        /\ \A n \in DOMAIN rows :
              inner < n /\ n <= outer => InOrder(rows[inner], rows[n])

AllInOrder ==
    loaded => \A m, n \in DOMAIN rows : m < n => InOrder(rows[m], rows[n])

IInv == /\ TypeOK /\ KeysComparable /\ Phases /\ RowsAreDistinct
        /\ SuffixUntouched /\ PrefixInOrder /\ AllInOrder
=============================================================================
