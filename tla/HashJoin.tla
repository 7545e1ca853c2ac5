------------------------------ MODULE HashJoin ------------------------------
(***************************************************************************)
(* exec.HashJoin (internal/exec/hashjoin.go) pulled by a consumer.  The    *)
(* first call of Next drains the right input into a hash table; every call *)
(* then emits a pending match of the current probe row or reads left rows  *)
(* until one has matches.  One action per turn of a loop of the code.      *)
(*                                                                         *)
(* The consumer may call again after the join reported exhaustion.  The    *)
(* inputs are scans: they deliver their rows in order and then end.        *)
(***************************************************************************)
EXTENDS Values

CONSTANTS
    LeftInputs,    \* the sequences of keys the left input may have
    RightInputs    \* the sequences of keys the right input may have

\* The (zero value, error) result of Eval.
NoValue == [type |-> "ERROR", cls |-> "error", x |-> 0]

RowValues == {NoValue} \cup Values

ASSUME InputsAssumption == LeftInputs \cup RightInputs \subseteq Seq(RowValues)

VARIABLES
    leftRows, rightRows,   \* the keys of the inputs' rows
    leftPos, rightPos,     \* rows read so far from each input
    built,                 \* the build side is in the table
    table,                 \* hash table: key to positions of right rows
    probe,                 \* position of the current left row, 0 before any
    matches, at,           \* its matches and how many were emitted
    frame,                 \* where the call of Next is
    out,                   \* the pairs returned so far, as positions
    done                   \* Next has returned false

vars == <<leftRows, rightRows, leftPos, rightPos, built, table, probe,
          matches, at, frame, out, done>>

inputs == <<leftRows, rightRows>>

Empty == <<>>

\* Mutant: NULL is a key like any other.
RowKeyOfNull(v) == IF v = NoValue THEN NoKey
                   ELSE IF IsNull(v) THEN [domain |-> "s", x |-> 0] ELSE EncodeKey(v)

\* Eval of the key expression followed by encodeKey: NoKey drops the row.
RowKey(v) == IF v = NoValue THEN NoKey ELSE EncodeKey(v)

\* A missing key of a Go map reads as the nil slice.
Lookup(t, k) == IF k \in DOMAIN t THEN t[k] ELSE <<>>

\* Mutant: a duplicate key replaces the earlier rows.
InsertOverwriting(t, k, r) == [c \in DOMAIN t \cup {k} |-> IF c = k THEN <<r>> ELSE t[c]]

Insert(t, k, r) == [c \in DOMAIN t \cup {k} |->
                       IF c = k THEN Append(Lookup(t, k), r) ELSE t[c]]

Init == /\ leftRows \in LeftInputs
        /\ rightRows \in RightInputs
        /\ leftPos = 0 /\ rightPos = 0
        /\ built = FALSE
        /\ table = Empty
        /\ probe = 0 /\ matches = <<>> /\ at = 0
        /\ frame = "idle"
        /\ out = <<>>
        /\ done = FALSE

-----------------------------------------------------------------------------
\* Mutant: probing starts before the table is complete.
CallNextUnbuilt ==
    /\ frame = "idle"
    /\ frame' = "probing"
    /\ UNCHANGED <<inputs, leftPos, rightPos, built, table, probe, matches,
                   at, out, done>>

(* The consumer's call. *)
CallNext ==
    /\ frame = "idle"
    /\ frame' = IF built THEN "probing" ELSE "building"
    /\ UNCHANGED <<inputs, leftPos, rightPos, built, table, probe, matches,
                   at, out, done>>

(* build: one right row, kept under its key ... *)
BuildKeep ==
    /\ frame = "building"
    /\ rightPos < Len(rightRows)
    /\ LET k == RowKey(rightRows[rightPos + 1])
       IN  /\ k # NoKey
           /\ table' = Insert(table, k, rightPos + 1)
    /\ rightPos' = rightPos + 1
    /\ UNCHANGED <<inputs, leftPos, built, probe, matches, at, frame, out, done>>

(* ... or dropped: an evaluation error, NULL or NaN. *)
BuildDrop ==
    /\ frame = "building"
    /\ rightPos < Len(rightRows)
    /\ RowKey(rightRows[rightPos + 1]) = NoKey
    /\ rightPos' = rightPos + 1
    /\ UNCHANGED <<inputs, leftPos, built, table, probe, matches, at, frame,
                   out, done>>

BuildEnd ==
    /\ frame = "building"
    /\ rightPos = Len(rightRows)
    /\ built' = TRUE
    /\ frame' = "probing"
    /\ UNCHANGED <<inputs, leftPos, rightPos, table, probe, matches, at, out, done>>

-----------------------------------------------------------------------------
(* Next's loop: a pending match is returned before anything is read. *)
EmitMatch ==
    /\ frame = "probing"
    /\ at < Len(matches)
    /\ out' = Append(out, <<probe, matches[at + 1]>>)
    /\ at' = at + 1
    /\ frame' = "idle"
    /\ UNCHANGED <<inputs, leftPos, rightPos, built, table, probe, matches, done>>

\* Mutant: the cursor into the matches is not reset.
ProbeHitStaleCursor ==
    /\ frame = "probing"
    /\ at >= Len(matches)
    /\ leftPos < Len(leftRows)
    /\ RowKey(leftRows[leftPos + 1]) # NoKey
    /\ matches' = Lookup(table, RowKey(leftRows[leftPos + 1]))
    /\ probe' = leftPos + 1
    /\ leftPos' = leftPos + 1
    /\ UNCHANGED <<inputs, rightPos, built, table, at, frame, out, done>>

(* The next left row has a key: it becomes the probe row. *)
ProbeHit ==
    /\ frame = "probing"
    /\ at >= Len(matches)
    /\ leftPos < Len(leftRows)
    /\ LET k == RowKey(leftRows[leftPos + 1])
       IN  /\ k # NoKey
           /\ matches' = Lookup(table, k)
    /\ probe' = leftPos + 1
    /\ at' = 0
    /\ leftPos' = leftPos + 1
    /\ UNCHANGED <<inputs, rightPos, built, table, frame, out, done>>

(* It has none: the previous probe row and its spent matches stay. *)
ProbeSkip ==
    /\ frame = "probing"
    /\ at >= Len(matches)
    /\ leftPos < Len(leftRows)
    /\ RowKey(leftRows[leftPos + 1]) = NoKey
    /\ leftPos' = leftPos + 1
    /\ UNCHANGED <<inputs, rightPos, built, table, probe, matches, at, frame,
                   out, done>>

\* Mutant: the matches of the last probe row start over.
ProbeEndRewinds ==
    /\ frame = "probing"
    /\ at >= Len(matches)
    /\ leftPos = Len(leftRows)
    /\ done' = TRUE
    /\ at' = 0
    /\ frame' = "idle"
    /\ UNCHANGED <<inputs, leftPos, rightPos, built, table, probe, matches, out>>

(* The left input is exhausted: Next returns false. *)
ProbeEnd ==
    /\ frame = "probing"
    /\ at >= Len(matches)
    /\ leftPos = Len(leftRows)
    /\ done' = TRUE
    /\ frame' = "idle"
    /\ UNCHANGED <<inputs, leftPos, rightPos, built, table, probe, matches, at, out>>

Build == BuildKeep \/ BuildDrop \/ BuildEnd
Probe == EmitMatch \/ ProbeHit \/ ProbeSkip \/ ProbeEnd
Next  == CallNext \/ Build \/ Probe

(* The operator runs on the consumer's goroutine, and the consumer drains it:
   a call that can take a step takes it. *)
Spec == Init /\ [][Next]_vars /\ WF_vars(Next)

-----------------------------------------------------------------------------
(* Properties *)

Keys == {RowKey(v) : v \in RowValues} \ {NoKey}

TypeOK ==
    /\ leftRows \in Seq(RowValues) /\ rightRows \in Seq(RowValues)
    /\ leftPos \in 0 .. Len(leftRows) /\ rightPos \in 0 .. Len(rightRows)
    /\ built \in BOOLEAN /\ done \in BOOLEAN
    /\ DOMAIN table \subseteq Keys
    /\ \A k \in DOMAIN table : table[k] \in Seq(1 .. rightPos)
    /\ probe \in 0 .. leftPos
    /\ matches \in Seq(1 .. Len(rightRows)) /\ at \in 0 .. Len(matches)
    /\ frame \in {"idle", "building", "probing"}
    /\ out \in Seq((1 .. Len(leftRows)) \X (1 .. Len(rightRows)))

\* ON a = b selects a pair: both keys evaluate, and Compare calls them equal.
JoinCondition(a, b) == a # NoValue /\ b # NoValue /\ Equal(a, b)

NLJ == INSTANCE NestedLoopJoin WITH Matches <- JoinCondition

(* The hash join implements the nested-loop join: the same pairs, each once,
   in the same order, and exhaustion only after the last of them. *)
NestedLoop == NLJ!Spec

(* Every pair Next returns joins two rows whose keys compare equal, as the
   comment on encodeKey promises (key.go:12-13). *)
EmittedPairsCompareEqual ==
    \A n \in DOMAIN out : JoinCondition(leftRows[out[n][1]], rightRows[out[n][2]])

(* The left input is streamed: when Next returns a pair, no row after the
   pair's left row was read, and none at all before the right input ended. *)
LeftIsStreamed ==
    /\ leftPos > 0 => rightPos = Len(rightRows)
    /\ frame = "idle" /\ ~done /\ out # <<>> => leftPos = out[Len(out)][1]

(* Exhaustion is final: once Next returned false no later call returns a row. *)
ExhaustionIsFinal == [][done => done' /\ out' = out]_vars

-----------------------------------------------------------------------------
(* The inductive invariant *)

\* The table is an index of the right rows read: under each key the positions
\* of the rows with that key, in order.
TableIsIndex ==
    /\ \A k \in DOMAIN table :
          /\ \A n \in DOMAIN table[k] : RowKey(rightRows[table[k][n]]) = k
          /\ \A m, n \in DOMAIN table[k] : m < n => table[k][m] < table[k][n]
    /\ \A r \in 1 .. rightPos :
          LET k == RowKey(rightRows[r])
          IN  k # NoKey => k \in DOMAIN table /\ \E n \in DOMAIN table[k] : table[k][n] = r

\* Nothing is probed before the table is complete.
BuildComesFirst ==
    /\ built => rightPos = Len(rightRows)
    /\ frame = "building" => ~built
    /\ frame = "probing" => built
    /\ ~built => leftPos = 0 /\ probe = 0 /\ matches = <<>> /\ out = <<>> /\ ~done

\* The probe row is the last left row with a key, and its matches are spent
\* before another row is read.
ProbeIsCurrent ==
    /\ probe = 0 => matches = <<>>
    /\ probe > 0 => LET k == RowKey(leftRows[probe])
                    IN  k # NoKey /\ matches = Lookup(table, k)
    /\ \A l \in probe + 1 .. leftPos : RowKey(leftRows[l]) = NoKey
    /\ leftPos > probe => at = Len(matches)
    /\ done => leftPos = Len(leftRows) /\ at = Len(matches)

KeysMeet(p) == /\ RowKey(leftRows[p[1]]) # NoKey
               /\ RowKey(leftRows[p[1]]) = RowKey(rightRows[p[2]])

\* The loop is past the pair p.
Passed(p) == \/ p[1] < probe
             \/ p[1] = probe /\ \E n \in 1 .. at : matches[n] = p[2]

\* Exactly the pairs of one key that the loop is past were returned, in order.
OutputIsPassed ==
    /\ \A n \in DOMAIN out : KeysMeet(out[n]) /\ Passed(out[n])
    /\ \A p \in (1 .. Len(leftRows)) \X (1 .. Len(rightRows)) :
          KeysMeet(p) /\ Passed(p) => \E n \in DOMAIN out : out[n] = p
    /\ \A m, n \in DOMAIN out : m < n => NLJ!Before(out[m], out[n])

(* The reason the join is right: the table indexes the right rows read, the
   probe row is the last left row with a key, and the output is exactly the
   pairs with one key up to the cursor. *)
IInv == TypeOK /\ TableIsIndex /\ BuildComesFirst /\ ProbeIsCurrent /\ OutputIsPassed

\* The planner joins columns of comparable types, and every INT key is one
\* that float64 represents.
ComparableInputs ==
    \A s \in LeftInputs, t \in RightInputs : \A l \in DOMAIN s, r \in DOMAIN t :
        s[l] = NoValue \/ t[r] = NoValue \/ Comparable(s[l], t[r])

ExactInputs ==
    \A s \in LeftInputs \cup RightInputs : \A n \in DOMAIN s :
        s[n] = NoValue \/ ExactKey(s[n])

(* Exhaustion means no match was missed: every pair of rows whose keys compare
   equal was returned, INTs beyond 2^53 included. *)
NoMatchMissed ==
    done => \A p \in NLJ!Joined : \E n \in DOMAIN out : out[n] = p
=============================================================================
