--------------------------- MODULE NestedLoopJoin ---------------------------
(***************************************************************************)
(* What an inner equi-join promises its consumer: the pairs of rows whose  *)
(* keys compare equal, each once, in the order of a nested loop over the   *)
(* left and then the right input, and then exhaustion.  HashJoin           *)
(* implements this with one pass over each input.                          *)
(*                                                                         *)
(* A row is its position in its input and is represented by its join key.  *)
(***************************************************************************)
EXTENDS Integers, Sequences

CONSTANTS
    LeftInputs,     \* the sequences of keys the left input may have
    RightInputs,    \* the sequences of keys the right input may have
    Matches(_, _)   \* the join condition: the keys compare equal

VARIABLES leftRows, rightRows, out, done

vars == <<leftRows, rightRows, out, done>>

Joined == {p \in (1 .. Len(leftRows)) \X (1 .. Len(rightRows)) :
              Matches(leftRows[p[1]], rightRows[p[2]])}

\* The order of a nested loop with the left input outside.
Before(p, q) == p[1] < q[1] \/ (p[1] = q[1] /\ p[2] < q[2])

Pending == {p \in Joined : \A n \in DOMAIN out : out[n] # p}

Init == /\ leftRows \in LeftInputs
        /\ rightRows \in RightInputs
        /\ out = <<>>
        /\ done = FALSE

\* Next returns the least pair not returned yet.
Deliver == /\ \E p \in Pending :
                 /\ \A q \in Pending : q = p \/ Before(p, q)
                 /\ out' = Append(out, p)
           /\ UNCHANGED <<leftRows, rightRows, done>>

\* Next reports exhaustion: every pair was returned.
Finish == /\ Pending = {}
          /\ done' = TRUE
          /\ UNCHANGED <<leftRows, rightRows, out>>

Next == Deliver \/ Finish

Spec == Init /\ [][Next]_vars /\ WF_vars(Next)
=============================================================================
