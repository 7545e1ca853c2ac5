---------------------------- MODULE SmallDomain ----------------------------
(* The reduced float64 and string domains the instances share: all halves up
   to FloatExact, then spacings of 2, 4 and 8 half units, one doubling each. *)
EXTENDS Values

SmallFloats == {h \in -8 * FloatExact .. 8 * FloatExact :
                   \/ h \in -FloatExact .. FloatExact
                   \/ h \in -2 * FloatExact .. 2 * FloatExact /\ h % 2 = 0
                   \/ h \in -4 * FloatExact .. 4 * FloatExact /\ h % 4 = 0
                   \/ h % 8 = 0}

\* Strings whose bytes look like the tags, lengths and words of a group key.
SmallTexts == << <<>>, <<0>>, <<1, 98>>, <<98, 1>>, <<98, 1, 115>>, <<105, 3>> >>
=============================================================================
