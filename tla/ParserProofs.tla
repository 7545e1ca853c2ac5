---------------------------- MODULE ParserProofs ----------------------------
(***************************************************************************)
(* The parser never looks past the EOF, and the depth of its calls is      *)
(* bounded by the tokens it has taken, for whatever tokens.                *)
(***************************************************************************)
EXTENDS Parser, ValuesProofs

-----------------------------------------------------------------------------
(* The cursor *)

CursorInv == toks \in Inputs /\ pos \in Nat /\ CursorInRange

\* A step of a parser that goes on leaves the cursor or takes one token that is
\* not the EOF.
Moves == /\ toks' = toks
         /\ Running
         /\ \/ pos' = pos
            \/ pos' = pos + 1 /\ (outcome' = "error" \/ ~Kind("eof"))

LEMMA ExpressionMoves ==
    ASSUME UNCHANGED toks,
           Unary \/ Operand \/ Operator \/ ParseExpr \/ Postfix \/ IsNot \/ IsNullEnd \/ Primary \/ Paren
             \/ Name \/ AggregateArg \/ AggregateEnd \/ ColumnName
    PROVE  Moves
<1>1. CASE Unary BY <1>1 DEF Unary, At, Keyword, Kind, Consume, Peek, Become, Moves
<1>2. CASE Operand BY <1>2 DEF Operand, At, Peek, Moves
<1>3. CASE Operator BY <1>3 DEF Operator, At, Binds, Keyword, Kind, Consume, Peek, Moves
<1>4. CASE Postfix BY <1>4 DEF Postfix, At, Keyword, Kind, Consume, Peek, Moves
<1>5. CASE IsNot BY <1>5 DEF IsNot, At, Keyword, Kind, Consume, Peek, Moves
<1>6. CASE IsNullEnd BY <1>6 DEF IsNullEnd, At, Keyword, Kind, Consume, Peek, Moves
<1>7. CASE Primary BY <1>7 DEF Primary, At, IsLiteral, Keyword, Kind, Consume, Error, Moves
<1>8. CASE Paren BY <1>8 DEF Paren, At, Kind, Consume, Peek, Moves
<1>9. CASE Name BY <1>9 DEF Name, At, Kind, Consume, Peek, Moves
<1>10. CASE AggregateArg BY <1>10 DEF AggregateArg, At, Kind, Consume, Peek, Moves
<1>11. CASE AggregateEnd BY <1>11 DEF AggregateEnd, At, Kind, Consume, Peek, Moves
<1>12. CASE ColumnName BY <1>12 DEF ColumnName, At, Kind, Consume, Error, Moves
<1>13. CASE ParseExpr BY <1>13 DEF ParseExpr, At, Peek, Moves
<1> QED BY <1>1, <1>2, <1>3, <1>4, <1>5, <1>6, <1>7, <1>8, <1>9, <1>10, <1>11, <1>12, <1>13

LEMMA StatementMoves ==
    ASSUME UNCHANGED toks,
           ExpectKeyword \/ Expression \/ ProjectStar \/ Projected \/ From
             \/ Joins \/ Join \/ JoinedTable \/ Joined
             \/ OptionalClause \/ Listed \/ Comma \/ Limit \/ End
    PROVE  Moves
<1>1. CASE ExpectKeyword BY <1>1 DEF ExpectKeyword, Keyword, Kind, Consume, Peek, Moves
<1>2. CASE Expression BY <1>2 DEF Expression, Peek, Moves
<1>3. CASE ProjectStar BY <1>3 DEF ProjectStar, At, Kind, Consume, Moves
<1>4. CASE Projected BY <1>4 DEF Projected, At, Kind, Consume, Peek, Moves
<1>5. CASE From BY <1>5 DEF From, At, Kind, Consume, Error, Moves
<1>6. CASE Joins BY <1>6 DEF Joins, At, Keyword, Kind, Consume, Peek, Moves
<1>7. CASE Join BY <1>7 DEF Join, At, Keyword, Kind, Consume, Peek, Moves
<1>8. CASE JoinedTable BY <1>8 DEF JoinedTable, At, Kind, Consume, Error, Moves
<1>9. CASE Joined BY <1>9 DEF Joined, At, Peek, Moves
<1>10. CASE OptionalClause BY <1>10 DEF OptionalClause, At, Keyword, Kind, Consume, Peek, Moves
<1>11. CASE Listed BY <1>11 DEF Listed, At, Keyword, Kind, Consume, Peek, Moves
<1>12. CASE Comma BY <1>12 DEF Comma, At, Kind, Consume, Peek, Moves
<1>13. CASE Limit BY <1>13 DEF Limit, At, Kind, Consume, Error, Moves
<1>14. CASE End BY <1>14 DEF End, At, Peek, Moves
<1> QED BY <1>1, <1>2, <1>3, <1>4, <1>5, <1>6, <1>7, <1>8, <1>9, <1>10, <1>11, <1>12, <1>13, <1>14

LEMMA NextMoves == ASSUME Next PROVE Moves
BY ExpressionMoves, StatementMoves DEF Next

LEMMA CursorInit == Init => CursorInv
<1> SUFFICES ASSUME Init PROVE CursorInv
    OBVIOUS
<1>1. toks \in Inputs /\ pos = 1
    BY DEF Init, New
<1>2. \A n \in DOMAIN toks : 1 <= n
    BY <1>1, InputsAssumption
<1> QED BY <1>1, <1>2 DEF CursorInv, CursorInRange

LEMMA CursorStep == CursorInv /\ [Next]_vars => CursorInv'
<1> SUFFICES ASSUME CursorInv, [Next]_vars PROVE CursorInv'
    OBVIOUS
<1>1. CASE Next
  <2>1. Moves
    BY <1>1, NextMoves
  <2>2. ASSUME outcome' = "running", NEW n \in DOMAIN toks, toks[n].kind = "eof"
        PROVE  pos' <= n
    <3>1. n \in Nat /\ pos <= n
      BY <2>1, <2>2, InputsAssumption DEF CursorInv, CursorInRange, Moves
    <3>2. CASE pos' = pos
      BY <3>1, <3>2
    <3>3. CASE pos' = pos + 1 /\ ~Kind("eof")
      BY <3>1, <3>3, <2>2 DEF CursorInv, Kind, Tok
    <3> QED BY <2>1, <2>2, <3>2, <3>3 DEF Moves
  <2>3. CursorInRange'
    BY <2>1, <2>2 DEF CursorInRange, Running, Moves
  <2> QED BY <2>1, <2>3 DEF CursorInv, Moves
<1>2. CASE UNCHANGED vars
  BY <1>2 DEF vars, CursorInv, CursorInRange, Running
<1> QED BY <1>1, <1>2

(* peek and next never index past the tokens, on any input that ends in its
   EOF, as those of the lexer do (parser.go:21-22). *)
THEOREM ParserStaysInRange == Spec => []CursorInRange
<1>1. CursorInv => CursorInRange
  BY DEF CursorInv
<1> QED BY CursorInit, CursorStep, <1>1, PTL DEF Spec

-----------------------------------------------------------------------------
(* The depth *)

LEMMA ConcatParts ==
    ASSUME NEW A, NEW s \in Seq(A), NEW t \in Seq(A)
    PROVE  /\ s \o t \in Seq(A) /\ Len(s \o t) = Len(s) + Len(t)
           /\ \A n \in 1 .. Len(s) : (s \o t)[n] = s[n]
           /\ \A n \in 1 .. Len(t) : (s \o t)[Len(s) + n] = t[n]
OBVIOUS

(* The last of a sequence's elements replaced by others. *)
Replaced(s, t) == SubSeq(s, 1, Len(s) - 1) \o t

LEMMA ReplaceLast ==
    ASSUME NEW A, NEW s \in Seq(A), Len(s) # 0, NEW t \in Seq(A)
    PROVE  /\ Replaced(s, t) \in Seq(A)
           /\ Len(Replaced(s, t)) = Len(s) - 1 + Len(t)
           /\ \A n \in 1 .. Len(s) - 1 : Replaced(s, t)[n] = s[n]
           /\ \A n \in 1 .. Len(t) : Replaced(s, t)[Len(s) - 1 + n] = t[n]
<1> DEFINE b == SubSeq(s, 1, Len(s) - 1)
<1> DEFINE m == Len(s) - 1
<1>0. m \in Int /\ m >= 0 /\ \A n \in 1 .. m : s[n] \in A
  OBVIOUS
<1>1. b \in Seq(A) /\ Len(b) = m
  <2> HIDE DEF m
  <2>1. SubSeq(s, 1, m) \in Seq(A) /\ Len(SubSeq(s, 1, m)) = IF 1 <= m THEN m - 1 + 1 ELSE 0
    BY <1>0, SubSeqProperties
  <2>2. Len(SubSeq(s, 1, m)) = m
    BY <1>0, <2>1
  <2> QED
    BY <2>1, <2>2 DEF m
<1>2. \A n \in 1 .. m : b[n] = s[n]
  BY SubSeqProperties
<1>3. Replaced(s, t) = b \o t
  BY DEF Replaced
<1> HIDE DEF b
<1>4. b \o t \in Seq(A) /\ Len(b \o t) = Len(b) + Len(t)
  BY <1>1, ConcatParts
<1>5. \A n \in 1 .. Len(b) : (b \o t)[n] = b[n]
  BY <1>1, ConcatParts
<1>6. \A n \in 1 .. Len(t) : (b \o t)[Len(b) + n] = t[n]
  BY <1>1, ConcatParts
<1> QED
  BY <1>1, <1>2, <1>3, <1>4, <1>5, <1>6

LEMMA AheadBounds == \A point : Ahead(point) \in 0 .. 5
BY DEF Ahead

\* What frames need: room above those below them.
Room(frames, below, cursor) ==
    /\ frames \in Seq(ToSet(frames))
    /\ \A n \in 1 .. Len(frames) :
          "at" \in DOMAIN frames[n] /\ below + n + Ahead(frames[n].at) <= 5 * cursor

LEMMA StackFacts ==
    ASSUME FramesInv
    PROVE  /\ Len(stack) \in Nat \ {0} /\ pos \in Nat
           /\ "at" \in DOMAIN Top
           /\ Len(stack) + Ahead(Top.at) <= 5 * pos
           /\ Len(stack) = 1 => Top.at \in Points
           /\ Ahead(Top.at) \in 0 .. 5
<1> DEFINE S == ToSet(stack)
<1>1. stack \in Seq(S) /\ stack # <<>> /\ pos \in Nat
  BY DEF FramesInv
<1> HIDE DEF S
<1>2. Len(stack) \in Nat \ {0} /\ DOMAIN stack = 1 .. Len(stack)
  BY <1>1, EmptySeq, SeqElements
<1>3. Len(stack) \in DOMAIN stack
  BY <1>2
<1> QED
  BY <1>1, <1>2, <1>3, AheadBounds DEF FramesInv, Top

(* The running call replaced by frames that have room. *)
LEMMA FramesReplaced ==
    ASSUME FramesInv, pos' \in Nat, pos' >= pos,
           NEW frames, Room(frames, Len(stack) - 1, pos'), stack' = Callers \o frames,
           Len(stack) = 1 => frames # <<>> /\ frames[1].at \in Points
    PROVE  FramesInv'
<1> DEFINE len == Len(stack) - 1
<1>1. stack \in Seq(ToSet(stack)) /\ stack # <<>> /\ frames \in Seq(ToSet(frames))
  BY DEF FramesInv, Room
<1>2. /\ len \in Nat /\ DOMAIN stack = 1 .. len + 1
      /\ stack' \in Seq(ToSet(stack'))
      /\ Len(frames) \in Nat /\ Len(stack') = len + Len(frames) /\ DOMAIN stack' = 1 .. Len(stack')
      /\ \A n \in 1 .. len : stack'[n] = stack[n]
      /\ \A n \in 1 .. Len(frames) : stack'[len + n] = frames[n]
  <2> DEFINE S == ToSet(stack)
             T == ToSet(frames)
             A == S \cup T
             r == Replaced(stack, frames)
  <2>1. stack \in Seq(S) /\ frames \in Seq(T) /\ S \subseteq A /\ T \subseteq A /\ stack # <<>>
    BY <1>1
  <2> HIDE DEF S, T, A
  <2>2. stack \in Seq(A) /\ frames \in Seq(A)
    BY <2>1, SeqWiden
  <2>3. Len(stack) \in Nat \ {0} /\ DOMAIN stack = 1 .. Len(stack) /\ Len(frames) \in Nat
    BY <2>1, EmptySeq, SeqElements
  <2>4. /\ r \in Seq(A) /\ Len(r) = Len(stack) - 1 + Len(frames)
        /\ \A n \in 1 .. Len(stack) - 1 : r[n] = stack[n]
        /\ \A n \in 1 .. Len(frames) : r[Len(stack) - 1 + n] = frames[n]
    <3>1. r \in Seq(A) /\ Len(r) = Len(stack) - 1 + Len(frames)
      BY <2>2, <2>3, ReplaceLast
    <3>2. \A n \in 1 .. Len(stack) - 1 : r[n] = stack[n]
      <4>1. Len(stack) # 0
        BY <2>3
      <4> QED
        BY <2>2, <4>1, ReplaceLast, Zenon
    <3>3. \A n \in 1 .. Len(frames) : r[Len(stack) - 1 + n] = frames[n]
      BY <2>2, <2>3, ReplaceLast
    <3> QED
      BY <3>1, <3>2, <3>3
  <2>5. stack' = r
    BY DEF Callers, Replaced
  <2> HIDE DEF r
  <2>6. r \in Seq(ToSet(r)) /\ DOMAIN r = 1 .. Len(r)
    BY <2>4, ElementsOf, SeqElements
  <2>7. len \in Nat /\ len + 1 = Len(stack) /\ len = Len(stack) - 1
    BY <2>3
  <2> HIDE DEF len
  <2> QED
    BY <2>3, <2>4, <2>5, <2>6, <2>7
<1>3. \A n \in 1 .. len + 1 : "at" \in DOMAIN stack[n] /\ n + Ahead(stack[n].at) <= 5 * pos
  BY <1>2 DEF FramesInv
<1>4. pos \in Nat /\ \A point : Ahead(point) \in 0 .. 5
  BY AheadBounds DEF FramesInv
<1>5. \A n \in 1 .. Len(frames) : "at" \in DOMAIN frames[n] /\ len + n + Ahead(frames[n].at) <= 5 * pos'
  BY DEF Room
<1>6. frames # <<>> => Len(frames) # 0
  BY <1>1, EmptySeq
<1> HIDE DEF len
<1>7. ASSUME NEW n \in DOMAIN stack'
      PROVE  "at" \in DOMAIN stack'[n] /\ n + Ahead(stack'[n].at) <= 5 * pos'
  <2>1. CASE n \in 1 .. len
    <3>1. n \in 1 .. len + 1 /\ stack'[n] = stack[n]
      BY <1>2, <2>1
    <3>2. "at" \in DOMAIN stack[n] /\ n + Ahead(stack[n].at) <= 5 * pos
      BY <1>3, <3>1
    <3>3. Ahead(stack[n].at) \in Nat
      BY <1>4
    <3> QED
      BY <1>4, <2>1, <3>1, <3>2, <3>3
  <2>2. CASE ~(n \in 1 .. len)
    <3>1. n - len \in 1 .. Len(frames) /\ n = len + (n - len)
      BY <1>2, <2>2
    <3> QED
      BY <1>2, <1>5, <3>1
  <2> QED
    BY <2>1, <2>2
<1>8. stack' # <<>> /\ stack'[1].at \in Points
  <2>1. CASE len = 0
    <3>1. frames # <<>> /\ frames[1].at \in Points
      BY <2>1 DEF len
    <3>2. 1 \in 1 .. Len(frames) /\ stack'[1] = frames[1]
      BY <1>2, <1>6, <2>1, <3>1
    <3>3. Len(stack') # 0
      BY <1>2, <2>1, <3>2
    <3> QED
      BY <1>2, <3>1, <3>2, <3>3, EmptySeq
  <2>2. CASE len # 0
    <3>1. 1 \in 1 .. len /\ stack'[1] = stack[1] /\ Len(stack') # 0
      BY <1>2, <2>2
    <3> QED
      BY <1>2, <3>1, EmptySeq DEF FramesInv
  <2> QED
    BY <2>1, <2>2
<1> QED
  BY <1>2, <1>7, <1>8 DEF FramesInv

LEMMA TupleFacts ==
    ASSUME NEW f, NEW g, NEW h
    PROVE  /\ <<f>> \in Seq(ToSet(<<f>>)) /\ Len(<<f>>) = 1 /\ <<f>> # <<>>
           /\ <<f, g>> \in Seq(ToSet(<<f, g>>)) /\ Len(<<f, g>>) = 2 /\ <<f, g>> # <<>>
           /\ <<f, g, h>> \in Seq(ToSet(<<f, g, h>>)) /\ Len(<<f, g, h>>) = 3 /\ <<f, g, h>> # <<>>
<1>1. <<f>> \in Seq({f, g, h}) /\ <<f, g>> \in Seq({f, g, h}) /\ <<f, g, h>> \in Seq({f, g, h})
  OBVIOUS
<1>2. <<f>> \in Seq(ToSet(<<f>>)) /\ <<f, g>> \in Seq(ToSet(<<f, g>>))
      /\ <<f, g, h>> \in Seq(ToSet(<<f, g, h>>))
  BY <1>1, ElementsOf
<1> QED
  BY <1>2

LEMMA RoomOfOne ==
    ASSUME NEW below \in Nat, NEW cursor \in Nat, NEW f, "at" \in DOMAIN f,
           below + 1 + Ahead(f.at) <= 5 * cursor
    PROVE  Room(<<f>>, below, cursor)
<1>1. <<f>> \in Seq(ToSet(<<f>>)) /\ Len(<<f>>) = 1 /\ <<f>>[1] = f
  BY TupleFacts
<1>2. ASSUME NEW n \in 1 .. Len(<<f>>)
      PROVE  "at" \in DOMAIN <<f>>[n] /\ below + n + Ahead(<<f>>[n].at) <= 5 * cursor
  <2>1. n = 1
    BY <1>1
  <2> QED
    BY <1>1, <2>1
<1> QED
  BY <1>1, <1>2 DEF Room

LEMMA RoomOfTwo ==
    ASSUME NEW below \in Nat, NEW cursor \in Nat,
           NEW f, "at" \in DOMAIN f, below + 1 + Ahead(f.at) <= 5 * cursor,
           NEW g, "at" \in DOMAIN g, below + 2 + Ahead(g.at) <= 5 * cursor
    PROVE  Room(<<f, g>>, below, cursor)
<1>1. /\ <<f, g>> \in Seq(ToSet(<<f, g>>)) /\ Len(<<f, g>>) = 2
      /\ <<f, g>>[1] = f /\ <<f, g>>[2] = g
  BY TupleFacts
<1>2. ASSUME NEW n \in 1 .. Len(<<f, g>>)
      PROVE  "at" \in DOMAIN <<f, g>>[n] /\ below + n + Ahead(<<f, g>>[n].at) <= 5 * cursor
  <2>1. n = 1 \/ n = 2
    BY <1>1
  <2> QED
    BY <1>1, <2>1
<1> QED
  BY <1>1, <1>2 DEF Room

LEMMA RoomOfThree ==
    ASSUME NEW below \in Nat, NEW cursor \in Nat,
           NEW f, "at" \in DOMAIN f, below + 1 + Ahead(f.at) <= 5 * cursor,
           NEW g, "at" \in DOMAIN g, below + 2 + Ahead(g.at) <= 5 * cursor,
           NEW h, "at" \in DOMAIN h, below + 3 + Ahead(h.at) <= 5 * cursor
    PROVE  Room(<<f, g, h>>, below, cursor)
<1>1. /\ <<f, g, h>> \in Seq(ToSet(<<f, g, h>>)) /\ Len(<<f, g, h>>) = 3
      /\ <<f, g, h>>[1] = f /\ <<f, g, h>>[2] = g /\ <<f, g, h>>[3] = h
  BY TupleFacts
<1>2. ASSUME NEW n \in 1 .. Len(<<f, g, h>>)
      PROVE  /\ "at" \in DOMAIN <<f, g, h>>[n]
             /\ below + n + Ahead(<<f, g, h>>[n].at) <= 5 * cursor
  <2>1. n = 1 \/ n = 2 \/ n = 3
    BY <1>1
  <2> QED
    BY <1>1, <2>1
<1> QED
  BY <1>1, <1>2 DEF Room

\* A frame and those it calls.
LEMMA RoomAbove ==
    ASSUME NEW below \in Nat, NEW cursor \in Nat,
           NEW f, "at" \in DOMAIN f, below + 1 + Ahead(f.at) <= 5 * cursor,
           NEW calls, Room(calls, below + 1, cursor)
    PROVE  /\ Room(<<f>> \o calls, below, cursor)
           /\ <<f>> \o calls # <<>> /\ (<<f>> \o calls)[1] = f
<1> DEFINE A == {f} \cup ToSet(calls)
<1>1. PICK r : r = <<f>>
  OBVIOUS
<1>2. r \in Seq({f}) /\ Len(r) = 1 /\ r[1] = f
  BY <1>1
<1>3. calls \in Seq(ToSet(calls))
  BY DEF Room
<1>4. {f} \subseteq A /\ ToSet(calls) \subseteq A
  OBVIOUS
<1> HIDE DEF A
<1>5. r \in Seq(A) /\ calls \in Seq(A)
  BY <1>2, <1>3, <1>4, SeqWiden
<1>6. PICK s : s = r \o calls
  OBVIOUS
<1>7. /\ s \in Seq(A) /\ Len(s) = 1 + Len(calls) /\ Len(calls) \in Nat
      /\ s[1] = f /\ \A n \in 1 .. Len(calls) : s[1 + n] = calls[n]
  <2>1. s \in Seq(A) /\ Len(s) = Len(r) + Len(calls)
    BY <1>5, <1>6, ConcatParts
  <2>2. /\ \A n \in 1 .. Len(r) : s[n] = r[n]
        /\ \A n \in 1 .. Len(calls) : s[Len(r) + n] = calls[n]
    BY <1>5, <1>6, ConcatParts
  <2>3. 1 \in 1 .. Len(r) /\ Len(calls) \in Nat
    BY <1>2, <1>5
  <2> QED
    BY <1>2, <2>1, <2>2, <2>3
<1>8. s \in Seq(ToSet(s)) /\ s # <<>>
  BY <1>7, ElementsOf, EmptySeq
<1>9. ASSUME NEW n \in 1 .. Len(s)
      PROVE  "at" \in DOMAIN s[n] /\ below + n + Ahead(s[n].at) <= 5 * cursor
  <2>1. CASE n = 1
    BY <1>7, <2>1
  <2>2. CASE n # 1
    <3>1. n - 1 \in 1 .. Len(calls) /\ n = 1 + (n - 1)
      BY <1>7, <2>2
    <3>2. s[n] = calls[n - 1]
      BY <1>7, <3>1
    <3>3. "at" \in DOMAIN calls[n - 1] /\ below + 1 + (n - 1) + Ahead(calls[n - 1].at) <= 5 * cursor
      BY <3>1 DEF Room
    <3>4. Ahead(calls[n - 1].at) \in 0 .. 5
      BY AheadBounds
    <3> QED
      BY <3>1, <3>2, <3>3, <3>4
  <2> QED
    BY <2>1, <2>2
<1>10. Room(s, below, cursor)
  BY <1>8, <1>9 DEF Room
<1> QED
  BY <1>1, <1>6, <1>7, <1>8, <1>10

\* parseBinary and what it calls before a token is taken: four frames.
LEMMA CallRoom ==
    ASSUME NEW min, NEW below \in Nat, NEW cursor \in Nat, below + 4 <= 5 * cursor
    PROVE  Room(Call(min), below, cursor)
<1>1. PICK g : g = [at |-> "operator", min |-> min, op |-> "", left |-> None]
  OBVIOUS
<1>2. PICK h : h = [at |-> "unary"]
  OBVIOUS
<1>3. /\ "at" \in DOMAIN g /\ Ahead(g.at) = 0
      /\ "at" \in DOMAIN h /\ Ahead(h.at) = 2
  BY <1>1, <1>2 DEF Ahead, After
<1>4. Call(min) = <<g, h>>
  BY <1>1, <1>2 DEF Call
<1> QED
  BY <1>3, <1>4, RoomOfTwo

\* ParseExpr has one more.
LEMMA CallExprRoom ==
    ASSUME NEW below \in Nat, NEW cursor \in Nat, below + 5 <= 5 * cursor
    PROVE  /\ Room(CallExpr, below, cursor)
           /\ CallExpr # <<>> /\ CallExpr[1].at = "expression"
<1>1. PICK f : f = [at |-> "expression"]
  OBVIOUS
<1>2. "at" \in DOMAIN f /\ f.at = "expression" /\ Ahead(f.at) = 0
  BY <1>1 DEF Ahead, After
<1>3. Room(Call(1), below + 1, cursor)
  BY CallRoom
<1>4. CallExpr = <<f>> \o Call(1)
  BY <1>1 DEF CallExpr
<1> QED
  BY <1>2, <1>3, <1>4, RoomAbove

\* What a step may do to the stack, given what it does to the cursor.
Steps == pos' = pos \/ pos' = pos + 1

LEMMA StackKept ==
    ASSUME FramesInv, Steps, stack' = stack
    PROVE  FramesInv'
<1>1. pos \in Nat /\ pos' \in Nat /\ pos' >= pos
  BY DEF FramesInv, Steps
<1>2. ASSUME NEW n \in DOMAIN stack
      PROVE  "at" \in DOMAIN stack[n] /\ n + Ahead(stack[n].at) <= 5 * pos'
  <2> DEFINE S == ToSet(stack)
  <2>1. stack \in Seq(S)
    BY DEF FramesInv
  <2> HIDE DEF S
  <2>2. n \in Nat
    BY <2>1
  <2>3. Ahead(stack[n].at) \in Nat
    BY AheadBounds
  <2>4. "at" \in DOMAIN stack[n] /\ n + Ahead(stack[n].at) <= 5 * pos
    BY DEF FramesInv
  <2> QED
    BY <1>1, <2>2, <2>3, <2>4
<1> QED
  BY <1>1, <1>2 DEF FramesInv

LEMMA CallReturns ==
    ASSUME FramesInv, Steps, Len(stack) # 1, stack' = Callers
    PROVE  FramesInv'
<1>1. pos' \in Nat /\ pos' >= pos
  BY DEF FramesInv, Steps
<1>2. Room(<<>>, Len(stack) - 1, pos')
  BY EmptySeq DEF Room
<1>3. stack' = Callers \o <<>>
  <2> DEFINE S == ToSet(stack)
  <2>1. stack \in Seq(S)
    BY DEF FramesInv
  <2> HIDE DEF S
  <2>2. Len(stack) \in Nat \ {0}
    BY StackFacts
  <2>3. Callers \in Seq(S)
    <3> DEFINE m == Len(stack) - 1
    <3>1. m \in Int /\ \A n \in 1 .. m : stack[n] \in S
      BY <2>1, <2>2, SeqElements
    <3> HIDE DEF m
    <3>2. SubSeq(stack, 1, m) \in Seq(S)
      BY <3>1, SubSeqProperties
    <3> QED
      BY <3>2 DEF m, Callers
  <2> QED
    BY <2>3, ConcatEmptySeq
<1> QED
  BY <1>1, <1>2, <1>3, FramesReplaced

LEMMA OneFrame ==
    ASSUME FramesInv, Steps, NEW f, "at" \in DOMAIN f, stack' = Callers \o <<f>>,
           pos' = pos + 1 \/ Ahead(f.at) = 0,
           Len(stack) = 1 => f.at \in Points
    PROVE  FramesInv'
<1>1. pos' \in Nat /\ pos' >= pos
  BY DEF FramesInv, Steps
<1>2. Len(stack) - 1 + 1 + Ahead(f.at) <= 5 * pos'
  <2>1. Len(stack) \in Nat /\ pos \in Nat /\ Len(stack) <= 5 * pos /\ Ahead(f.at) \in 0 .. 5
    BY StackFacts, AheadBounds
  <2> QED
    BY <2>1 DEF Steps
<1>3. Room(<<f>>, Len(stack) - 1, pos')
  BY <1>1, <1>2, StackFacts, RoomOfOne
<1>4. <<f>> # <<>> /\ <<f>>[1] = f
  OBVIOUS
<1> QED
  BY <1>1, <1>3, <1>4, FramesReplaced

\* parseUnary after a sign.
LEMMA TwoFrames ==
    ASSUME FramesInv, NEW f, NEW g, stack' = Callers \o <<f, g>>,
           "at" \in DOMAIN f, Ahead(f.at) = 0, "at" \in DOMAIN g, Ahead(g.at) = 2,
           pos' = pos + 1, Len(stack) # 1
    PROVE  FramesInv'
<1>1. /\ Len(stack) \in Nat \ {0} /\ pos \in Nat /\ Len(stack) + Ahead(Top.at) <= 5 * pos
      /\ Ahead(Top.at) \in 0 .. 5
  BY StackFacts
<1>2. Len(stack) - 1 \in Nat /\ pos' \in Nat /\ pos' >= pos
  BY <1>1
<1>3. /\ Len(stack) - 1 + 1 + Ahead(f.at) <= 5 * pos'
      /\ Len(stack) - 1 + 2 + Ahead(g.at) <= 5 * pos'
  BY <1>1
<1>4. Room(<<f, g>>, Len(stack) - 1, pos')
  BY <1>2, <1>3, RoomOfTwo
<1> QED
  BY <1>2, <1>4, FramesReplaced

\* parseUnary without one.
LEMMA ThreeFrames ==
    ASSUME FramesInv, NEW f, NEW g, NEW h, stack' = Callers \o <<f, g, h>>,
           "at" \in DOMAIN f, Ahead(f.at) = 0, "at" \in DOMAIN g, Ahead(g.at) = 0,
           "at" \in DOMAIN h, Ahead(h.at) = 0,
           pos' = pos, Ahead(Top.at) = 2, Len(stack) # 1
    PROVE  FramesInv'
<1>1. Len(stack) \in Nat \ {0} /\ pos \in Nat /\ Len(stack) + 2 <= 5 * pos
  BY StackFacts
<1>2. Len(stack) - 1 \in Nat /\ pos' \in Nat /\ pos' >= pos
  BY <1>1
<1>3. /\ Len(stack) - 1 + 1 + Ahead(f.at) <= 5 * pos'
      /\ Len(stack) - 1 + 2 + Ahead(g.at) <= 5 * pos'
      /\ Len(stack) - 1 + 3 + Ahead(h.at) <= 5 * pos'
  BY <1>1
<1>4. Room(<<f, g, h>>, Len(stack) - 1, pos')
  BY <1>2, <1>3, RoomOfThree
<1> QED
  BY <1>2, <1>4, FramesReplaced

\* A call after which f goes on: of parseBinary when an operator was taken, of
\* ParseExpr when a token was taken or room was kept.
LEMMA Calls ==
    ASSUME FramesInv, Steps, NEW f, NEW min, NEW calls, stack' = Callers \o (<<f>> \o calls),
           "at" \in DOMAIN f, Ahead(f.at) = 0, Len(stack) = 1 => f.at \in Points,
           \/ calls = Call(min) /\ pos' = pos + 1
           \/ calls = CallExpr /\ (pos' = pos + 1 \/ Ahead(Top.at) = 5)
    PROVE  FramesInv'
<1>1. pos' \in Nat /\ pos' >= pos
  BY DEF FramesInv, Steps
<1>2. /\ Len(stack) \in Nat \ {0} /\ pos \in Nat /\ Len(stack) + Ahead(Top.at) <= 5 * pos
      /\ Ahead(Top.at) \in 0 .. 5
  BY StackFacts
<1>3. pos' = pos + 1 \/ (pos' = pos /\ Ahead(Top.at) = 5)
  BY DEF Steps
<1>4. PICK below, cursor : below = Len(stack) - 1 /\ cursor = pos'
  OBVIOUS
<1>5. below \in Nat /\ cursor \in Nat /\ below + 1 + 5 <= 5 * cursor
  BY <1>1, <1>2, <1>3, <1>4
<1>6. below + 1 \in Nat /\ below + 1 + 4 <= 5 * cursor
  BY <1>5
<1>7. below + 1 + Ahead(f.at) <= 5 * cursor
  BY <1>5
<1>8. Room(calls, below + 1, cursor)
  BY <1>5, <1>6, CallRoom, CallExprRoom
<1>9. Room(<<f>> \o calls, below, cursor) /\ <<f>> \o calls # <<>> /\ (<<f>> \o calls)[1] = f
  BY <1>5, <1>7, <1>8, RoomAbove
<1> QED
  BY <1>1, <1>4, <1>9, FramesReplaced

\* The frame that goes on at another point.
LEMMA GotoFacts ==
    ASSUME FramesInv, NEW point
    PROVE  "at" \in DOMAIN Goto(point) /\ Goto(point).at = point
BY StackFacts DEF Goto

\* A frame that is not at a point of the first call is not the first.
LEMMA InnerCall ==
    ASSUME FramesInv, Top.at \notin Points
    PROVE  Len(stack) # 1
BY StackFacts

LEMMA AheadTable ==
    /\ Ahead("unary") = 2 /\ Ahead("call") = 5
    /\ \A point \in DOMAIN After : Ahead(point) = 5
    /\ \A point \in {"operand", "operator", "postfix", "primary", "IS", "NULL", "paren", "name",
                     "close", "field", "projected", "FROM", "table", "joins", "JOIN",
                     "joined table", "ON", "joined", "clause", "BY", "listed", "comma", "count",
                     "end"} : Ahead(point) = 0
    /\ \A point \in {"unary", "call", "operand", "operator", "postfix", "primary", "IS", "NULL",
                     "paren", "name", "close", "field"} : point \notin Points
BY DEF Ahead, After, Points

LEMMA ExpressionFrames ==
    ASSUME FramesInv, Steps,
           Unary \/ Operand \/ Operator \/ ParseExpr \/ Postfix \/ IsNot \/ IsNullEnd \/ Primary \/ Paren
             \/ Name \/ AggregateArg \/ AggregateEnd \/ ColumnName
    PROVE  FramesInv'
<1>1. CASE Unary
  <2>1. Len(stack) # 1 /\ Ahead(Top.at) = 2
    BY <1>1, AheadTable, InnerCall DEF Unary, At
  <2>2. CASE Consume /\ Become(<< Waiting(Tok.text), [at |-> "unary"] >>)
    <3>1. PICK f : f = Waiting(Tok.text)
      OBVIOUS
    <3>2. PICK g : g = [at |-> "unary"]
      OBVIOUS
    <3>3. "at" \in DOMAIN f /\ Ahead(f.at) = 0 /\ "at" \in DOMAIN g /\ Ahead(g.at) = 2
      BY <3>1, <3>2, AheadTable DEF Waiting
    <3> QED BY <2>1, <2>2, <3>1, <3>2, <3>3, TwoFrames DEF Become, Consume
  <2>3. CASE Peek /\ Become(<< Waiting(""), [at |-> "postfix"], [at |-> "primary"] >>)
    <3>1. PICK f : f = Waiting("")
      OBVIOUS
    <3>2. PICK g : g = [at |-> "postfix"]
      OBVIOUS
    <3>3. PICK h : h = [at |-> "primary"]
      OBVIOUS
    <3>4. /\ "at" \in DOMAIN f /\ Ahead(f.at) = 0 /\ "at" \in DOMAIN g /\ Ahead(g.at) = 0
          /\ "at" \in DOMAIN h /\ Ahead(h.at) = 0
      BY <3>1, <3>2, <3>3, AheadTable DEF Waiting
    <3> QED BY <2>1, <2>3, <3>1, <3>2, <3>3, <3>4, ThreeFrames DEF Become, Peek
  <2> QED BY <1>1, <2>2, <2>3 DEF Unary
<1>2. CASE Operand
  BY <1>2, AheadTable, InnerCall, CallReturns DEF Operand, At, Return
<1>3. CASE Operator
  <2>1. PICK left : left = IF Top.op = "" THEN result ELSE BinaryExpr(Top.op, Top.left, result)
    OBVIOUS
  <2>2. Top.at = "operator" /\ Len(stack) # 1
    BY <1>3, AheadTable, InnerCall DEF Operator, At
  <2>3. CASE /\ Consume
             /\ Become(<< [Top EXCEPT !.op = Tok.text, !.left = left] >> \o Call(RightMin(Tok.text)))
    <3>1. PICK f : f = [Top EXCEPT !.op = Tok.text, !.left = left]
      OBVIOUS
    <3>2. "at" \in DOMAIN f /\ Ahead(f.at) = 0
      BY <2>2, <3>1, StackFacts, AheadTable
    <3> QED BY <2>2, <2>3, <3>1, <3>2, Calls DEF Become, Consume
  <2>4. CASE Return(left)
    BY <2>2, <2>4, CallReturns DEF Return
  <2> QED BY <1>3, <2>1, <2>3, <2>4 DEF Operator
<1>4. CASE Postfix
  <2>1. Len(stack) # 1
    BY <1>4, AheadTable, InnerCall DEF Postfix, At
  <2>2. CASE Become(<< [at |-> "IS", arg |-> result] >>)
    <3>1. PICK f : f = [at |-> "IS", arg |-> result]
      OBVIOUS
    <3>2. "at" \in DOMAIN f /\ Ahead(f.at) = 0
      BY <3>1, AheadTable
    <3> QED BY <2>1, <2>2, <3>1, <3>2, OneFrame DEF Become
  <2>3. CASE Return(result)
    BY <2>1, <2>3, CallReturns DEF Return
  <2> QED BY <1>4, <2>2, <2>3 DEF Postfix
<1>5. CASE IsNot
  <2>1. Len(stack) # 1
    BY <1>5, AheadTable, InnerCall DEF IsNot, At
  <2>2. PICK f : f = [at |-> "NULL", arg |-> Top.arg, negate |-> Keyword("NOT")]
    OBVIOUS
  <2>3. "at" \in DOMAIN f /\ Ahead(f.at) = 0
    BY <2>2, AheadTable
  <2> QED BY <1>5, <2>1, <2>2, <2>3, OneFrame DEF IsNot, Become
<1>6. CASE IsNullEnd
  <2>1. Len(stack) # 1
    BY <1>6, AheadTable, InnerCall DEF IsNullEnd, At
  <2> QED BY <1>6, <2>1, CallReturns, StackKept DEF IsNullEnd, Return, Error
<1>7. CASE Primary
  <2>1. Len(stack) # 1 /\ pos' = pos + 1
    BY <1>7, AheadTable, InnerCall DEF Primary, At, Consume
  <2>2. CASE Become(<< [at |-> "paren"] >> \o CallExpr)
    <3>1. PICK f : f = [at |-> "paren"]
      OBVIOUS
    <3>2. "at" \in DOMAIN f /\ Ahead(f.at) = 0
      BY <3>1, AheadTable
    <3> QED BY <2>1, <2>2, <3>1, <3>2, Calls DEF Become
  <2>3. CASE Become(<< [at |-> "name", name |-> Tok.text] >>)
    <3>1. PICK f : f = [at |-> "name", name |-> Tok.text]
      OBVIOUS
    <3>2. "at" \in DOMAIN f /\ Ahead(f.at) = 0
      BY <3>1, AheadTable
    <3> QED BY <2>1, <2>3, <3>1, <3>2, OneFrame DEF Become
  <2>4. CASE Return(Literal(LiteralValue))
    BY <2>1, <2>4, CallReturns DEF Return
  <2>5. CASE Error
    BY <2>5, StackKept DEF Error
  <2> QED BY <1>7, <2>2, <2>3, <2>4, <2>5 DEF Primary
<1>8. CASE Paren
  <2>1. Len(stack) # 1
    BY <1>8, AheadTable, InnerCall DEF Paren, At
  <2> QED BY <1>8, <2>1, CallReturns, StackKept DEF Paren, Return, Error
<1>9. CASE Name
  <2>1. Len(stack) # 1
    BY <1>9, AheadTable, InnerCall DEF Name, At
  <2>2. CASE Consume /\ Become(<< [at |-> "call", name |-> Upper[Top.name]] >>)
    <3>1. PICK f : f = [at |-> "call", name |-> Upper[Top.name]]
      OBVIOUS
    <3>2. "at" \in DOMAIN f
      BY <3>1
    <3> QED BY <2>1, <2>2, <3>1, <3>2, OneFrame DEF Become, Consume
  <2>3. CASE Become(<< [at |-> "field", table |-> Top.name] >>)
    <3>1. PICK f : f = [at |-> "field", table |-> Top.name]
      OBVIOUS
    <3>2. "at" \in DOMAIN f /\ Ahead(f.at) = 0
      BY <3>1, AheadTable
    <3> QED BY <2>1, <2>3, <3>1, <3>2, OneFrame DEF Become
  <2>4. CASE Return(ColumnRef(Unqualified, Top.name))
    BY <2>1, <2>4, CallReturns DEF Return
  <2> QED BY <1>9, <2>2, <2>3, <2>4 DEF Name, Kind
<1>10. CASE AggregateArg
  <2>1. Len(stack) # 1 /\ Ahead(Top.at) = 5
    BY <1>10, AheadTable, InnerCall DEF AggregateArg, At
  <2>2. CASE Become(<< [at |-> "close", name |-> Top.name, star |-> TRUE] >>)
    <3>1. PICK f : f = [at |-> "close", name |-> Top.name, star |-> TRUE]
      OBVIOUS
    <3>2. "at" \in DOMAIN f /\ Ahead(f.at) = 0
      BY <3>1, AheadTable
    <3> QED BY <2>1, <2>2, <3>1, <3>2, OneFrame DEF Become
  <2>3. CASE Become(<< [at |-> "close", name |-> Top.name, star |-> FALSE] >> \o CallExpr)
    <3>1. PICK f : f = [at |-> "close", name |-> Top.name, star |-> FALSE]
      OBVIOUS
    <3>2. "at" \in DOMAIN f /\ Ahead(f.at) = 0
      BY <3>1, AheadTable
    <3> QED BY <2>1, <2>3, <3>1, <3>2, Calls DEF Become
  <2>4. CASE Error
    BY <2>4, StackKept DEF Error
  <2> QED BY <1>10, <2>2, <2>3, <2>4 DEF AggregateArg, Kind
<1>11. CASE AggregateEnd
  <2>1. Len(stack) # 1
    BY <1>11, AheadTable, InnerCall DEF AggregateEnd, At
  <2> QED BY <1>11, <2>1, CallReturns, StackKept DEF AggregateEnd, Return, Error
<1>12. CASE ColumnName
  <2>1. Len(stack) # 1
    BY <1>12, AheadTable, InnerCall DEF ColumnName, At
  <2> QED BY <1>12, <2>1, CallReturns, StackKept DEF ColumnName, Return, Error
<1>13. CASE ParseExpr
  BY <1>13, CallReturns, StackKept DEF ParseExpr, Return
<1> QED BY <1>1, <1>2, <1>3, <1>4, <1>5, <1>6, <1>7, <1>8, <1>9, <1>10, <1>11, <1>12, <1>13

\* The call of ParseSelect goes on at another of its points.
LEMMA GoesOn ==
    ASSUME FramesInv, Steps, NEW point \in Points, stack' = Callers \o <<Goto(point)>>,
           pos' = pos + 1 \/ Ahead(point) = 0
    PROVE  FramesInv'
<1>1. PICK f : f = Goto(point)
  OBVIOUS
<1>2. "at" \in DOMAIN f /\ f.at = point
  BY <1>1, GotoFacts
<1> QED
  BY <1>1, <1>2, OneFrame

LEMMA PointsTable ==
    /\ DOMAIN Then \subseteq Points /\ \A kw \in DOMAIN Then : Then[kw] \in Points
    /\ \A point \in DOMAIN After : point \in Points /\ After[point] \in Points /\ Ahead(After[point]) = 0
    /\ \A kw : Begins(kw) \in Points
    /\ {"projected", "projection", "FROM", "joins", "JOIN", "joined table", "ON", "clause", "item",
        "comma", "end", "count"} \subseteq Points
<1>1. DOMAIN Then \subseteq Points /\ \A kw \in DOMAIN Then : Then[kw] \in Points
  <2>1. DOMAIN Then \subseteq Points
    BY DEF Then, Points
  <2>2. ASSUME NEW kw \in DOMAIN Then
        PROVE  Then[kw] \in Points
    <3>1. kw \in {"SELECT", "FROM", "ON", "BY"}
      BY DEF Then
    <3>2. Then[kw] \in {"projection", "table", "condition", "item"}
      BY <3>1 DEF Then
    <3> QED
      BY <3>2 DEF Points
  <2> QED
    BY <2>1, <2>2
<1>2. ASSUME NEW point \in DOMAIN After
      PROVE  point \in Points /\ After[point] \in Points /\ Ahead(After[point]) = 0
  <2>1. point \in {"projection", "condition", "item"}
    BY DEF After
  <2>2. After[point] \in {"projected", "joined", "listed"}
    BY <2>1 DEF After
  <2> QED
    BY <2>1, <2>2, AheadTable DEF Points
<1>3. ASSUME NEW kw
      PROVE  Begins(kw) \in Points
  <2>1. Begins(kw) \in {"item", "BY", "count"}
    BY DEF Begins
  <2> QED
    BY <2>1 DEF Points
<1>4. {"projected", "projection", "FROM", "joins", "JOIN", "joined table", "ON", "clause", "item",
       "comma", "end", "count"} \subseteq Points
  BY DEF Points
<1> QED
  BY <1>1, <1>2, <1>3, <1>4

LEMMA ClauseFacts == ASSUME NEW kw PROVE "at" \in DOMAIN Clause(kw) /\ Clause(kw).at = "clause"
BY DEF Clause

LEMMA NextClauseFrames ==
    ASSUME FramesInv, Steps, stack' = Callers \o NextClause
    PROVE  FramesInv'
<1>1. CASE Top.kw = "LIMIT"
  BY <1>1, GoesOn, PointsTable, AheadTable DEF NextClause
<1>2. CASE Top.kw # "LIMIT"
  <2>1. PICK f : f = Clause(Follows[Top.kw])
    OBVIOUS
  <2>2. "at" \in DOMAIN f /\ f.at = "clause"
    BY <2>1, ClauseFacts
  <2>3. Ahead("clause") = 0 /\ "clause" \in Points
    BY PointsTable, AheadTable
  <2>4. stack' = Callers \o <<f>>
    BY <1>2, <2>1 DEF NextClause
  <2> QED
    BY <2>2, <2>3, <2>4, OneFrame
<1> QED
  BY <1>1, <1>2

LEMMA StatementFrames ==
    ASSUME FramesInv, Steps,
           ExpectKeyword \/ Expression \/ ProjectStar \/ Projected \/ From
             \/ Joins \/ Join \/ JoinedTable \/ Joined
             \/ OptionalClause \/ Listed \/ Comma \/ Limit \/ End
    PROVE  FramesInv'
<1>0. CASE stack' = stack
  BY <1>0, StackKept
<1>1. CASE ExpectKeyword
  <2>1. PICK point : point = Then[Top.at]
    OBVIOUS
  <2>2. point \in Points
    BY <1>1, <2>1, PointsTable DEF ExpectKeyword
  <2> QED BY <1>0, <1>1, <2>1, <2>2, GoesOn DEF ExpectKeyword, Become, Consume, Error
<1>2. CASE Expression
  <2>1. Top.at \in DOMAIN After /\ stack' = Callers \o (<< Goto(After[Top.at]) >> \o CallExpr)
    BY <1>2 DEF Expression, Become
  <2>2. PICK f : f = Goto(After[Top.at])
    OBVIOUS
  <2>3. "at" \in DOMAIN f /\ f.at = After[Top.at]
    BY <2>2, GotoFacts
  <2>4. f.at \in Points /\ Ahead(f.at) = 0 /\ Ahead(Top.at) = 5
    BY <2>1, <2>3, PointsTable, AheadTable
  <2> QED BY <2>1, <2>2, <2>3, <2>4, Calls
<1>3. CASE ProjectStar
  BY <1>3, GoesOn, PointsTable DEF ProjectStar, Consume
<1>4. CASE Projected
  BY <1>4, GoesOn, PointsTable, AheadTable DEF Projected, Build, Consume
<1>5. CASE From
  BY <1>0, <1>5, GoesOn, PointsTable DEF From, Build, Consume, Error
<1>6. CASE Joins
  <2>1. CASE stack' = Callers \o << Goto("JOIN") >>
    BY <2>1, GoesOn, PointsTable, AheadTable
  <2>2. CASE stack' = Callers \o << Clause("WHERE") >>
    <3>1. PICK f : f = Clause("WHERE")
      OBVIOUS
    <3>2. "at" \in DOMAIN f /\ f.at = "clause"
      BY <3>1, ClauseFacts
    <3> QED BY <2>2, <3>1, <3>2, OneFrame, PointsTable, AheadTable
  <2> QED BY <1>6, <2>1, <2>2 DEF Joins, Become
<1>7. CASE Join
  BY <1>0, <1>7, GoesOn, PointsTable, AheadTable DEF Join, Become, Error
<1>8. CASE JoinedTable
  <2>1. CASE Become(<< [at |-> "ON", table |-> Tok.text] >>)
    <3>1. PICK f : f = [at |-> "ON", table |-> Tok.text]
      OBVIOUS
    <3>2. "at" \in DOMAIN f /\ f.at = "ON"
      BY <3>1
    <3> QED BY <2>1, <3>1, <3>2, OneFrame, PointsTable, AheadTable DEF Become
  <2> QED BY <1>0, <1>8, <2>1 DEF JoinedTable, Error
<1>9. CASE Joined
  BY <1>9, GoesOn, PointsTable, AheadTable DEF Joined, Build
<1>10. CASE OptionalClause
  <2>1. CASE ~Keyword(Top.kw)
    BY <1>10, <2>1, NextClauseFrames DEF OptionalClause, Become
  <2>2. CASE Keyword(Top.kw)
    <3>1. PICK point : point = Begins(Top.kw)
      OBVIOUS
    <3>2. pos' = pos + 1 /\ stack' = Callers \o << Goto(point) >>
      BY <1>10, <2>2, <3>1 DEF OptionalClause, Become, Consume
    <3>3. point \in Points
      BY <3>1, PointsTable
    <3> QED BY <3>2, <3>3, GoesOn
  <2> QED BY <2>1, <2>2
<1>11. CASE Listed
  BY <1>11, GoesOn, PointsTable, AheadTable DEF Listed, Build
<1>12. CASE Comma
  <2>1. CASE Consume /\ Become(<< Goto("item") >>)
    BY <2>1, GoesOn, PointsTable DEF Become, Consume
  <2>2. CASE Become(NextClause)
    BY <2>2, NextClauseFrames DEF Become
  <2> QED BY <1>12, <2>1, <2>2 DEF Comma
<1>13. CASE Limit
  BY <1>0, <1>13, GoesOn, PointsTable DEF Limit, Build, Consume, Error
<1>14. CASE End
  BY <1>0, <1>14 DEF End, Error
<1> QED BY <1>1, <1>2, <1>3, <1>4, <1>5, <1>6, <1>7, <1>8, <1>9, <1>10, <1>11, <1>12, <1>13, <1>14

LEMMA FramesInit == Init => FramesInv
<1> SUFFICES ASSUME Init PROVE FramesInv
    OBVIOUS
<1>1. pos = 1
  BY DEF Init, New
<1>2. Room(stack, 0, 1) /\ stack # <<>> /\ stack[1].at \in Points
  <2>1. CASE stack = << [at |-> "SELECT"] >>
    <3>1. PICK f : f = [at |-> "SELECT"]
      OBVIOUS
    <3>2. "at" \in DOMAIN f /\ f.at \in Points /\ Ahead(f.at) = 0
      BY <3>1 DEF Points, Ahead, After
    <3>3. Room(<<f>>, 0, 1) /\ <<f>>[1] = f /\ <<f>> # <<>>
      BY <3>2, RoomOfOne
    <3> QED
      BY <2>1, <3>1, <3>2, <3>3
  <2>2. CASE stack = CallExpr
    <3>1. Room(CallExpr, 0, 1) /\ CallExpr # <<>> /\ CallExpr[1].at = "expression"
      BY CallExprRoom
    <3> QED
      BY <2>2, <3>1 DEF Points
  <2> QED
    BY <2>1, <2>2 DEF Init, New
<1>3. stack \in Seq(ToSet(stack))
  BY <1>2 DEF Room
<1>4. DOMAIN stack = 1 .. Len(stack)
  BY <1>3, SeqElements
<1>5. ASSUME NEW n \in DOMAIN stack
      PROVE  "at" \in DOMAIN stack[n] /\ n + Ahead(stack[n].at) <= 5 * pos
  <2>1. Len(stack) \in Nat /\ Ahead(stack[n].at) \in 0 .. 5
    BY <1>3, AheadBounds
  <2>2. n \in Nat /\ "at" \in DOMAIN stack[n] /\ 0 + n + Ahead(stack[n].at) <= 5 * 1
    BY <1>2, <1>4, <2>1 DEF Room
  <2> QED
    BY <1>1, <2>1, <2>2
<1> QED
  BY <1>1, <1>2, <1>3, <1>5 DEF FramesInv

LEMMA FramesStep == FramesInv /\ [Next]_vars => FramesInv'
<1> SUFFICES ASSUME FramesInv, [Next]_vars PROVE FramesInv'
    OBVIOUS
<1>1. CASE Next
  <2>1. Steps
    BY <1>1, NextMoves DEF Moves, Steps
  <2> QED
    BY <1>1, <2>1, ExpressionFrames, StatementFrames DEF Next
<1>2. CASE UNCHANGED vars
  BY <1>2, StackKept DEF vars, Steps
<1> QED
  BY <1>1, <1>2

(* The recursion of the parser is bounded by the tokens it has taken, whatever a
   statement or an expression nests: five calls for each and for the one at the
   cursor (from ParseExpr to parsePrimary the parser calls without taking a
   token, and parsePrimary and the operators take one before they call on). *)
THEOREM RecursionIsBounded == Spec => []DepthBounded
<1>1. FramesInv => DepthBounded
  <2> SUFFICES ASSUME FramesInv PROVE DepthBounded
      OBVIOUS
  <2> QED
    BY StackFacts DEF DepthBounded
<1> QED
  BY FramesInit, FramesStep, <1>1, PTL DEF Spec
=============================================================================
