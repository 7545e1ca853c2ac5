-------------------------- MODULE EvaluationProofs --------------------------
(***************************************************************************)
(* What expressions evaluate to and what the planner makes of a statement, *)
(* for every domain of values, every catalog and all statements:           *)
(*                                                                         *)
(*   - the type checker predicts the evaluator (Expressions);              *)
(*   - conditions and INT arithmetic are what they should be               *)
(*     (MCExpressions);                                                    *)
(*   - plans do not fail, joins join on their condition and lowering keeps *)
(*     the meaning (Planner, Execution);                                   *)
(*   - pairs of rows agree with their encodings (MCValues).                *)
(*                                                                         *)
(* A recursive function of expressions is first shown to satisfy its       *)
(* equation, level by level; a fact about all expressions then follows     *)
(* from the fact about a node whose operands have it (Induction).          *)
(***************************************************************************)
EXTENDS Execution, MCExpressions, MCValues, ValuesProofs, FiniteSetTheorems

-----------------------------------------------------------------------------
(* Expressions by their levels.  Proofs about all of them go from the operands
   of a node to the node. *)

LEMMA LevelsExist ==
    ASSUME NEW leaves, NEW m \in Nat
    PROVE  \E f : f = [n \in 0 .. m |-> IF n = 0 THEN leaves ELSE leaves \cup NodesOver(f[n - 1])]
<1> DEFINE Is(f, k) == f = [n \in 0 .. k |-> IF n = 0 THEN leaves ELSE leaves \cup NodesOver(f[n - 1])]
           missing == {k \in Nat : ~\E f : Is(f, k)}
<1> SUFFICES ASSUME missing # {} PROVE FALSE
  OBVIOUS
<1>1. PICK k \in missing : \A i \in missing : k <= i
  <2>1. missing \subseteq Nat
    OBVIOUS
  <2> HIDE DEF missing
  <2> QED
    BY <2>1, Smallest
<1>2. k \in Nat /\ (k = 0 \/ k - 1 \in Nat \ missing)
  BY <1>1
<1>3. PICK g : k = 0 \/ Is(g, k - 1)
  BY <1>2
<1> DEFINE f == [n \in 0 .. k |-> IF n = 0 THEN leaves ELSE leaves \cup NodesOver(g[n - 1])]
<1>4. ASSUME NEW n \in 1 .. k PROVE f[n - 1] = g[n - 1]
  <2>1. Is(g, k - 1) /\ n - 1 \in 0 .. k - 1 /\ n - 1 \in 0 .. k
    BY <1>2, <1>3
  <2>2. g[n - 1] = IF n - 1 = 0 THEN leaves ELSE leaves \cup NodesOver(g[n - 1 - 1])
    BY <2>1
  <2>3. f[n - 1] = IF n - 1 = 0 THEN leaves ELSE leaves \cup NodesOver(g[n - 1 - 1])
    BY <2>1
  <2> QED
    BY <2>2, <2>3
<1>5. f = [n \in 0 .. k |-> IF n = 0 THEN leaves ELSE leaves \cup NodesOver(f[n - 1])]
  <2>1. ASSUME NEW n \in 0 .. k, n # 0 PROVE f[n - 1] = g[n - 1]
    <3>1. n \in 1 .. k
      BY <1>2, <2>1
    <3> QED
      BY <1>4, <3>1
  <2>2. \A n \in 0 .. k : (IF n = 0 THEN leaves ELSE leaves \cup NodesOver(g[n - 1]))
                            = (IF n = 0 THEN leaves ELSE leaves \cup NodesOver(f[n - 1]))
    BY <2>1
  <2>3. f = [n \in 0 .. k |-> IF n = 0 THEN leaves ELSE leaves \cup NodesOver(g[n - 1])]
    OBVIOUS
  <2> HIDE DEF f
  <2> QED
    BY <2>2, <2>3
<1> QED
  <2>1. \E h : Is(h, k)
    BY <1>5
  <2> QED
    BY <1>1, <2>1

LEMMA LevelsUnfold ==
    ASSUME NEW leaves
    PROVE  /\ Levels(leaves)[0] = leaves
           /\ \A n \in 1 .. MaxHeight :
                 Levels(leaves)[n] = leaves \cup NodesOver(Levels(leaves)[n - 1])
<1>1. PICK f : f = [n \in 0 .. MaxHeight |->
                       IF n = 0 THEN leaves ELSE leaves \cup NodesOver(f[n - 1])]
  BY LevelsExist, MaxHeightAssumption
<1> DEFINE g == Levels(leaves)
<1>2. g = [n \in 0 .. MaxHeight |-> IF n = 0 THEN leaves ELSE leaves \cup NodesOver(g[n - 1])]
  BY <1>1 DEF Levels
<1> HIDE DEF g
<1>3. 0 \in 0 .. MaxHeight /\ \A n \in 1 .. MaxHeight : n \in 0 .. MaxHeight /\ n # 0
  BY MaxHeightAssumption
<1>4. g[0] = leaves /\ \A n \in 1 .. MaxHeight : g[n] = leaves \cup NodesOver(g[n - 1])
  BY <1>2, <1>3
<1> QED
  BY <1>4 DEF g

(* Induction on heights. *)
LEMMA Heights ==
    ASSUME NEW S, \A n \in 0 .. MaxHeight : (n = 0 \/ n - 1 \in S) => n \in S
    PROVE  \A n \in 0 .. MaxHeight : n \in S
<1> DEFINE bad == {n \in 0 .. MaxHeight : n \notin S}
<1> SUFFICES ASSUME bad # {} PROVE FALSE
  OBVIOUS
<1>1. PICK n \in bad : \A m \in bad : n <= m
  <2>1. bad \subseteq Nat
    BY MaxHeightAssumption
  <2> HIDE DEF bad
  <2> QED
    BY <2>1, Smallest
<1>2. n \in Nat /\ n # 0 => n - 1 \in 0 .. MaxHeight /\ ~(n <= n - 1)
  BY <1>1, MaxHeightAssumption
<1> QED
  BY <1>1, <1>2, MaxHeightAssumption

LEMMA NodesGrow ==
    ASSUME NEW A, NEW B, A \subseteq B
    PROVE  NodesOver(A) \subseteq NodesOver(B)
BY DEF NodesOver

LEMMA LevelsGrow ==
    ASSUME NEW leaves, NEW more, leaves \subseteq more
    PROVE  \A n \in 0 .. MaxHeight : /\ Levels(leaves)[n] \subseteq Levels(leaves)[MaxHeight]
                                     /\ Levels(leaves)[n] \subseteq Levels(more)[n]
                                     /\ leaves \subseteq Levels(leaves)[n]
<1> DEFINE L(n) == Levels(leaves)[n]
           M(n) == Levels(more)[n]
<1>1. /\ L(0) = leaves /\ M(0) = more
      /\ \A n \in 1 .. MaxHeight : L(n) = leaves \cup NodesOver(L(n - 1)) /\ M(n) = more \cup NodesOver(M(n - 1))
  BY LevelsUnfold
<1> HIDE DEF L, M
<1>2. \A n \in 0 .. MaxHeight : L(n) \subseteq M(n)
  <2> DEFINE S == {n \in 0 .. MaxHeight : L(n) \subseteq M(n)}
  <2>1. ASSUME NEW n \in 0 .. MaxHeight, n = 0 \/ n - 1 \in S PROVE n \in S
    <3>1. CASE n = 0
      BY <1>1, <3>1
    <3>2. CASE n # 0
      <4>1. n \in 1 .. MaxHeight /\ L(n - 1) \subseteq M(n - 1)
        BY <2>1, <3>2, MaxHeightAssumption
      <4>2. NodesOver(L(n - 1)) \subseteq NodesOver(M(n - 1))
        BY <4>1, NodesGrow
      <4> QED
        BY <1>1, <4>1, <4>2
    <3> QED
      BY <3>1, <3>2
  <2> HIDE DEF S
  <2>2. \A n \in 0 .. MaxHeight : n \in S
    BY <2>1, Heights
  <2> QED
    BY <2>2 DEF S
<1>3. \A n \in 1 .. MaxHeight : L(n - 1) \subseteq L(n)
  <2> DEFINE S == {n \in 0 .. MaxHeight : n = 0 \/ L(n - 1) \subseteq L(n)}
  <2>1. ASSUME NEW n \in 0 .. MaxHeight, n = 0 \/ n - 1 \in S PROVE n \in S
    <3>1. CASE n = 0
      BY <3>1
    <3>2. CASE n = 1
      BY <1>1, <3>2
    <3>3. CASE n # 0 /\ n # 1
      <4>1. /\ n \in 1 .. MaxHeight /\ n - 1 \in 1 .. MaxHeight /\ n - 1 # 0
            /\ L(n - 1 - 1) \subseteq L(n - 1)
        BY <2>1, <3>3, MaxHeightAssumption
      <4>2. NodesOver(L(n - 1 - 1)) \subseteq NodesOver(L(n - 1))
        BY <4>1, NodesGrow
      <4> QED
        BY <1>1, <4>1, <4>2
    <3> QED
      BY <3>1, <3>2, <3>3
  <2> HIDE DEF S
  <2>2. \A n \in 0 .. MaxHeight : n \in S
    BY <2>1, Heights
  <2> QED
    BY <2>2, MaxHeightAssumption DEF S
<1>4. \A n \in 0 .. MaxHeight : L(n) \subseteq L(MaxHeight)
  <2> DEFINE S == {d \in 0 .. MaxHeight : L(MaxHeight - d) \subseteq L(MaxHeight)}
  <2>1. ASSUME NEW d \in 0 .. MaxHeight, d = 0 \/ d - 1 \in S PROVE d \in S
    <3>1. CASE d = 0
      BY <3>1, MaxHeightAssumption
    <3>2. CASE d # 0
      <4> DEFINE n == MaxHeight - (d - 1)
      <4>1. n \in 1 .. MaxHeight /\ n - 1 = MaxHeight - d /\ d - 1 \in S
        BY <2>1, <3>2, MaxHeightAssumption
      <4>2. L(n - 1) \subseteq L(n) /\ L(n) \subseteq L(MaxHeight)
        BY <1>3, <4>1
      <4> QED
        BY <4>1, <4>2
    <3> QED
      BY <3>1, <3>2
  <2> HIDE DEF S
  <2>2. \A d \in 0 .. MaxHeight : d \in S
    BY <2>1, Heights
  <2>3. \A n \in 0 .. MaxHeight : MaxHeight - n \in 0 .. MaxHeight /\ MaxHeight - (MaxHeight - n) = n
    BY MaxHeightAssumption
  <2> QED
    BY <2>2, <2>3 DEF S
<1>5. \A n \in 0 .. MaxHeight : leaves \subseteq L(n)
  BY <1>1, MaxHeightAssumption
<1> QED
  BY <1>2, <1>4, <1>5 DEF L, M

\* The operands of a node.
Operands(e) ==
    CASE e.kind \in {"isnull", "unary", "aggregate"} -> {e.arg}
      [] e.kind = "binary" -> {e.left, e.right}
      [] OTHER -> {}

LEMMA LeafFacts ==
    ASSUME NEW e \in LeafExprs
    PROVE  e.kind \in {"literal", "column", "slot", "star", "none"} /\ Operands(e) = {}
BY DEF LeafExprs, WrittenLeaves, Operands

LEMMA WrittenLeavesAreLeaves == WrittenLeaves \subseteq LeafExprs
BY DEF LeafExprs

\* The operands of a node are one level lower than the node.
Below(leaves, n) == IF n = 0 THEN {} ELSE Levels(leaves)[n - 1]

LEMMA NodeShape ==
    ASSUME NEW leaves, NEW n \in 0 .. MaxHeight, NEW e \in Levels(leaves)[n]
    PROVE  e \in leaves \/ (n # 0 /\ e \in NodesOver(Below(leaves, n)))
<1>1. n # 0 => n \in 1 .. MaxHeight
  BY MaxHeightAssumption
<1> QED
  BY <1>1, LevelsUnfold DEF Below

LEMMA NodeFacts ==
    ASSUME NEW S, NEW e \in NodesOver(S)
    PROVE  /\ e.kind \in {"isnull", "unary", "binary", "aggregate"}
           /\ Operands(e) \subseteq S
<1>1. CASE e \in [kind : {"isnull"}, arg : S, negate : BOOLEAN]
  BY <1>1 DEF Operands
<1>2. CASE e \in [kind : {"unary"}, op : {"NOT", "-"}, arg : S]
  BY <1>2 DEF Operands
<1>3. CASE e \in [kind : {"binary"}, op : Comparisons \cup ArithmeticOps \cup Connectives,
                  left : S, right : S]
  BY <1>3 DEF Operands
<1>4. CASE e \in [kind : {"aggregate"}, id : Nat, name : STRING, star : BOOLEAN, arg : S]
  BY <1>4 DEF Operands
<1> QED
  BY <1>1, <1>2, <1>3, <1>4 DEF NodesOver

LEMMA OperandsBelow ==
    ASSUME NEW leaves, leaves \subseteq LeafExprs,
           NEW n \in 0 .. MaxHeight, NEW e \in Levels(leaves)[n]
    PROVE  Operands(e) \subseteq Below(leaves, n)
BY NodeShape, NodeFacts, LeafFacts

(* Induction over expressions: what holds of a node when it holds of its
   operands, one level lower, holds of all. *)
LEMMA RankedInduction ==
    ASSUME NEW leaves, leaves \subseteq LeafExprs, NEW S,
           \A n \in 0 .. MaxHeight : \A e \in Levels(leaves)[n] :
              (\A x \in Operands(e) : n # 0 /\ <<x, n - 1>> \in S) => <<e, n>> \in S
    PROVE  \A n \in 0 .. MaxHeight : \A e \in Levels(leaves)[n] : <<e, n>> \in S
<1> DEFINE T == {n \in 0 .. MaxHeight : \A e \in Levels(leaves)[n] : <<e, n>> \in S}
<1>1. ASSUME NEW n \in 0 .. MaxHeight, n = 0 \/ n - 1 \in T PROVE n \in T
  <2>1. ASSUME NEW e \in Levels(leaves)[n] PROVE <<e, n>> \in S
    <3>1. \A x \in Operands(e) : n # 0 /\ <<x, n - 1>> \in S
      BY <1>1, OperandsBelow DEF Below
    <3> QED
      BY <3>1
  <2> QED
    BY <2>1
<1> HIDE DEF T
<1>2. \A n \in 0 .. MaxHeight : n \in T
  BY <1>1, Heights
<1> QED
  BY <1>2 DEF T

LEMMA Induction ==
    ASSUME NEW leaves, leaves \subseteq LeafExprs, NEW S,
           \A e \in Levels(leaves)[MaxHeight] : Operands(e) \subseteq S => e \in S
    PROVE  Levels(leaves)[MaxHeight] \subseteq S
<1> DEFINE R == {p \in Levels(leaves)[MaxHeight] \X (0 .. MaxHeight) : p[1] \in S}
<1>0. MaxHeight \in 0 .. MaxHeight
  BY MaxHeightAssumption
<1>1. ASSUME NEW n \in 0 .. MaxHeight, NEW e \in Levels(leaves)[n],
             \A x \in Operands(e) : n # 0 /\ <<x, n - 1>> \in R
      PROVE  <<e, n>> \in R
  <2>1. e \in Levels(leaves)[MaxHeight]
    BY LevelsGrow
  <2>2. Operands(e) \subseteq S
    BY <1>1
  <2> QED
    BY <2>1, <2>2
<1> HIDE DEF R
<1>2. \A n \in 0 .. MaxHeight : \A e \in Levels(leaves)[n] : <<e, n>> \in R
  BY <1>1, RankedInduction
<1> QED
  BY <1>0, <1>2 DEF R

LEMMA OperandsAreExprs ==
    ASSUME NEW leaves, leaves \subseteq LeafExprs, NEW e \in Levels(leaves)[MaxHeight]
    PROVE  Operands(e) \subseteq Levels(leaves)[MaxHeight]
<1>1. MaxHeight \in 0 .. MaxHeight /\ (MaxHeight # 0 => MaxHeight - 1 \in 0 .. MaxHeight)
  BY MaxHeightAssumption
<1>2. Below(leaves, MaxHeight) \subseteq Levels(leaves)[MaxHeight]
  BY <1>1, LevelsGrow DEF Below
<1> QED
  BY <1>1, <1>2, OperandsBelow

LEMMA WrittenExprs == Written \subseteq Exprs
<1>1. MaxHeight \in 0 .. MaxHeight
  BY MaxHeightAssumption
<1> QED
  BY <1>1, LevelsGrow, WrittenLeavesAreLeaves DEF Written, Exprs

-----------------------------------------------------------------------------
(* Recursion on expressions: the value of a node is the step's, on the values
   of its operands. *)

LEMMA EvalLocal ==
    ASSUME NEW e, NEW g, NEW h, NEW env, \A x \in Operands(e) : g[x] = h[x]
    PROVE  EvalNode(e, g, env) = EvalNode(e, h, env)
<1>1. CASE e.kind \in {"isnull", "unary"}
  BY <1>1 DEF EvalNode, Operands
<1>2. CASE e.kind = "binary"
  BY <1>2 DEF EvalNode, Operands
<1>3. CASE e.kind \notin {"isnull", "unary", "binary"}
  BY <1>3 DEF EvalNode
<1> QED
  BY <1>1, <1>2, <1>3

LEMMA EvaluatorUnfolds ==
    ASSUME NEW env
    PROVE  Evaluator(env) = [e \in Exprs |-> EvalNode(e, Evaluator(env), env)]
<1> DEFINE Solves(g, n) == \A e \in Levels(LeafExprs)[n] : g[e] = EvalNode(e, g, env)
           S == {n \in 0 .. MaxHeight : \E g : Solves(g, n)}
<1>1. ASSUME NEW n \in 0 .. MaxHeight, n = 0 \/ n - 1 \in S PROVE n \in S
  <2>1. PICK g : n = 0 \/ Solves(g, n - 1)
    BY <1>1
  <2> DEFINE h == [e \in Levels(LeafExprs)[n] \cup Below(LeafExprs, n) |-> EvalNode(e, g, env)]
  <2>2. ASSUME NEW e \in Levels(LeafExprs)[n] PROVE h[e] = EvalNode(e, h, env)
    <3>1. \A x \in Operands(e) : h[x] = g[x]
      BY <2>1, OperandsBelow DEF Below
    <3>2. h[e] = EvalNode(e, g, env)
      OBVIOUS
    <3> HIDE DEF h
    <3> QED
      BY <3>1, <3>2, EvalLocal
  <2>3. Solves(h, n)
    BY <2>2
  <2> QED
    BY <2>3
<1>2. PICK g : Solves(g, MaxHeight)
  <2> HIDE DEF S
  <2>1. MaxHeight \in S
    BY <1>1, Heights, MaxHeightAssumption
  <2> QED
    BY <2>1 DEF S
<1> DEFINE f == [e \in Exprs |-> g[e]]
<1>3. f = [e \in Exprs |-> EvalNode(e, f, env)]
  <2>1. ASSUME NEW e \in Exprs PROVE f[e] = EvalNode(e, f, env)
    <3>1. \A x \in Operands(e) : f[x] = g[x]
      BY OperandsAreExprs DEF Exprs
    <3>2. f[e] = EvalNode(e, g, env)
      BY <1>2 DEF Exprs
    <3> HIDE DEF f
    <3> QED
      BY <3>1, <3>2, EvalLocal
  <2>2. f = [e \in Exprs |-> f[e]]
    OBVIOUS
  <2> HIDE DEF f
  <2> QED
    BY <2>1, <2>2
<1> HIDE DEF f
<1> QED
  BY <1>3 DEF Evaluator

LEMMA InferLocal ==
    ASSUME NEW e, NEW g, NEW h, NEW schema, \A x \in Operands(e) : g[x] = h[x]
    PROVE  InferNode(e, g, schema) = InferNode(e, h, schema)
<1>1. CASE e.kind \in {"isnull", "unary"}
  BY <1>1 DEF InferNode, Operands
<1>2. CASE e.kind = "binary"
  BY <1>2 DEF InferNode, Operands
<1>3. CASE e.kind \notin {"isnull", "unary", "binary"}
  BY <1>3 DEF InferNode
<1> QED
  BY <1>1, <1>2, <1>3

LEMMA TypingUnfolds ==
    ASSUME NEW schema
    PROVE  Typing(schema) = [e \in Exprs |-> InferNode(e, Typing(schema), schema)]
<1> DEFINE Solves(g, n) == \A e \in Levels(LeafExprs)[n] : g[e] = InferNode(e, g, schema)
           S == {n \in 0 .. MaxHeight : \E g : Solves(g, n)}
<1>1. ASSUME NEW n \in 0 .. MaxHeight, n = 0 \/ n - 1 \in S PROVE n \in S
  <2>1. PICK g : n = 0 \/ Solves(g, n - 1)
    BY <1>1
  <2> DEFINE h == [e \in Levels(LeafExprs)[n] \cup Below(LeafExprs, n) |-> InferNode(e, g, schema)]
  <2>2. ASSUME NEW e \in Levels(LeafExprs)[n] PROVE h[e] = InferNode(e, h, schema)
    <3>1. \A x \in Operands(e) : h[x] = g[x]
      BY <2>1, OperandsBelow DEF Below
    <3>2. h[e] = InferNode(e, g, schema)
      OBVIOUS
    <3> HIDE DEF h
    <3> QED
      BY <3>1, <3>2, InferLocal
  <2>3. Solves(h, n)
    BY <2>2
  <2> QED
    BY <2>3
<1>2. PICK g : Solves(g, MaxHeight)
  <2> HIDE DEF S
  <2>1. MaxHeight \in S
    BY <1>1, Heights, MaxHeightAssumption
  <2> QED
    BY <2>1 DEF S
<1> DEFINE f == [e \in Exprs |-> g[e]]
<1>3. f = [e \in Exprs |-> InferNode(e, f, schema)]
  <2>1. ASSUME NEW e \in Exprs PROVE f[e] = InferNode(e, f, schema)
    <3>1. \A x \in Operands(e) : f[x] = g[x]
      BY OperandsAreExprs DEF Exprs
    <3>2. f[e] = InferNode(e, g, schema)
      BY <1>2 DEF Exprs
    <3> HIDE DEF f
    <3> QED
      BY <3>1, <3>2, InferLocal
  <2>2. f = [e \in Exprs |-> f[e]]
    OBVIOUS
  <2> HIDE DEF f
  <2> QED
    BY <2>1, <2>2
<1> HIDE DEF f
<1> QED
  BY <1>3 DEF Typing

-----------------------------------------------------------------------------
(* Names *)

\* The columns a name may stand for.
Found(schema, table, name) ==
    {i \in DOMAIN schema : /\ schema[i].name = name
                           /\ table = Unqualified \/ schema[i].table = table}

\* The columns have types; what they are called does not matter.
IsSchema(schema) ==
    /\ Len(schema) \in Nat /\ DOMAIN schema = 1 .. Len(schema)
    /\ \A n \in DOMAIN schema : schema[n].type \in Types

LEMMA IndexIsFound ==
    ASSUME NEW schema, IsSchema(schema), NEW table, NEW name
    PROVE  /\ Index(schema, table, name) # Unresolved =>
                 /\ Index(schema, table, name) \in DOMAIN schema
                 /\ Found(schema, table, name) = {Index(schema, table, name)}
           /\ \A i : Found(schema, table, name) = {i} => Index(schema, table, name) = i /\ i # Unresolved
<1> DEFINE found == Found(schema, table, name)
<1>1. /\ DOMAIN schema = 1 .. Len(schema) /\ Len(schema) \in Nat
      /\ found \subseteq DOMAIN schema
  BY DEF Found, IsSchema
<1>1a. IsFiniteSet(DOMAIN schema)
  BY <1>1, FS_Interval
<1>2. IsFiniteSet(found)
  BY <1>1, <1>1a, FS_Subset
<1>3. Index(schema, table, name)
         = IF Cardinality(found) = 1 THEN CHOOSE i \in found : TRUE ELSE Unresolved
  BY DEF Index, Found
<1>4. Unresolved \notin DOMAIN schema
  BY <1>1 DEF Unresolved
<1> HIDE DEF found
<1>5. Cardinality(found) = 1 <=> \E i : found = {i}
  BY <1>2, FS_Singleton
<1>6. ASSUME NEW i, found = {i} PROVE Index(schema, table, name) = i /\ i \in DOMAIN schema
  BY <1>1, <1>3, <1>5, <1>6
<1> QED
  BY <1>1, <1>3, <1>4, <1>5, <1>6 DEF found

-----------------------------------------------------------------------------
(* float64 arithmetic stays in its type. *)

LEMMA FloatFacts ==
    ASSUME NEW v \in FloatValues
    PROVE  v.x \in Floats /\ v.x \in Int /\ -v.x \in Floats /\ v.type = TFloat
           /\ (IsNaN(v) => v = NaN) /\ v.cls \in {"num", "nan", "neg0"}
<1>1. CASE \E h \in Floats : v = Float64(h)
  <2>1. PICK h \in Floats : v = Float64(h)
    BY <1>1
  <2> QED
    BY <2>1, FloatsAssumption DEF Float64, IsNaN
<1>2. CASE v \in {NaN, NegZero}
  <2>1. 0 \in Floats
    BY FloatsAssumption, IntCutoffAssumption
  <2>2. v.x = 0 /\ v.type = TFloat /\ v.cls \in {"nan", "neg0"} /\ (v.cls = "nan" => v = NaN)
    BY <1>2 DEF NaN, NegZero
  <2> QED
    BY <2>1, <2>2 DEF IsNaN
<1> QED
  BY <1>1, <1>2 DEF FloatValues

LEMMA FloatMembers ==
    /\ NaN \in FloatValues /\ NegZero \in FloatValues
    /\ \A h \in Floats : Float64(h) \in FloatValues
BY DEF FloatValues

LEMMA SignedTyped ==
    ASSUME NEW h \in Floats, NEW negative
    PROVE  Signed(h, negative) \in FloatValues
BY FloatMembers, FloatsAssumption DEF Signed

LEMMA SignedInfTyped ==
    ASSUME NEW negative
    PROVE  SignedInf(negative) \in FloatValues
BY FloatMembers, InfFacts DEF SignedInf

LEMMA RatioIsFloat ==
    ASSUME NEW p \in Int, NEW q \in Nat \ {0}
    PROVE  RoundRatio(p, q) \in Floats
<1>1. PICK h : h = p \div q
  OBVIOUS
<1>2. h \in Int /\ Inf \in Int
  BY <1>1, InfFacts
<1>3. PICK lo, hi : /\ lo = CHOOSE f \in Floats : IsFloor(f, h)
                    /\ hi = CHOOSE f \in Floats : IsCeil(f, h + 1)
  OBVIOUS
<1>4. CASE p % q = 0
  <2>1. RoundRatio(p, q) = IF h > Inf THEN Inf ELSE IF h < -Inf THEN -Inf ELSE Round[h]
    BY <1>1, <1>4 DEF RoundRatio
  <2>2. h <= Inf /\ -Inf <= h => Round[h] \in Floats
    BY <1>2, RoundIsFloat
  <2> QED
    BY <1>2, <2>1, <2>2, InfFacts
<1>5. CASE p % q # 0 /\ h >= Inf
  BY <1>1, <1>2, <1>5, InfFacts DEF RoundRatio
<1>6. CASE p % q # 0 /\ ~(h >= Inf) /\ h < -Inf
  BY <1>1, <1>2, <1>6, InfFacts DEF RoundRatio
<1>7. CASE p % q # 0 /\ ~(h >= Inf) /\ ~(h < -Inf)
  <2>1. h + 1 \in Int /\ -Inf <= h /\ h <= Inf /\ -Inf <= h + 1 /\ h + 1 <= Inf
    BY <1>2, <1>7
  <2>2. lo \in Floats /\ hi \in Floats
    BY <1>2, <1>3, <2>1, Neighbours
  <2>3. RoundRatio(p, q) \in {lo, hi}
    BY <1>1, <1>3, <1>7 DEF RoundRatio
  <2> QED
    BY <2>2, <2>3
<1> QED
  BY <1>4, <1>5, <1>6, <1>7

LEMMA NegTyped ==
    ASSUME NEW v \in FloatValues
    PROVE  FloatNeg(v) \in FloatValues
BY FloatFacts, FloatMembers, SignedTyped DEF FloatNeg

LEMMA SumTyped ==
    ASSUME NEW a \in FloatValues, NEW b \in FloatValues
    PROVE  FloatSum(a, b) \in FloatValues
<1>1. 0 \in Floats
  BY FloatsAssumption, IntCutoffAssumption
<1> QED
  BY <1>1, FloatFacts, SignedTyped, FloatAddIsFloat DEF FloatSum

LEMMA MulTyped ==
    ASSUME NEW a \in FloatValues, NEW b \in FloatValues
    PROVE  FloatMul(a, b) \in FloatValues
<1>1. a.x * b.x \in Int
  BY FloatFacts
<1>2. RoundRatio(a.x * b.x, 2) \in Floats
  BY <1>1, RatioIsFloat
<1> QED
  BY <1>2, FloatMembers, SignedTyped, SignedInfTyped DEF FloatMul

LEMMA DivTyped ==
    ASSUME NEW a \in FloatValues, NEW b \in FloatValues, ~IsZero(b)
    PROVE  FloatDiv(a, b) \in FloatValues
<1>1. a.x \in Int /\ b.x \in Int /\ 0 \in Floats
  BY FloatFacts, FloatsAssumption, IntCutoffAssumption
<1>2. b.x > 0 => RoundRatio(2 * a.x, b.x) \in Floats
  BY <1>1, RatioIsFloat
<1>3. b.x < 0 => RoundRatio(-2 * a.x, -b.x) \in Floats
  <2>1. -2 * a.x \in Int /\ -b.x \in Int /\ (b.x < 0 => -b.x \in Nat \ {0})
    BY <1>1
  <2> QED
    BY <2>1, RatioIsFloat
<1>4. IsNaN(b) \/ b.x > 0 \/ b.x < 0
  BY <1>1 DEF IsZero
<1>5. b.x < 0 => ~(b.x > 0)
  BY <1>1
<1> QED
  BY <1>1, <1>2, <1>3, <1>4, <1>5, FloatMembers, SignedTyped, SignedInfTyped DEF FloatDiv

LEMMA ConvertTyped ==
    ASSUME NEW f \in FloatValues, NEW saturates
    PROVE  ConvertInt(f, saturates) \in IntValues
<1>1. f.x \in Int /\ IntCutoff \in Nat \ {0}
  BY FloatFacts, IntCutoffAssumption
<1>2. -IntCutoff \in IntRange /\ 0 \in IntRange /\ IntCutoff - 1 \in IntRange
  BY <1>1 DEF IntRange
<1>3. -(2 * IntCutoff) <= f.x /\ f.x < 2 * IntCutoff => Truncate(f.x) \in IntRange
  BY <1>1, TruncateBounds DEF IntRange
<1>4. \A i \in IntRange : Int64(i) \in IntValues
  BY DEF IntValues
<1> QED
  BY <1>2, <1>3, <1>4 DEF ConvertInt

LEMMA TypeNames ==
    /\ TInt # TFloat /\ TInt # TText /\ TInt # TBool /\ TFloat # TText /\ TFloat # TBool /\ TText # TBool
    /\ NoType \notin Types
BY DEF TInt, TFloat, TText, TBool, Types, NoType

LEMMA ValueTypes ==
    ASSUME NEW v \in Values
    PROVE  v.type \in Types /\ v # NoValue
<1>1. v.type \in Types
  BY DEF Values, IntValues, FloatValues, TextValues, BoolValues, NullValues, Int64, Float64, Text, Bool,
         NullOf, NaN, NegZero, Types
<1> QED
  BY <1>1 DEF NoValue, Types, TInt, TFloat, TText, TBool

(* Values by their types. *)
LEMMA TypedValues ==
    ASSUME NEW v \in Values
    PROVE  /\ IsNull(v) => v = NullOf(v.type)
           /\ ~IsNull(v) /\ v.type = TInt => v \in IntValues
           /\ ~IsNull(v) /\ v.type = TFloat => v \in FloatValues
           /\ ~IsNull(v) /\ v.type = TBool => v \in BoolValues
<1>1. CASE v \in IntValues
  BY <1>1, TypeNames DEF IntValues, Int64, IsNull
<1>2. CASE v \in FloatValues
  BY <1>2, TypeNames, FloatFacts DEF IsNull
<1>3. CASE v \in TextValues
  BY <1>3, TypeNames DEF TextValues, Text, IsNull
<1>4. CASE v \in BoolValues
  BY <1>4, TypeNames DEF BoolValues, Bool, IsNull
<1>5. CASE v \in NullValues
  BY <1>5, TypeNames DEF NullValues, NullOf, IsNull
<1> QED
  BY <1>1, <1>2, <1>3, <1>4, <1>5 DEF Values

LEMMA ValueMembers ==
    /\ \A t \in Types : NullOf(t) \in Values /\ NullOf(t).type = t /\ IsNull(NullOf(t))
    /\ \A v \in IntValues : v \in Values /\ v.type = TInt /\ v.x \in IntRange /\ v = Int64(v.x)
    /\ \A v \in FloatValues : v \in Values /\ v.type = TFloat
    /\ \A b : Bool(b) \in Values /\ Bool(b).type = TBool /\ Bool(b) \in BoolValues /\ ~IsNull(Bool(b))
<1>1. \A t \in Types : NullOf(t) \in Values /\ NullOf(t).type = t /\ IsNull(NullOf(t))
  BY DEF Values, NullValues, NullOf, Types, IsNull
<1>2. \A v \in IntValues : v \in Values /\ v.type = TInt /\ v.x \in IntRange /\ v = Int64(v.x)
  BY DEF Values, IntValues, Int64
<1>3. \A v \in FloatValues : v \in Values /\ v.type = TFloat
  BY FloatFacts DEF Values
<1>4. \A b : Bool(b) \in Values /\ Bool(b).type = TBool /\ Bool(b) \in BoolValues /\ ~IsNull(Bool(b))
  <2>1. \A b : Bool(b) \in BoolValues
    BY DEF BoolValues, Bool
  <2> QED
    BY <2>1 DEF Values, Bool, IsNull
<1> QED
  BY <1>1, <1>2, <1>3, <1>4

LEMMA ToFTyped ==
    ASSUME NEW v \in Values, IsNumeric(v), ~IsNull(v)
    PROVE  ToF(v) \in FloatValues
<1>1. CASE v.type = TInt
  <2>1. v.x \in IntRange
    BY <1>1, TypedValues, ValueMembers
  <2>2. 2 * v.x \in Int /\ -Inf <= 2 * v.x /\ 2 * v.x <= Inf
    BY <2>1, InfFacts, IntCutoffAssumption DEF IntRange
  <2>3. ToFloat(v.x) \in Floats
    BY <2>2, RoundIsFloat DEF ToFloat
  <2> QED
    BY <1>1, <2>3, FloatMembers DEF ToF
<1>2. CASE v.type # TInt
  BY <1>2, TypedValues DEF ToF, IsNumeric
<1> QED
  BY <1>1, <1>2

LEMMA ArithmeticTyped ==
    ASSUME NEW op \in ArithmeticOps, NEW l \in Values, NEW r \in Values, NEW saturates,
           IsNumeric(l), IsNumeric(r)
    PROVE  /\ Arithmetic(op, l, r, saturates) \in Values
           /\ Arithmetic(op, l, r, saturates).type = BinaryType(op, l.type, r.type)
<1>0. op \in {"+", "-", "*", "/"}
  BY DEF ArithmeticOps
<1> DEFINE ints == op # "/" /\ l.type = TInt /\ r.type = TInt
           out == IF ints THEN TInt ELSE TFloat
<1>1. BinaryType(op, l.type, r.type) = out
  BY <1>0, TypeNames DEF ArithmeticOps, Comparisons, Connectives, BinaryType, IsNumeric, NumericType
<1>2. \A t \in {TInt, TFloat} : NullOf(t) \in Values /\ NullOf(t).type = t
  BY ValueMembers DEF Types
<1>3. CASE IsNull(l) \/ IsNull(r)
  BY <1>1, <1>2, <1>3 DEF Arithmetic, NullResult
<1>4. CASE ~IsNull(l) /\ ~IsNull(r) /\ op = "/" /\ IsZero(ToF(r))
  BY <1>1, <1>2, <1>4 DEF Arithmetic
<1>5. CASE ~IsNull(l) /\ ~IsNull(r) /\ ~(op = "/" /\ IsZero(ToF(r)))
  <2>1. PICK a, b : a = ToF(l) /\ b = ToF(r)
    OBVIOUS
  <2>2. a \in FloatValues /\ b \in FloatValues
    BY <1>5, <2>1, ToFTyped
  <2>3. PICK res : res = FloatArithmetic(op, a, b)
    OBVIOUS
  <2>4. res \in FloatValues
    <3>1. CASE op = "+"
      BY <2>2, <2>3, <3>1, SumTyped DEF FloatArithmetic
    <3>2. CASE op = "-"
      BY <2>2, <2>3, <3>2, SumTyped, NegTyped DEF FloatArithmetic
    <3>3. CASE op = "*"
      BY <2>2, <2>3, <3>3, MulTyped DEF FloatArithmetic
    <3>4. CASE op = "/"
      BY <1>5, <2>1, <2>2, <2>3, <3>4, DivTyped DEF FloatArithmetic
    <3> QED
      BY <1>0, <3>1, <3>2, <3>3, <3>4
  <2>5. Arithmetic(op, l, r, saturates) = IF ints THEN ConvertInt(res, saturates) ELSE res
    <3>1. ~(IsNull(l) \/ IsNull(r)) /\ ~(op = "/" /\ IsZero(ToF(r)))
      BY <1>5
    <3> QED
      BY <2>1, <2>3, <3>1 DEF Arithmetic, NumberResult
  <2> QED
    BY <1>1, <2>4, <2>5, ConvertTyped, ValueMembers
<1> QED
  BY <1>3, <1>4, <1>5
-----------------------------------------------------------------------------
(* Expressions by their kinds. *)

Operators == Comparisons \cup ArithmeticOps \cup Connectives

LEMMA ExprShape ==
    ASSUME NEW leaves, leaves \subseteq LeafExprs,
           NEW n \in 0 .. MaxHeight, NEW e \in Levels(leaves)[n]
    PROVE  /\ e.kind \in {"literal", "column", "slot", "star", "none",
                          "isnull", "unary", "binary", "aggregate"}
           /\ e.kind = "literal" => e = Literal(e.val) /\ e.val \in Values
           /\ e.kind = "column" => e = ColumnRef(e.table, e.name) /\ e.table \in STRING /\ e.name \in STRING
           /\ e.kind = "slot" => e = SlotRef(e.index) /\ e.index \in Int
           /\ e.kind = "isnull" => e = IsNullTest(e.arg, e.negate) /\ e.negate \in BOOLEAN
           /\ e.kind = "unary" => e = UnaryExpr(e.op, e.arg) /\ e.op \in {"NOT", "-"}
           /\ e.kind = "binary" => e = BinaryExpr(e.op, e.left, e.right) /\ e.op \in Operators
           /\ e.kind = "aggregate" => e = AggregateCall(e.id, e.name, e.star, e.arg) /\ e.id \in Nat
           /\ e.kind \in {"isnull", "unary", "aggregate"} => n # 0 /\ e.arg \in Below(leaves, n)
           /\ e.kind = "binary" => /\ n # 0 /\ e.left \in Below(leaves, n)
                                   /\ e.right \in Below(leaves, n)
<1> DEFINE S == Below(leaves, n)
<1>0. e \in LeafExprs \/ (n # 0 /\ e \in NodesOver(S))
  BY NodeShape
<1> HIDE DEF S
<1>1. CASE e \in [kind : {"literal"}, val : Values]
  BY <1>1 DEF Literal
<1>2. CASE e \in [kind : {"column"}, table : STRING, name : STRING]
  BY <1>2 DEF ColumnRef
<1>3. CASE e \in [kind : {"slot"}, index : Int]
  BY <1>3 DEF SlotRef
<1>4. CASE e \in [kind : {"star", "none"}]
  BY <1>4
<1>5. CASE n # 0 /\ e \in [kind : {"isnull"}, arg : S, negate : BOOLEAN]
  BY <1>5 DEF IsNullTest, S
<1>6. CASE n # 0 /\ e \in [kind : {"unary"}, op : {"NOT", "-"}, arg : S]
  BY <1>6 DEF UnaryExpr, S
<1>7. CASE n # 0 /\ e \in [kind : {"binary"}, op : Operators, left : S, right : S]
  BY <1>7 DEF BinaryExpr, S
<1>8. CASE n # 0 /\ e \in [kind : {"aggregate"}, id : Nat, name : STRING, star : BOOLEAN, arg : S]
  BY <1>8 DEF AggregateCall, S
<1> QED
  BY <1>0, <1>1, <1>2, <1>3, <1>4, <1>5, <1>6, <1>7, <1>8
  DEF LeafExprs, WrittenLeaves, NodesOver, Operators

(* What an expression evaluates to and what it is typed as, by its node. *)
LEMMA Unfolds ==
    ASSUME NEW e \in Exprs
    PROVE  /\ \A env : Eval(e, env) = EvalNode(e, Evaluator(env), env)
           /\ \A schema : InferExprType(e, schema) = InferNode(e, Typing(schema), schema)
           /\ e.kind \in {"isnull", "unary", "aggregate"} => e.arg \in Exprs
           /\ e.kind = "binary" => e.left \in Exprs /\ e.right \in Exprs
<1>1. ASSUME NEW env PROVE Eval(e, env) = EvalNode(e, Evaluator(env), env)
  <2> DEFINE g == Evaluator(env)
  <2>1. g = [x \in Exprs |-> EvalNode(x, g, env)]
    BY EvaluatorUnfolds
  <2> HIDE DEF g
  <2>2. g[e] = EvalNode(e, g, env)
    BY <2>1
  <2> QED
    BY <2>2 DEF g, Eval
<1>2. ASSUME NEW schema PROVE InferExprType(e, schema) = InferNode(e, Typing(schema), schema)
  <2> DEFINE g == Typing(schema)
  <2>1. g = [x \in Exprs |-> InferNode(x, g, schema)]
    BY TypingUnfolds
  <2> HIDE DEF g
  <2>2. g[e] = InferNode(e, g, schema)
    BY <2>1
  <2> QED
    BY <2>2 DEF g, InferExprType
<1>3. Operands(e) \subseteq Exprs
  BY OperandsAreExprs DEF Exprs
<1>4. /\ e.kind \in {"isnull", "unary", "aggregate"} => e.arg \in Exprs
      /\ e.kind = "binary" => e.left \in Exprs /\ e.right \in Exprs
  BY <1>3 DEF Operands
<1> QED
  BY <1>1, <1>2, <1>4

LEMMA ExprKinds ==
    ASSUME NEW e \in Exprs
    PROVE  /\ e.kind \in {"literal", "column", "slot", "star", "none",
                          "isnull", "unary", "binary", "aggregate"}
           /\ e.kind = "literal" => e.val \in Values
           /\ e.kind = "unary" => e.op \in {"NOT", "-"}
           /\ e.kind = "isnull" => e.negate \in BOOLEAN
           /\ e.kind = "binary" => e.op \in Operators
BY ExprShape, MaxHeightAssumption DEF Exprs

-----------------------------------------------------------------------------
(* The type checker predicts the evaluator. *)

TypedEnv(env) ==
    /\ IsSchema(env.schema)
    /\ DOMAIN env.row = DOMAIN env.schema
    /\ \A n \in DOMAIN env.schema : env.row[n] \in Values /\ env.row[n].type = env.schema[n].type

LEMMA UnaryTyped ==
    ASSUME NEW op \in {"NOT", "-"}, NEW v \in Values, UnaryType(op, v.type) # NoType
    PROVE  EvalUnary(op, v) \in Values /\ EvalUnary(op, v).type = UnaryType(op, v.type)
<1>1. CASE op = "NOT"
  <2>1. v.type = TBool /\ UnaryType(op, v.type) = TBool
    BY <1>1 DEF UnaryType
  <2>2. EvalUnary(op, v) = Not(v)
    BY <1>1 DEF EvalUnary
  <2> QED
    BY <2>1, <2>2, ValueMembers DEF Not, Types
<1>2. CASE op = "-"
  <2>1. v.type \in {TInt, TFloat} /\ UnaryType(op, v.type) = v.type
    BY <1>2 DEF UnaryType, NumericType
  <2>2. CASE IsNull(v)
    BY <1>2, <2>1, <2>2 DEF EvalUnary
  <2>3. CASE ~IsNull(v) /\ v.type = TInt
    <3>1. EvalUnary(op, v) = Int64(IntAdd(0, -v.x))
      BY <1>2, <2>3 DEF EvalUnary
    <3>2. v.x \in IntRange /\ -v.x \in Int
      BY <2>3, TypedValues, ValueMembers, IntCutoffAssumption DEF IntRange
    <3>3. IntAdd(0, -v.x) \in IntRange
      BY <3>2, IntAddRange
    <3>4. Int64(IntAdd(0, -v.x)) \in IntValues
      BY <3>3 DEF IntValues
    <3> QED
      BY <2>1, <2>3, <3>1, <3>4, ValueMembers
  <2>4. CASE ~IsNull(v) /\ v.type = TFloat
    <3>1. EvalUnary(op, v) = FloatNeg(v)
      BY <1>2, <2>4, TypeNames DEF EvalUnary
    <3> QED
      BY <2>1, <2>4, <3>1, TypedValues, NegTyped, ValueMembers
  <2> QED
    BY <2>1, <2>2, <2>3, <2>4
<1> QED
  BY <1>1, <1>2

LEMMA OperatorNames ==
    /\ \A op \in Comparisons : op \notin ArithmeticOps /\ op \notin Connectives /\ op \notin {"AND", "OR"}
    /\ \A op \in ArithmeticOps : op \notin Comparisons /\ op \notin Connectives /\ op \notin {"AND", "OR"}
    /\ Connectives = {"AND", "OR"} /\ "AND" \notin Comparisons \cup ArithmeticOps
    /\ "OR" \notin Comparisons \cup ArithmeticOps /\ "AND" # "OR"
BY DEF Comparisons, ArithmeticOps, Connectives

LEMMA BinaryTyped ==
    ASSUME NEW op \in Operators, NEW l \in Values, NEW r \in Values, NEW saturates,
           BinaryType(op, l.type, r.type) # NoType
    PROVE  /\ EvalBinary(op, l, r, saturates) \in Values
           /\ EvalBinary(op, l, r, saturates).type = BinaryType(op, l.type, r.type)
<1>0. NullOf(TBool) \in Values /\ NullOf(TBool).type = TBool
  BY ValueMembers DEF Types
<1>1. CASE op \in ArithmeticOps
  <2>1. IsNumeric(l) /\ IsNumeric(r)
    BY <1>1, OperatorNames DEF BinaryType, NumericType, IsNumeric
  <2>2. EvalBinary(op, l, r, saturates) = Arithmetic(op, l, r, saturates)
    BY <1>1, OperatorNames DEF EvalBinary
  <2> QED
    BY <1>1, <2>1, <2>2, ArithmeticTyped
<1>2. CASE op \in Comparisons
  <2>1. BinaryType(op, l.type, r.type) = TBool
    BY <1>2, OperatorNames DEF BinaryType
  <2>2. EvalBinary(op, l, r, saturates)
           = IF Compare(l, r).known THEN Bool(CompareResult(op, Compare(l, r).ord)) ELSE NullOf(TBool)
    BY <1>2, OperatorNames DEF EvalBinary
  <2> QED
    BY <1>0, <2>1, <2>2, ValueMembers
<1>3. CASE op \in Connectives
  <2>1. BinaryType(op, l.type, r.type) = TBool
    BY <1>3, OperatorNames DEF BinaryType
  <2>2. EvalBinary(op, l, r, saturates) \in {And(l, r), Or(l, r)}
    BY <1>3, OperatorNames DEF EvalBinary
  <2> QED
    BY <1>0, <2>1, <2>2, ValueMembers DEF And, Or
<1> QED
  BY <1>1, <1>2, <1>3 DEF Operators

LEMMA TypingRange ==
    ASSUME NEW schema, IsSchema(schema)
    PROVE  \A e \in Exprs : InferExprType(e, schema) \in Types \cup {NoType}
<1> DEFINE S == {e \in Exprs : InferExprType(e, schema) \in Types \cup {NoType}}
<1>1. ASSUME NEW e \in Exprs, Operands(e) \subseteq S PROVE e \in S
  <2>0. InferExprType(e, schema) = InferNode(e, Typing(schema), schema)
    BY Unfolds
  <2>1. CASE e.kind = "literal"
    BY <2>0, <2>1, ExprKinds, ValueTypes DEF InferNode
  <2>2. CASE e.kind = "column"
    BY <2>0, <2>2, IndexIsFound DEF InferNode, IsSchema
  <2>3. CASE e.kind = "slot"
    BY <2>0, <2>3 DEF InferNode, IsSchema
  <2>4. CASE e.kind = "isnull"
    BY <2>0, <2>4 DEF InferNode, Types
  <2>5. CASE e.kind = "unary"
    <3>1. Typing(schema)[e.arg] \in Types \cup {NoType}
      BY <1>1, <2>5 DEF Operands, InferExprType
    <3>2. e.op \in {"NOT", "-"}
      BY <2>5, ExprKinds
    <3> QED
      BY <2>0, <2>5, <3>1, <3>2 DEF InferNode, UnaryType, Types
  <2>6. CASE e.kind = "binary"
    <3>1. e.op \in Operators
      BY <2>6, ExprKinds
    <3>2. ASSUME NEW l, NEW r PROVE BinaryType(e.op, l, r) \in Types \cup {NoType}
      <4>1. CASE e.op \in ArithmeticOps
        BY <4>1, OperatorNames DEF BinaryType, Types
      <4>2. CASE e.op \in Comparisons
        BY <4>2, OperatorNames DEF BinaryType, Types
      <4>3. CASE e.op \in Connectives
        BY <4>3, OperatorNames DEF BinaryType, Types
      <4> QED
        BY <3>1, <4>1, <4>2, <4>3 DEF Operators
    <3> QED
      BY <2>0, <2>6, <3>2 DEF InferNode
  <2>7. CASE e.kind \in {"star", "none", "aggregate"}
    BY <2>0, <2>7 DEF InferNode
  <2> QED
    BY <2>1, <2>2, <2>3, <2>4, <2>5, <2>6, <2>7, ExprKinds
<1> HIDE DEF S
<1>2. Exprs \subseteq S
  BY <1>1, Induction DEF Exprs
<1> QED
  BY <1>2 DEF S

(* inferExprType (typecheck.go) predicts Eval (eval.go) for every expression,
   every schema and every row of it: no error, and a value of the type. *)
THEOREM TypeIsPredicted ==
    ASSUME NEW env, TypedEnv(env)
    PROVE  \A e \in Exprs : InferExprType(e, env.schema) # NoType =>
               Eval(e, env) \in Values /\ Eval(e, env).type = InferExprType(e, env.schema)
<1> DEFINE Ty(e) == InferExprType(e, env.schema)
           V(e) == Eval(e, env)
           S == {e \in Exprs : Ty(e) # NoType => V(e) \in Values /\ V(e).type = Ty(e)}
<1>1. ASSUME NEW e \in Exprs, Operands(e) \subseteq S PROVE e \in S
  <2>0. Ty(e) = InferNode(e, Typing(env.schema), env.schema) /\ V(e) = EvalNode(e, Evaluator(env), env)
    BY Unfolds
  <2>1. CASE e.kind = "literal"
    BY <2>0, <2>1, ExprKinds DEF InferNode, EvalNode
  <2>2. CASE e.kind = "column"
    <3>1. PICK i : i = Index(env.schema, e.table, e.name)
      OBVIOUS
    <3>2. i # Unresolved => i \in DOMAIN env.schema
      BY <3>1, IndexIsFound DEF TypedEnv
    <3>3. Ty(e) = IF i = Unresolved THEN NoType ELSE env.schema[i].type
      BY <2>0, <2>2, <3>1 DEF InferNode
    <3>4. V(e) = IF i = Unresolved THEN NoValue ELSE env.row[i]
      BY <2>0, <2>2, <3>1 DEF EvalNode
    <3> QED
      BY <3>2, <3>3, <3>4 DEF TypedEnv
  <2>3. CASE e.kind = "slot"
    <3>1. Ty(e) = IF e.index \in DOMAIN env.schema THEN env.schema[e.index].type ELSE NoType
      BY <2>0, <2>3 DEF InferNode
    <3>2. V(e) = IF e.index \in DOMAIN env.row THEN env.row[e.index] ELSE NoValue
      BY <2>0, <2>3 DEF EvalNode
    <3> QED
      BY <3>1, <3>2 DEF TypedEnv
  <2>4. CASE e.kind = "isnull"
    <3>1. e.arg \in S
      BY <1>1, <2>4 DEF Operands
    <3>2. Ty(e) = IF Ty(e.arg) = NoType THEN NoType ELSE TBool
      BY <2>0, <2>4 DEF InferNode, InferExprType
    <3>3. V(e) = IF V(e.arg) = NoValue THEN NoValue ELSE Bool(IsNull(V(e.arg)) # e.negate)
      BY <2>0, <2>4 DEF EvalNode, Eval
    <3> HIDE DEF Ty, V
    <3>4. Ty(e.arg) # NoType => V(e.arg) # NoValue
      BY <3>1, ValueTypes
    <3> QED
      BY <3>2, <3>3, <3>4, ValueMembers
  <2>5. CASE e.kind = "unary"
    <3>1. e.arg \in S
      BY <1>1, <2>5 DEF Operands
    <3>2. Ty(e) = IF Ty(e.arg) = NoType THEN NoType ELSE UnaryType(e.op, Ty(e.arg))
      BY <2>0, <2>5 DEF InferNode, InferExprType
    <3>3. V(e) = IF V(e.arg) = NoValue THEN NoValue ELSE EvalUnary(e.op, V(e.arg))
      BY <2>0, <2>5 DEF EvalNode, Eval
    <3>4. e.op \in {"NOT", "-"}
      BY <2>5, ExprKinds
    <3> HIDE DEF Ty, V
    <3>5. Ty(e.arg) # NoType => V(e.arg) # NoValue /\ V(e.arg) \in Values /\ V(e.arg).type = Ty(e.arg)
      BY <3>1, ValueTypes
    <3> QED
      BY <3>2, <3>3, <3>4, <3>5, UnaryTyped
  <2>6. CASE e.kind = "binary"
    <3>1. e.left \in S /\ e.right \in S
      BY <1>1, <2>6 DEF Operands
    <3>2. Ty(e) = IF NoType \in {Ty(e.left), Ty(e.right)} THEN NoType
                  ELSE BinaryType(e.op, Ty(e.left), Ty(e.right))
      BY <2>0, <2>6 DEF InferNode, InferExprType
    <3>3. V(e) = IF NoValue \in {V(e.left), V(e.right)} THEN NoValue
                 ELSE EvalBinary(e.op, V(e.left), V(e.right), env.saturates)
      BY <2>0, <2>6 DEF EvalNode, Eval
    <3>4. e.op \in Operators
      BY <2>6, ExprKinds
    <3> HIDE DEF Ty, V
    <3>5. ASSUME NEW x \in {e.left, e.right}, Ty(x) # NoType
          PROVE  V(x) # NoValue /\ V(x) \in Values /\ V(x).type = Ty(x)
      BY <3>1, <3>5, ValueTypes
    <3> QED
      BY <3>2, <3>3, <3>4, <3>5, BinaryTyped
  <2>7. CASE e.kind \in {"star", "none", "aggregate"}
    BY <2>0, <2>7 DEF InferNode
  <2> QED
    BY <2>1, <2>2, <2>3, <2>4, <2>5, <2>6, <2>7, ExprKinds
<1> HIDE DEF S
<1>2. Exprs \subseteq S
  BY <1>1, Induction DEF Exprs
<1> QED
  BY <1>2 DEF S

-----------------------------------------------------------------------------
(* Conditions *)

LEMMA BoolKinds ==
    ASSUME NEW v \in Values, v.type = TBool
    PROVE  /\ v = NullOf(TBool) \/ v = Bool(TRUE) \/ v = Bool(FALSE)
           /\ ~IsTrue(NullOf(TBool)) /\ IsTrue(Bool(TRUE)) /\ ~IsTrue(Bool(FALSE))
           /\ IsNull(NullOf(TBool)) /\ ~IsNull(Bool(TRUE)) /\ ~IsNull(Bool(FALSE))
           /\ Not(NullOf(TBool)) = NullOf(TBool)
           /\ Not(Bool(TRUE)) = Bool(FALSE) /\ Not(Bool(FALSE)) = Bool(TRUE)
<1>1. v = NullOf(TBool) \/ v \in BoolValues
  BY TypedValues
<1>2. /\ ~IsTrue(NullOf(TBool)) /\ IsTrue(Bool(TRUE)) /\ ~IsTrue(Bool(FALSE))
      /\ IsNull(NullOf(TBool)) /\ ~IsNull(Bool(TRUE)) /\ ~IsNull(Bool(FALSE))
  BY DEF IsTrue, NullOf, Bool, IsNull
<1>3. Not(NullOf(TBool)) = NullOf(TBool)
  BY DEF Not, NullOf, IsNull
<1>4. Not(Bool(TRUE)) = Bool(FALSE) /\ Not(Bool(FALSE)) = Bool(TRUE)
  BY DEF Not, Bool, IsNull
<1> QED
  BY <1>1, <1>2, <1>3, <1>4 DEF BoolValues

(* A condition that the type checker accepts is true, false or unknown on every
   row: exactly one of c, NOT c and c IS NULL selects the row. *)
THEOREM OneOfThreeSelects ==
    ASSUME NEW env, TypedEnv(env), NEW e \in Exprs, InferExprType(e, env.schema) = TBool,
           UnaryExpr("NOT", e) \in Exprs, IsNullTest(e, FALSE) \in Exprs
    PROVE  Cardinality({x \in {e, UnaryExpr("NOT", e), IsNullTest(e, FALSE)} :
                           IsTrue(Eval(x, env))}) = 1
<1> DEFINE not == UnaryExpr("NOT", e)
           test == IsNullTest(e, FALSE)
           v == Eval(e, env)
           chosen == {x \in {e, not, test} : IsTrue(Eval(x, env))}
<1>1. v \in Values /\ v.type = TBool /\ v # NoValue
  BY TypeIsPredicted, TypeNames, ValueTypes DEF Types
<1>2. Eval(not, env) = Not(v)
  <2>1. not.kind = "unary" /\ not.op = "NOT" /\ not.arg = e
    BY DEF UnaryExpr
  <2>2. Eval(not, env) = IF v = NoValue THEN NoValue ELSE EvalUnary("NOT", v)
    BY <2>1, Unfolds DEF EvalNode, Eval
  <2> QED
    BY <1>1, <2>2 DEF EvalUnary
<1>3. Eval(test, env) = Bool(IsNull(v))
  <2>1. test.kind = "isnull" /\ test.negate = FALSE /\ test.arg = e
    BY DEF IsNullTest
  <2>0. test \in Exprs
    OBVIOUS
  <2> HIDE DEF test
  <2>2. Eval(test, env) = IF v = NoValue THEN NoValue ELSE Bool(IsNull(v) # test.negate)
    BY <2>0, <2>1, Unfolds DEF EvalNode, Eval
  <2> QED
    BY <1>1, <2>1, <2>2 DEF Bool, IsNull
<1> HIDE DEF v, not, test
<1>4. \E x : chosen = {x}
  <2>1. CASE v = NullOf(TBool)
    <3>1. ~IsTrue(v) /\ ~IsTrue(Eval(not, env)) /\ IsTrue(Eval(test, env))
      BY <1>1, <1>2, <1>3, <2>1, BoolKinds
    <3>2. chosen = {test}
      BY <3>1 DEF v
    <3> QED
      BY <3>2
  <2>2. CASE v = Bool(TRUE)
    <3>1. IsTrue(v) /\ ~IsTrue(Eval(not, env)) /\ ~IsTrue(Eval(test, env))
      BY <1>1, <1>2, <1>3, <2>2, BoolKinds DEF Bool, IsTrue
    <3>2. chosen = {e}
      BY <3>1 DEF v
    <3> QED
      BY <3>2
  <2>3. CASE v = Bool(FALSE)
    <3>1. ~IsTrue(v) /\ IsTrue(Eval(not, env)) /\ ~IsTrue(Eval(test, env))
      BY <1>1, <1>2, <1>3, <2>3, BoolKinds DEF Bool, IsTrue
    <3>2. chosen = {not}
      BY <3>1 DEF v
    <3> QED
      BY <3>2
  <2> QED
    BY <1>1, <2>1, <2>2, <2>3, BoolKinds
<1> HIDE DEF chosen
<1>5. Cardinality(chosen) = 1
  BY <1>4, FS_Singleton
<1> QED
  BY <1>5 DEF chosen, not, test

LEMMA CompareSwaps ==
    ASSUME NEW a \in Values, NEW b \in Values, Comparable(a, b)
    PROVE  /\ Compare(a, b).known <=> Compare(b, a).known
           /\ Compare(a, b).known => /\ Compare(a, b).ord \in {-1, 0, 1}
                                     /\ Compare(b, a).ord = -Compare(a, b).ord
<1>1. CASE Ordinary(a) /\ Ordinary(b)
  <2>1. Exact(a) \in Int /\ Exact(b) \in Int
    BY <1>1, OrdinaryShape
  <2>2. /\ Compare(a, b) = Known(Sign(Exact(a), Exact(b)))
        /\ Compare(b, a) = Known(Sign(Exact(b), Exact(a)))
    BY <1>1, CompareExact DEF Comparable
  <2> QED
    BY <2>1, <2>2 DEF Known, Sign
<1>2. CASE ~Ordinary(a) \/ ~Ordinary(b)
  BY <1>2 DEF Compare, Ordinary, Unknown
<1> QED
  BY <1>1, <1>2

LEMMA ComparisonValue ==
    ASSUME NEW op \in Comparisons, NEW l, NEW r, NEW saturates
    PROVE  EvalBinary(op, l, r, saturates)
              = IF Compare(l, r).known THEN Bool(CompareResult(op, Compare(l, r).ord)) ELSE NullOf(TBool)
BY OperatorNames DEF EvalBinary

(* The six comparisons are one three-valued order, on mixed numbers, NULL and
   NaN alike. *)
THEOREM ComparisonsAreOneOrder ==
    ASSUME NEW a \in Values, NEW b \in Values, Comparable(a, b), NEW saturates
    PROVE  OneOrder([op \in Comparisons |-> EvalBinary(op, a, b, saturates)],
                    EvalBinary("<", b, a, saturates))
<1> DEFINE on == [op \in Comparisons |-> EvalBinary(op, a, b, saturates)]
           c == Compare(a, b)
<1>0. Comparisons = {"=", "<>", "<", "<=", ">", ">="}
  BY DEF Comparisons
<1>1. \A op \in Comparisons :
         on[op] = IF c.known THEN Bool(CompareResult(op, c.ord)) ELSE NullOf(TBool)
  BY ComparisonValue
<1>2. EvalBinary("<", b, a, saturates)
         = IF Compare(b, a).known THEN Bool(CompareResult("<", Compare(b, a).ord)) ELSE NullOf(TBool)
  BY <1>0, ComparisonValue
<1> HIDE DEF on
<1>3. CASE ~c.known
  <2>1. Not(NullOf(TBool)) = NullOf(TBool) /\ Or(NullOf(TBool), NullOf(TBool)) = NullOf(TBool)
    BY DEF Not, Or, NullOf, IsNull, IsTrue
  <2>2. IsNull(NullOf(TBool))
    BY DEF NullOf, IsNull
  <2>3. \A op \in Comparisons : on[op] = NullOf(TBool)
    BY <1>1, <1>3
  <2>4. EvalBinary("<", b, a, saturates) = NullOf(TBool)
    BY <1>2, <1>3, CompareSwaps
  <2> QED
    BY <1>0, <2>1, <2>2, <2>3, <2>4 DEF OneOrder, on
<1>4. CASE c.known
  <2>1. PICK m : m = c.ord
    OBVIOUS
  <2>2. m \in {-1, 0, 1} /\ Compare(b, a).known /\ Compare(b, a).ord = -m
    BY <1>4, <2>1, CompareSwaps
  <2>3. /\ on["="] = Bool(m = 0) /\ on["<>"] = Bool(m # 0) /\ on["<"] = Bool(m < 0)
        /\ on["<="] = Bool(m <= 0) /\ on[">"] = Bool(m > 0) /\ on[">="] = Bool(m >= 0)
    <3>1. \A op \in Comparisons : on[op] = Bool(CompareResult(op, m))
      BY <1>1, <1>4, <2>1
    <3> QED
      BY <1>0, <3>1 DEF CompareResult
  <2>4. EvalBinary("<", b, a, saturates) = Bool(-m < 0)
    BY <1>2, <2>2 DEF CompareResult
  <2>5. /\ Not(Bool(TRUE)) = Bool(FALSE) /\ Not(Bool(FALSE)) = Bool(TRUE)
        /\ \A p, q \in BOOLEAN : Or(Bool(p), Bool(q)) = Bool(p \/ q)
        /\ \A p \in BOOLEAN : ~IsNull(Bool(p))
    <3>1. Not(Bool(TRUE)) = Bool(FALSE) /\ Not(Bool(FALSE)) = Bool(TRUE)
      BY DEF Not, Bool, IsNull
    <3>2. \A p, q \in BOOLEAN : Or(Bool(p), Bool(q)) = Bool(p \/ q)
      BY DEF Or, Bool, IsNull, IsTrue
    <3>3. \A p \in BOOLEAN : ~IsNull(Bool(p))
      BY DEF Bool, IsNull
    <3> QED
      BY <3>1, <3>2, <3>3
  <2>6. CASE m = -1
    <3>1. /\ on["="] = Bool(FALSE) /\ on["<>"] = Bool(TRUE) /\ on["<"] = Bool(TRUE)
          /\ on["<="] = Bool(TRUE) /\ on[">"] = Bool(FALSE) /\ on[">="] = Bool(FALSE)
          /\ EvalBinary("<", b, a, saturates) = Bool(FALSE)
      BY <2>3, <2>4, <2>6 DEF Bool
    <3> QED
      BY <2>5, <3>1 DEF OneOrder, on
  <2>7. CASE m = 0
    <3>1. /\ on["="] = Bool(TRUE) /\ on["<>"] = Bool(FALSE) /\ on["<"] = Bool(FALSE)
          /\ on["<="] = Bool(TRUE) /\ on[">"] = Bool(FALSE) /\ on[">="] = Bool(TRUE)
          /\ EvalBinary("<", b, a, saturates) = Bool(FALSE)
      BY <2>3, <2>4, <2>7 DEF Bool
    <3> QED
      BY <2>5, <3>1 DEF OneOrder, on
  <2>8. CASE m = 1
    <3>1. /\ on["="] = Bool(FALSE) /\ on["<>"] = Bool(TRUE) /\ on["<"] = Bool(FALSE)
          /\ on["<="] = Bool(FALSE) /\ on[">"] = Bool(TRUE) /\ on[">="] = Bool(TRUE)
          /\ EvalBinary("<", b, a, saturates) = Bool(TRUE)
      BY <2>3, <2>4, <2>8 DEF Bool
    <3> QED
      BY <2>5, <3>1 DEF OneOrder, on
  <2> QED
    BY <2>2, <2>6, <2>7, <2>8
<1> QED
  BY <1>3, <1>4
-----------------------------------------------------------------------------
(* INT arithmetic by way of float64 *)

Finite(v) == v \in FloatValues /\ ~IsNaN(v) /\ v.x > -Inf /\ v.x < Inf

LEMMA SignedNumber ==
    ASSUME NEW h, NEW negative
    PROVE  Signed(h, negative).x = h /\ ~IsNaN(Signed(h, negative))
BY DEF Signed, Float64, NegZero, IsNaN

LEMMA NegExact ==
    ASSUME NEW v, Finite(v)
    PROVE  Finite(FloatNeg(v)) /\ FloatNeg(v).x = -v.x
<1>1. v.x \in Int /\ Inf \in Int
  BY FloatFacts, InfFacts DEF Finite
<1>2. FloatNeg(v) = Signed(-v.x, ~Negative(v)) /\ FloatNeg(v) \in FloatValues
  BY NegTyped DEF FloatNeg, Finite
<1> QED
  BY <1>1, <1>2, SignedNumber DEF Finite

LEMMA SumExact ==
    ASSUME NEW a, NEW b, Finite(a), Finite(b), a.x + b.x \in Floats
    PROVE  /\ FloatSum(a, b) \in FloatValues /\ ~IsNaN(FloatSum(a, b))
           /\ FloatSum(a, b).x = a.x + b.x
<1>1. a.x \in Int /\ b.x \in Int /\ Inf \in Int /\ FloatSum(a, b) \in FloatValues
  BY FloatFacts, InfFacts, SumTyped DEF Finite
<1>2. CASE IsZero(a) /\ IsZero(b)
  <2>1. a.x + b.x = 0
    BY <1>2 DEF IsZero
  <2>2. FloatSum(a, b) = Signed(0, Negative(a) /\ Negative(b))
    BY <1>2 DEF FloatSum
  <2> QED
    BY <1>1, <2>1, <2>2, SignedNumber
<1>3. CASE ~(IsZero(a) /\ IsZero(b))
  <2>0. a.x # Inf /\ b.x # Inf /\ a.x # -Inf /\ b.x # -Inf
    BY <1>1 DEF Finite
  <2>1. Inf \notin {a.x, b.x} /\ -Inf \notin {a.x, b.x} /\ {a.x, b.x} # {Inf, -Inf}
    BY <2>0
  <2>2. ~(a.x + b.x > Inf) /\ ~(a.x + b.x < -Inf)
    BY <1>1, InfFacts
  <2>3. FloatAdd(a, b) = Float64(Round[a.x + b.x])
    BY <2>1, <2>2 DEF FloatAdd, Finite
  <2>4. FloatSum(a, b) = Float64(a.x + b.x)
    BY <1>3, <2>3, RoundFloat DEF FloatSum
  <2> QED
    BY <1>1, <2>4 DEF Float64, IsNaN
<1> QED
  BY <1>2, <1>3

LEMMA MulExact ==
    ASSUME NEW a, NEW b, Finite(a), Finite(b), NEW p \in Int, a.x * b.x = 2 * p, p \in Floats
    PROVE  /\ FloatMul(a, b) \in FloatValues /\ ~IsNaN(FloatMul(a, b))
           /\ FloatMul(a, b).x = p
<1>1. a.x \in Int /\ b.x \in Int /\ Inf \in Int /\ FloatMul(a, b) \in FloatValues
  BY FloatFacts, InfFacts, MulTyped DEF Finite
<1>2. ~IsInf(a) /\ ~IsInf(b)
  BY <1>1 DEF IsInf, Finite
<1>3. FloatMul(a, b) = Signed(RoundRatio(2 * p, 2), Negative(a) # Negative(b))
  BY <1>2 DEF FloatMul, Finite
<1>4. (2 * p) % 2 = 0 /\ (2 * p) \div 2 = p
  OBVIOUS
<1>5. ~(p > Inf) /\ ~(p < -Inf) /\ Round[p] = p
  BY <1>1, InfFacts, RoundFloat
<1>6. RoundRatio(2 * p, 2) = p
  BY <1>4, <1>5 DEF RoundRatio
<1> QED
  BY <1>1, <1>3, <1>6, SignedNumber

LEMMA ConvertExact ==
    ASSUME NEW f \in FloatValues, ~IsNaN(f), NEW i \in IntRange, f.x = 2 * i, NEW saturates
    PROVE  ConvertInt(f, saturates) = Int64(i)
<1>1. i \in Int /\ IntCutoff \in Nat /\ -IntCutoff <= i /\ i < IntCutoff
  BY IntCutoffAssumption DEF IntRange
<1>2. -(2 * IntCutoff) <= f.x /\ f.x < 2 * IntCutoff
  BY <1>1
<1>3. Truncate(f.x) = i
  BY <1>1 DEF Truncate
<1> QED
  BY <1>2, <1>3 DEF ConvertInt

(* INT arithmetic goes through float64 and is exact when the operands and the
   result are INTs that float64 holds. *)
THEOREM IntArithmetic ==
    ASSUME NEW op \in {"+", "-", "*"}, NEW l \in Values, NEW r \in Values, NEW saturates,
           l.type = TInt, r.type = TInt
    PROVE  Exactly(op, l, r, Arithmetic(op, l, r, saturates))
<1> SUFFICES ASSUME ~IsNull(l), ~IsNull(r), ExactKey(l), ExactKey(r),
                    ExactResult(op, l.x, r.x) \in IntRange,
                    2 * ExactResult(op, l.x, r.x) \in Floats
             PROVE  Arithmetic(op, l, r, saturates) = Int64(ExactResult(op, l.x, r.x))
  BY DEF Exactly
<1>1. PICK i, j, e : i = l.x /\ j = r.x /\ e = ExactResult(op, l.x, r.x)
  OBVIOUS
<1>2. i \in IntRange /\ j \in IntRange /\ e \in IntRange /\ i \in Int /\ j \in Int /\ e \in Int
  BY <1>1, TypedValues, ValueMembers, IntCutoffAssumption DEF IntRange
<1>3. PICK a, b : a = ToF(l) /\ b = ToF(r)
  OBVIOUS
<1>4. 2 * i \in Floats /\ 2 * j \in Floats /\ 2 * e \in Floats
  BY <1>1 DEF ExactKey
<1>5. a = Float64(2 * i) /\ b = Float64(2 * j)
  BY <1>1, <1>3, <1>4, RoundFloat DEF ToF, ToFloat
<1>6. /\ a.x = 2 * i /\ b.x = 2 * j /\ a \in FloatValues /\ b \in FloatValues
      /\ ~IsNaN(a) /\ ~IsNaN(b)
  BY <1>4, <1>5, FloatMembers DEF Float64, IsNaN
<1>7. Finite(a) /\ Finite(b)
  BY <1>2, <1>6, InfFacts, IntCutoffAssumption DEF Finite, IntRange
<1>8. PICK res : res = FloatArithmetic(op, a, b)
  OBVIOUS
<1>9. res \in FloatValues /\ ~IsNaN(res) /\ res.x = 2 * e
  <2>1. CASE op = "+"
    <3>1. e = i + j /\ res = FloatSum(a, b)
      BY <1>1, <1>8, <2>1 DEF ExactResult, FloatArithmetic
    <3>2. a.x + b.x = 2 * e
      BY <1>2, <1>6, <3>1
    <3> QED
      BY <1>4, <1>7, <3>1, <3>2, SumExact
  <2>2. CASE op = "-"
    <3>1. e = i - j /\ res = FloatSum(a, FloatNeg(b))
      BY <1>1, <1>8, <2>2 DEF ExactResult, FloatArithmetic
    <3>2. Finite(FloatNeg(b)) /\ FloatNeg(b).x = -b.x
      BY <1>7, NegExact
    <3>3. a.x + FloatNeg(b).x = 2 * e
      BY <1>2, <1>6, <3>1, <3>2
    <3> QED
      BY <1>4, <1>7, <3>1, <3>2, <3>3, SumExact
  <2>3. CASE op = "*"
    <3>1. e = i * j /\ res = FloatMul(a, b)
      BY <1>1, <1>8, <2>3 DEF ExactResult, FloatArithmetic
    <3>2. a.x * b.x = (2 * i) * (2 * j)
      BY <1>6
    <3>3. (2 * i) * (2 * j) = 2 * (2 * (i * j))
      BY <1>2
    <3>4. a.x * b.x = 2 * (2 * e) /\ 2 * e \in Int
      BY <1>2, <3>1, <3>2, <3>3
    <3> QED
      BY <1>4, <1>7, <3>1, <3>4, MulExact
  <2> QED
    BY <2>1, <2>2, <2>3
<1>10. Arithmetic(op, l, r, saturates) = ConvertInt(res, saturates)
  <2>1. op # "/" /\ ~(IsNull(l) \/ IsNull(r))
    OBVIOUS
  <2> QED
    BY <1>3, <1>8, <2>1 DEF Arithmetic, NumberResult
<1> QED
  BY <1>1, <1>2, <1>9, <1>10, ConvertExact

-----------------------------------------------------------------------------
(* The growing expressions *)

ExprSpec == ExprInit /\ [][Grow]_<<expr, depth>>

\* An expression of that many levels, the leaves among them.
ExprInv == depth \in 1 .. MaxDepth /\ expr \in Levels(LeafExprs)[depth - 1]

LEMMA ExprInvariant == ExprSpec => []ExprInv
<1>1. ExprInit => ExprInv
  <2> SUFFICES ASSUME ExprInit PROVE ExprInv
    OBVIOUS
  <2>1. Levels(LeafExprs)[0] = LeafExprs
    BY LevelsUnfold
  <2> QED
    BY <2>1, LeavesAssumption, MaxDepthAssumption, MaxHeightAssumption DEF ExprInit, ExprInv
<1>2. ExprInv /\ [Grow]_<<expr, depth>> => ExprInv'
  <2> SUFFICES ASSUME ExprInv, [Grow]_<<expr, depth>> PROVE ExprInv'
    OBVIOUS
  <2>1. CASE Grow
    <3> DEFINE L == Levels(LeafExprs)[depth - 1]
    <3>1. /\ depth \in 1 .. MaxHeight /\ depth - 1 \in 0 .. MaxHeight /\ expr \in L
          /\ depth' = depth + 1 /\ depth' \in 1 .. MaxDepth /\ depth' - 1 = depth
      BY <2>1, MaxDepthAssumption, MaxHeightAssumption DEF Grow, ExprInv
    <3>2. LeafExprs \subseteq L
      BY <3>1, LevelsGrow
    <3>3. Levels(LeafExprs)[depth] = LeafExprs \cup NodesOver(L)
      BY <3>1, LevelsUnfold
    <3>4. \A op : Partners(op) \subseteq L
      <4>1. \A op : Partners(op) \subseteq Leaves
        BY DEF Partners, Leaves
      <4> QED
        BY <3>2, <4>1, LeavesAssumption
    <3> HIDE DEF L
    <3>5. expr' \in NodesOver(L)
      <4>1. ASSUME NEW op \in {"NOT", "-"}, expr' = UnaryExpr(op, expr) PROVE expr' \in NodesOver(L)
        BY <3>1, <4>1 DEF UnaryExpr, NodesOver
      <4>2. ASSUME NEW negate \in BOOLEAN, expr' = IsNullTest(expr, negate)
            PROVE  expr' \in NodesOver(L)
        BY <3>1, <4>2 DEF IsNullTest, NodesOver
      <4>3. ASSUME NEW op \in Comparisons \cup ArithmeticOps \cup Connectives, NEW e \in Partners(op),
                   expr' \in {BinaryExpr(op, expr, e), BinaryExpr(op, e, expr)}
            PROVE  expr' \in NodesOver(L)
        <5>1. e \in L
          BY <3>4
        <5> QED
          BY <3>1, <4>3, <5>1 DEF BinaryExpr, NodesOver
      <4> QED
        BY <2>1, <4>1, <4>2, <4>3 DEF Grow
    <3> QED
      BY <3>1, <3>3, <3>5 DEF ExprInv
  <2>2. CASE UNCHANGED <<expr, depth>>
    BY <2>2 DEF ExprInv
  <2> QED
    BY <2>1, <2>2
<1> QED
  BY <1>1, <1>2, PTL DEF ExprSpec

LEMMA ExprFacts ==
    ASSUME ExprInv
    PROVE  /\ expr \in Exprs
           /\ UnaryExpr("NOT", expr) \in Exprs /\ IsNullTest(expr, FALSE) \in Exprs
           /\ Type = InferExprType(expr, Schema)
<1>1. depth \in 1 .. MaxHeight /\ depth - 1 \in 0 .. MaxHeight /\ depth # 0 /\ depth \in 0 .. MaxHeight
  BY MaxDepthAssumption, MaxHeightAssumption DEF ExprInv
<1> DEFINE L == Levels(LeafExprs)[depth - 1]
<1>2. L \subseteq Exprs /\ Levels(LeafExprs)[depth] \subseteq Exprs
  BY <1>1, LevelsGrow DEF Exprs
<1>3. Levels(LeafExprs)[depth] = LeafExprs \cup NodesOver(L)
  BY <1>1, LevelsUnfold
<1>4. expr \in L
  BY DEF ExprInv
<1> HIDE DEF L
<1>5. UnaryExpr("NOT", expr) \in NodesOver(L) /\ IsNullTest(expr, FALSE) \in NodesOver(L)
  BY <1>4 DEF NodesOver, UnaryExpr, IsNullTest
<1> QED
  BY <1>1, <1>2, <1>3, <1>4, <1>5 DEF Type

LEMMA EnvsAreTyped ==
    ASSUME NEW targets, NEW env \in Envs(targets)
    PROVE  TypedEnv(env) /\ env.schema = Schema
<1> DEFINE Fits(v, n) == v \in Values /\ v.type = Schema[n].type
           RowFits(row) == DOMAIN row = 1 .. 5 /\ \A n \in 1 .. 5 : Fits(row[n], n)
<1>0. 1 .. 5 = {1, 2, 3, 4, 5}
  OBVIOUS
<1>2. /\ Schema[1].type = TInt /\ Schema[2].type = TFloat /\ Schema[3].type = TBool
      /\ Schema[4].type = TText /\ Schema[5].type = TInt
  BY DEF Schema, Qualified
<1>1. IsSchema(Schema) /\ DOMAIN Schema = 1 .. 5
  <2>1. DOMAIN Schema = 1 .. 5 /\ Len(Schema) = 5
    BY DEF Schema
  <2>2. \A n \in 1 .. 5 : Schema[n].type \in Types
    BY <1>0, <1>2 DEF Types
  <2> QED
    BY <2>1, <2>2 DEF IsSchema
<1>3. IntCutoff > 3 /\ IntCutoff \in Nat
  <2>1. Int64(3) \in IntValues
    BY RowsAssumption, TypedValues, TypeNames DEF Int64, IsNull
  <2>2. 3 \in IntRange
    BY <2>1, ValueMembers DEF Int64
  <2> QED
    BY <2>2, IntCutoffAssumption DEF IntRange
<1>4. \A i \in IntRange : Int64(i) \in Values /\ Int64(i).type = TInt
  BY DEF Values, IntValues, Int64
<1>5. /\ 1 \in IntRange /\ 3 \in IntRange /\ -IntCutoff \in IntRange /\ IntCutoff - 1 \in IntRange
      /\ 1 \in Floats
  BY <1>3, FloatsAssumption, IntCutoffAssumption DEF IntRange
<1>6. /\ \A t \in Types : NullOf(t) \in Values /\ NullOf(t).type = t
      /\ Types = {TInt, TFloat, TText, TBool}
      /\ \A h \in Floats : Float64(h) \in Values /\ Float64(h).type = TFloat
      /\ NaN \in Values /\ NaN.type = TFloat /\ NegZero \in Values /\ NegZero.type = TFloat
      /\ \A b \in BOOLEAN : Bool(b) \in Values /\ Bool(b).type = TBool
      /\ Inf \in Floats
  BY ValueMembers, FloatMembers, InfFacts DEF Types
<1>7. Text(2) \in Values /\ Text(2).type = TText
  BY RowsAssumption DEF Text
<1>8. RowFits(Plain)
  <2>1. DOMAIN Plain = 1 .. 5
    BY DEF Plain
  <2>2. /\ Plain[1] = Int64(3) /\ Plain[2] = Float64(1) /\ Plain[3] = Bool(TRUE)
        /\ Plain[4] = Text(2) /\ Plain[5] = Int64(1)
    BY DEF Plain
  <2>3. /\ Fits(Plain[1], 1) /\ Fits(Plain[2], 2) /\ Fits(Plain[3], 3)
        /\ Fits(Plain[4], 4) /\ Fits(Plain[5], 5)
    BY <1>2, <1>4, <1>5, <1>6, <1>7, <2>2
  <2> HIDE DEF Fits
  <2> QED
    BY <1>0, <2>1, <2>3
<1>9. \A n \in 1 .. 5 : \A v \in Corners[n] : Fits(v, n)
  <2>1. \A v \in Ints : v \in Values /\ v.type = TInt
    BY <1>4, <1>5, <1>6 DEF Ints
  <2>2. /\ Corners[1] = Ints /\ Corners[2] = {Float64(Inf), NaN, NegZero, NullOf(TFloat)}
        /\ Corners[3] = {Bool(FALSE), NullOf(TBool)} /\ Corners[4] = {NullOf(TText)}
        /\ Corners[5] = Ints
    BY DEF Corners
  <2> QED
    BY <1>0, <1>2, <1>6, <2>1, <2>2
<1>10. ASSUME NEW row, RowFits(row), NEW p, NEW v, p \in 1 .. 5 => Fits(v, p)
       PROVE  RowFits([row EXCEPT ![p] = v])
  BY <1>10
<1>11. ASSUME NEW row \in Rows PROVE RowFits(row)
  <2>1. CASE row = Plain
    BY <1>8, <2>1
  <2>2. ASSUME NEW p, NEW v \in Corners[p[1]] \cup {Plain[p[1]]}, NEW w \in Corners[p[2]],
               row = [Plain EXCEPT ![p[1]] = v, ![p[2]] = w]
        PROVE  RowFits(row)
    <3>1. PICK m, n : m = p[1] /\ n = p[2]
      OBVIOUS
    <3> HIDE DEF RowFits, Fits
    <3>2. m \in 1 .. 5 => Fits(v, m)
      BY <1>8, <1>9, <2>2, <3>1 DEF RowFits
    <3>3. n \in 1 .. 5 => Fits(w, n)
      BY <1>9, <3>1
    <3>4. RowFits([Plain EXCEPT ![m] = v])
      BY <1>8, <1>10, <3>2
    <3>5. RowFits([[Plain EXCEPT ![m] = v] EXCEPT ![n] = w])
      BY <1>10, <3>3, <3>4
    <3>6. row = [[Plain EXCEPT ![m] = v] EXCEPT ![n] = w]
      BY <2>2, <3>1
    <3> QED
      BY <3>5, <3>6
  <2> HIDE DEF RowFits
  <2> QED
    BY <2>1, <2>2 DEF Rows
<1>12. env.schema = Schema /\ env.row \in Rows
  BY DEF Envs
<1> QED
  BY <1>1, <1>11, <1>12 DEF TypedEnv

(* Whatever expression the type checker accepts, Eval returns a value of the
   type it inferred, on the rows of corner cases and on both kinds of target
   (typecheck.go:11-87, eval.go:10-59). *)
THEOREM TypesArePredicted == ExprSpec => []InferredTypeIsRuntimeType
<1>1. ExprInv => InferredTypeIsRuntimeType
  BY ExprFacts, EnvsAreTyped, TypeIsPredicted DEF InferredTypeIsRuntimeType
<1> QED
  BY <1>1, ExprInvariant, PTL

LEMMA BinaryNodes ==
    ASSUME NEW n \in 0 .. MaxHeight, NEW e \in Levels(LeafExprs)[n], e.kind = "binary",
           NEW op \in Operators
    PROVE  /\ BinaryExpr(op, e.left, e.right) \in Levels(LeafExprs)[n]
           /\ BinaryExpr(op, e.right, e.left) \in Levels(LeafExprs)[n]
           /\ [e EXCEPT !.op = op] = BinaryExpr(op, e.left, e.right)
<1> DEFINE S == Below(LeafExprs, n)
<1>1. n # 0 /\ e.left \in S /\ e.right \in S /\ e = BinaryExpr(e.op, e.left, e.right)
  BY ExprShape
<1>2. n \in 1 .. MaxHeight /\ Levels(LeafExprs)[n] = LeafExprs \cup NodesOver(S)
  BY <1>1, MaxHeightAssumption, LevelsUnfold DEF Below
<1> HIDE DEF S
<1>3. BinaryExpr(op, e.left, e.right) \in NodesOver(S) /\ BinaryExpr(op, e.right, e.left) \in NodesOver(S)
  BY <1>1 DEF NodesOver, BinaryExpr, Operators
<1>4. [e EXCEPT !.op = op] = BinaryExpr(op, e.left, e.right)
  BY <1>1 DEF BinaryExpr
<1> QED
  BY <1>2, <1>3, <1>4

(* A node that the type checker accepts evaluates its operands to values. *)
LEMMA TypedOperands ==
    ASSUME NEW env, TypedEnv(env), NEW e \in Exprs, e.kind = "binary",
           InferExprType(e, env.schema) # NoType
    PROVE  /\ e.left \in Exprs /\ e.right \in Exprs /\ e.op \in Operators
           /\ Eval(e.left, env) \in Values /\ Eval(e.left, env) # NoValue
           /\ Eval(e.right, env) \in Values /\ Eval(e.right, env) # NoValue
           /\ InferExprType(e, env.schema)
                 = BinaryType(e.op, Eval(e.left, env).type, Eval(e.right, env).type)
<1>1. e.left \in Exprs /\ e.right \in Exprs /\ e.op \in Operators
  BY Unfolds, ExprKinds
<1>2. InferExprType(e, env.schema)
         = IF NoType \in {InferExprType(e.left, env.schema), InferExprType(e.right, env.schema)}
           THEN NoType
           ELSE BinaryType(e.op, InferExprType(e.left, env.schema), InferExprType(e.right, env.schema))
  BY Unfolds DEF InferNode, InferExprType
<1>3. /\ InferExprType(e.left, env.schema) # NoType /\ InferExprType(e.right, env.schema) # NoType
      /\ InferExprType(e, env.schema)
            = BinaryType(e.op, InferExprType(e.left, env.schema), InferExprType(e.right, env.schema))
  BY <1>2
<1>4. /\ Eval(e.left, env) \in Values /\ Eval(e.left, env).type = InferExprType(e.left, env.schema)
      /\ Eval(e.right, env) \in Values /\ Eval(e.right, env).type = InferExprType(e.right, env.schema)
  BY <1>1, <1>3, TypeIsPredicted
<1> QED
  BY <1>1, <1>3, <1>4, ValueTypes

LEMMA BinaryValue ==
    ASSUME NEW env, NEW e \in Exprs, e.kind = "binary",
           Eval(e.left, env) # NoValue, Eval(e.right, env) # NoValue
    PROVE  Eval(e, env) = EvalBinary(e.op, Eval(e.left, env), Eval(e.right, env), env.saturates)
<1>1. Eval(e, env) = IF NoValue \in {Eval(e.left, env), Eval(e.right, env)} THEN NoValue
                     ELSE EvalBinary(e.op, Eval(e.left, env), Eval(e.right, env), env.saturates)
  BY Unfolds DEF EvalNode, Eval
<1> QED
  BY <1>1

(* An accepted condition, its negation and its being unknown select each row
   once, as Filter keeps a row for exactly TRUE, and the six comparisons are
   one three-valued order (eval.go:41-104, logic.go). *)
THEOREM ConditionsPartition == ExprSpec => []ConditionsPartitionRows
<1>1. ASSUME ExprInv, Type = TBool, NEW env \in Envs({TRUE})
      PROVE  /\ Cardinality({e \in {expr, UnaryExpr("NOT", expr), IsNullTest(expr, FALSE)} :
                                IsTrue(Eval(e, env))}) = 1
             /\ expr.kind = "binary" /\ expr.op \in Comparisons =>
                   OneOrder([op \in Comparisons |-> Eval([expr EXCEPT !.op = op], env)],
                            Eval(BinaryExpr("<", expr.right, expr.left), env))
  <2>1. TypedEnv(env) /\ env.schema = Schema
    BY <1>1, EnvsAreTyped
  <2>2. /\ expr \in Exprs /\ UnaryExpr("NOT", expr) \in Exprs /\ IsNullTest(expr, FALSE) \in Exprs
        /\ InferExprType(expr, env.schema) = TBool
    BY <1>1, <2>1, ExprFacts
  <2>3. ASSUME expr.kind = "binary", expr.op \in Comparisons
        PROVE  OneOrder([op \in Comparisons |-> Eval([expr EXCEPT !.op = op], env)],
                        Eval(BinaryExpr("<", expr.right, expr.left), env))
    <3>1. PICK l, r : l = Eval(expr.left, env) /\ r = Eval(expr.right, env)
      OBVIOUS
    <3>2. /\ l \in Values /\ l # NoValue /\ r \in Values /\ r # NoValue
          /\ BinaryType(expr.op, l.type, r.type) = TBool
      BY <2>1, <2>2, <2>3, <3>1, TypedOperands, TypeNames DEF Types
    <3>3. Comparable(l, r)
      <4>1. BinaryType(expr.op, l.type, r.type) = IF ComparableTypes(l.type, r.type) THEN TBool ELSE NoType
        BY <2>3, OperatorNames DEF BinaryType
      <4> QED
        BY <3>2, <4>1, TypeNames DEF Types, ComparableTypes, NumericType, Comparable, IsNumeric
    <3>4. ASSUME NEW op \in Comparisons
          PROVE  /\ Eval([expr EXCEPT !.op = op], env) = EvalBinary(op, l, r, env.saturates)
                 /\ Eval(BinaryExpr(op, expr.right, expr.left), env) = EvalBinary(op, r, l, env.saturates)
      <4> DEFINE same == BinaryExpr(op, expr.left, expr.right)
                 swapped == BinaryExpr(op, expr.right, expr.left)
      <4>1. depth - 1 \in 0 .. MaxHeight /\ expr \in Levels(LeafExprs)[depth - 1]
        BY <1>1, MaxDepthAssumption, MaxHeightAssumption DEF ExprInv
      <4>2. same \in Exprs /\ swapped \in Exprs /\ [expr EXCEPT !.op = op] = same
        BY <2>3, <4>1, BinaryNodes, LevelsGrow DEF Exprs, Operators
      <4>3. /\ same.kind = "binary" /\ same.op = op /\ same.left = expr.left /\ same.right = expr.right
            /\ swapped.kind = "binary" /\ swapped.op = op
            /\ swapped.left = expr.right /\ swapped.right = expr.left
        BY DEF BinaryExpr
      <4> HIDE DEF same, swapped
      <4>4. /\ Eval(same, env) = EvalBinary(op, l, r, env.saturates)
            /\ Eval(swapped, env) = EvalBinary(op, r, l, env.saturates)
        BY <3>1, <3>2, <4>2, <4>3, BinaryValue
      <4> QED
        BY <4>2, <4>4 DEF swapped
    <3>5. "<" \in Comparisons
      BY DEF Comparisons
    <3>6. OneOrder([op \in Comparisons |-> EvalBinary(op, l, r, env.saturates)],
                   EvalBinary("<", r, l, env.saturates))
      BY <3>2, <3>3, ComparisonsAreOneOrder
    <3>7. [op \in Comparisons |-> Eval([expr EXCEPT !.op = op], env)]
             = [op \in Comparisons |-> EvalBinary(op, l, r, env.saturates)]
      BY <3>4
    <3>8. Eval(BinaryExpr("<", expr.right, expr.left), env) = EvalBinary("<", r, l, env.saturates)
      BY <3>4, <3>5
    <3> QED
      BY <3>6, <3>7, <3>8
  <2> QED
    BY <2>1, <2>2, <2>3, OneOfThreeSelects
<1>2. ExprInv => ConditionsPartitionRows
  BY <1>1 DEF ConditionsPartitionRows
<1> QED
  BY <1>2, ExprInvariant, PTL

(* The detour of INT arithmetic through float64 (eval.go:106-140) loses nothing
   while float64 holds the operands and the result. *)
THEOREM IntsAreExact == ExprSpec => []IntArithmeticIsExact
<1>1. ASSUME ExprInv, expr.kind = "binary", expr.op \in {"+", "-", "*"}, Type = TInt,
             NEW env \in Envs({TRUE})
      PROVE  Exactly(expr.op, Eval(expr.left, env), Eval(expr.right, env), Eval(expr, env))
  <2>1. TypedEnv(env) /\ env.schema = Schema
    BY <1>1, EnvsAreTyped
  <2>2. expr \in Exprs /\ InferExprType(expr, env.schema) = TInt
    BY <1>1, <2>1, ExprFacts
  <2>3. PICK l, r : l = Eval(expr.left, env) /\ r = Eval(expr.right, env)
    OBVIOUS
  <2>4. /\ l \in Values /\ l # NoValue /\ r \in Values /\ r # NoValue
        /\ BinaryType(expr.op, l.type, r.type) = TInt
    BY <1>1, <2>1, <2>2, <2>3, TypedOperands, TypeNames DEF Types
  <2>5. expr.op \in ArithmeticOps
    BY <1>1 DEF ArithmeticOps
  <2>6. l.type = TInt /\ r.type = TInt
    <3>1. BinaryType(expr.op, l.type, r.type)
             = IF ~NumericType(l.type) \/ ~NumericType(r.type) THEN NoType
               ELSE IF expr.op = "/" \/ TFloat \in {l.type, r.type} THEN TFloat ELSE TInt
      BY <2>5, OperatorNames DEF BinaryType
    <3> QED
      BY <2>4, <3>1, TypeNames DEF NumericType, Types
  <2>7. Eval(expr, env) = EvalBinary(expr.op, l, r, env.saturates)
    BY <1>1, <2>2, <2>3, <2>4, BinaryValue
  <2>8. EvalBinary(expr.op, l, r, env.saturates) = Arithmetic(expr.op, l, r, env.saturates)
    BY <2>5, OperatorNames DEF EvalBinary
  <2> QED
    BY <1>1, <2>3, <2>4, <2>6, <2>7, <2>8, IntArithmetic
<1>2. ExprInv => IntArithmeticIsExact
  BY <1>1 DEF IntArithmeticIsExact
<1> QED
  BY <1>2, ExprInvariant, PTL

-----------------------------------------------------------------------------
(* The recursions of the planner. *)

LEMMA OwnerLocal ==
    ASSUME NEW e, NEW g, NEW h, NEW ls, NEW rs, \A x \in Operands(e) : g[x] = h[x]
    PROVE  OwnerNode(e, g, ls, rs) = OwnerNode(e, h, ls, rs)
<1>1. CASE e.kind \in {"isnull", "unary"}
  BY <1>1 DEF OwnerNode, Operands
<1>2. CASE e.kind = "binary"
  BY <1>2 DEF OwnerNode, Operands
<1>3. CASE e.kind \notin {"isnull", "unary", "binary"}
  BY <1>3 DEF OwnerNode, Operands
<1> QED
  BY <1>1, <1>2, <1>3

LEMMA OwnershipUnfolds ==
    ASSUME NEW ls, NEW rs
    PROVE  Ownership(ls, rs) = [e \in Exprs |-> OwnerNode(e, Ownership(ls, rs), ls, rs)]
<1> DEFINE Solves(g, n) == \A e \in Levels(LeafExprs)[n] : g[e] = OwnerNode(e, g, ls, rs)
           S == {n \in 0 .. MaxHeight : \E g : Solves(g, n)}
<1>1. ASSUME NEW n \in 0 .. MaxHeight, n = 0 \/ n - 1 \in S PROVE n \in S
  <2>1. PICK g : n = 0 \/ Solves(g, n - 1)
    BY <1>1
  <2> DEFINE h == [e \in Levels(LeafExprs)[n] \cup Below(LeafExprs, n) |-> OwnerNode(e, g, ls, rs)]
  <2>2. ASSUME NEW e \in Levels(LeafExprs)[n] PROVE h[e] = OwnerNode(e, h, ls, rs)
    <3>1. \A x \in Operands(e) : h[x] = g[x]
      BY <2>1, OperandsBelow DEF Below
    <3>2. h[e] = OwnerNode(e, g, ls, rs)
      OBVIOUS
    <3> HIDE DEF h
    <3> QED
      BY <3>1, <3>2, OwnerLocal
  <2>3. Solves(h, n)
    BY <2>2
  <2> QED
    BY <2>3
<1>2. PICK g : Solves(g, MaxHeight)
  <2> HIDE DEF S
  <2>1. MaxHeight \in S
    BY <1>1, Heights, MaxHeightAssumption
  <2> QED
    BY <2>1 DEF S
<1> DEFINE f == [e \in Exprs |-> g[e]]
<1>3. f = [e \in Exprs |-> OwnerNode(e, f, ls, rs)]
  <2>1. ASSUME NEW e \in Exprs PROVE f[e] = OwnerNode(e, f, ls, rs)
    <3>1. \A x \in Operands(e) : f[x] = g[x]
      BY OperandsAreExprs DEF Exprs
    <3>2. f[e] = OwnerNode(e, g, ls, rs)
      BY <1>2 DEF Exprs
    <3> HIDE DEF f
    <3> QED
      BY <3>1, <3>2, OwnerLocal
  <2>2. f = [e \in Exprs |-> f[e]]
    OBVIOUS
  <2> HIDE DEF f
  <2> QED
    BY <2>1, <2>2
<1> HIDE DEF f
<1> QED
  BY <1>3 DEF Ownership

LEMMA CallsLocal ==
    ASSUME NEW e, NEW g, NEW h, \A x \in Operands(e) : g[x] = h[x]
    PROVE  CallsNode(e, g) = CallsNode(e, h)
<1>1. CASE e.kind \in {"isnull", "unary"}
  BY <1>1 DEF CallsNode, Operands
<1>2. CASE e.kind = "binary"
  BY <1>2 DEF CallsNode, Operands
<1>3. CASE e.kind \notin {"isnull", "unary", "binary"}
  BY <1>3 DEF CallsNode, Operands
<1> QED
  BY <1>1, <1>2, <1>3

LEMMA CallListsUnfold ==
    CallLists = [e \in Exprs |-> CallsNode(e, CallLists)]
<1> DEFINE Solves(g, n) == \A e \in Levels(LeafExprs)[n] : g[e] = CallsNode(e, g)
           S == {n \in 0 .. MaxHeight : \E g : Solves(g, n)}
<1>1. ASSUME NEW n \in 0 .. MaxHeight, n = 0 \/ n - 1 \in S PROVE n \in S
  <2>1. PICK g : n = 0 \/ Solves(g, n - 1)
    BY <1>1
  <2> DEFINE h == [e \in Levels(LeafExprs)[n] \cup Below(LeafExprs, n) |-> CallsNode(e, g)]
  <2>2. ASSUME NEW e \in Levels(LeafExprs)[n] PROVE h[e] = CallsNode(e, h)
    <3>1. \A x \in Operands(e) : h[x] = g[x]
      BY <2>1, OperandsBelow DEF Below
    <3>2. h[e] = CallsNode(e, g)
      OBVIOUS
    <3> HIDE DEF h
    <3> QED
      BY <3>1, <3>2, CallsLocal
  <2>3. Solves(h, n)
    BY <2>2
  <2> QED
    BY <2>3
<1>2. PICK g : Solves(g, MaxHeight)
  <2> HIDE DEF S
  <2>1. MaxHeight \in S
    BY <1>1, Heights, MaxHeightAssumption
  <2> QED
    BY <2>1 DEF S
<1> DEFINE f == [e \in Exprs |-> g[e]]
<1>3. f = [e \in Exprs |-> CallsNode(e, f)]
  <2>1. ASSUME NEW e \in Exprs PROVE f[e] = CallsNode(e, f)
    <3>1. \A x \in Operands(e) : f[x] = g[x]
      BY OperandsAreExprs DEF Exprs
    <3>2. f[e] = CallsNode(e, g)
      BY <1>2 DEF Exprs
    <3> HIDE DEF f
    <3> QED
      BY <3>1, <3>2, CallsLocal
  <2>2. f = [e \in Exprs |-> f[e]]
    OBVIOUS
  <2> HIDE DEF f
  <2> QED
    BY <2>1, <2>2
<1> HIDE DEF f
<1> QED
  BY <1>3 DEF CallLists

LEMMA LowerLocal ==
    ASSUME NEW e, NEW g, NEW h, NEW calls, NEW schema, \A x \in Operands(e) : g[x] = h[x]
    PROVE  LowerNode(e, g, calls, schema) = LowerNode(e, h, calls, schema)
<1>1. CASE e.kind \in {"isnull", "unary"}
  BY <1>1 DEF LowerNode, Operands
<1>2. CASE e.kind = "binary"
  BY <1>2 DEF LowerNode, Operands
<1>3. CASE e.kind \notin {"isnull", "unary", "binary"}
  BY <1>3 DEF LowerNode, Operands
<1> QED
  BY <1>1, <1>2, <1>3

LEMMA LoweringUnfolds ==
    ASSUME NEW calls, NEW schema
    PROVE  Lowering(calls, schema) = [e \in Exprs |-> LowerNode(e, Lowering(calls, schema), calls, schema)]
<1> DEFINE Solves(g, n) == \A e \in Levels(LeafExprs)[n] : g[e] = LowerNode(e, g, calls, schema)
           S == {n \in 0 .. MaxHeight : \E g : Solves(g, n)}
<1>1. ASSUME NEW n \in 0 .. MaxHeight, n = 0 \/ n - 1 \in S PROVE n \in S
  <2>1. PICK g : n = 0 \/ Solves(g, n - 1)
    BY <1>1
  <2> DEFINE h == [e \in Levels(LeafExprs)[n] \cup Below(LeafExprs, n) |-> LowerNode(e, g, calls, schema)]
  <2>2. ASSUME NEW e \in Levels(LeafExprs)[n] PROVE h[e] = LowerNode(e, h, calls, schema)
    <3>1. \A x \in Operands(e) : h[x] = g[x]
      BY <2>1, OperandsBelow DEF Below
    <3>2. h[e] = LowerNode(e, g, calls, schema)
      OBVIOUS
    <3> HIDE DEF h
    <3> QED
      BY <3>1, <3>2, LowerLocal
  <2>3. Solves(h, n)
    BY <2>2
  <2> QED
    BY <2>3
<1>2. PICK g : Solves(g, MaxHeight)
  <2> HIDE DEF S
  <2>1. MaxHeight \in S
    BY <1>1, Heights, MaxHeightAssumption
  <2> QED
    BY <2>1 DEF S
<1> DEFINE f == [e \in Exprs |-> g[e]]
<1>3. f = [e \in Exprs |-> LowerNode(e, f, calls, schema)]
  <2>1. ASSUME NEW e \in Exprs PROVE f[e] = LowerNode(e, f, calls, schema)
    <3>1. \A x \in Operands(e) : f[x] = g[x]
      BY OperandsAreExprs DEF Exprs
    <3>2. f[e] = LowerNode(e, g, calls, schema)
      BY <1>2 DEF Exprs
    <3> HIDE DEF f
    <3> QED
      BY <3>1, <3>2, LowerLocal
  <2>2. f = [e \in Exprs |-> f[e]]
    OBVIOUS
  <2> HIDE DEF f
  <2> QED
    BY <2>1, <2>2
<1> HIDE DEF f
<1> QED
  BY <1>3 DEF Lowering

LEMMA PlugLocal ==
    ASSUME NEW e, NEW g, NEW h, NEW result, \A x \in Operands(e) : g[x] = h[x]
    PROVE  PlugNode(e, g, result) = PlugNode(e, h, result)
<1>1. CASE e.kind \in {"isnull", "unary"}
  BY <1>1 DEF PlugNode, Operands
<1>2. CASE e.kind = "binary"
  BY <1>2 DEF PlugNode, Operands
<1>3. CASE e.kind \notin {"isnull", "unary", "binary"}
  BY <1>3 DEF PlugNode, Operands
<1> QED
  BY <1>1, <1>2, <1>3

LEMMA PluggingUnfolds ==
    ASSUME NEW result
    PROVE  Plugging(result) = [e \in Exprs |-> PlugNode(e, Plugging(result), result)]
<1> DEFINE Solves(g, n) == \A e \in Levels(LeafExprs)[n] : g[e] = PlugNode(e, g, result)
           S == {n \in 0 .. MaxHeight : \E g : Solves(g, n)}
<1>1. ASSUME NEW n \in 0 .. MaxHeight, n = 0 \/ n - 1 \in S PROVE n \in S
  <2>1. PICK g : n = 0 \/ Solves(g, n - 1)
    BY <1>1
  <2> DEFINE h == [e \in Levels(LeafExprs)[n] \cup Below(LeafExprs, n) |-> PlugNode(e, g, result)]
  <2>2. ASSUME NEW e \in Levels(LeafExprs)[n] PROVE h[e] = PlugNode(e, h, result)
    <3>1. \A x \in Operands(e) : h[x] = g[x]
      BY <2>1, OperandsBelow DEF Below
    <3>2. h[e] = PlugNode(e, g, result)
      OBVIOUS
    <3> HIDE DEF h
    <3> QED
      BY <3>1, <3>2, PlugLocal
  <2>3. Solves(h, n)
    BY <2>2
  <2> QED
    BY <2>3
<1>2. PICK g : Solves(g, MaxHeight)
  <2> HIDE DEF S
  <2>1. MaxHeight \in S
    BY <1>1, Heights, MaxHeightAssumption
  <2> QED
    BY <2>1 DEF S
<1> DEFINE f == [e \in Exprs |-> g[e]]
<1>3. f = [e \in Exprs |-> PlugNode(e, f, result)]
  <2>1. ASSUME NEW e \in Exprs PROVE f[e] = PlugNode(e, f, result)
    <3>1. \A x \in Operands(e) : f[x] = g[x]
      BY OperandsAreExprs DEF Exprs
    <3>2. f[e] = PlugNode(e, g, result)
      BY <1>2 DEF Exprs
    <3> HIDE DEF f
    <3> QED
      BY <3>1, <3>2, PlugLocal
  <2>2. f = [e \in Exprs |-> f[e]]
    OBVIOUS
  <2> HIDE DEF f
  <2> QED
    BY <2>1, <2>2
<1> HIDE DEF f
<1> QED
  BY <1>3 DEF Plugging

\* What the recursions give for a node.
LEMMA PlannerUnfolds ==
    ASSUME NEW e \in Exprs
    PROVE  /\ Calls(e) = CallsNode(e, CallLists)
           /\ \A ls, rs : JoinOperandOwner(e, ls, rs) = OwnerNode(e, Ownership(ls, rs), ls, rs)
           /\ \A calls, schema : LowerAggregateExpr(e, calls, schema)
                                    = LowerNode(e, Lowering(calls, schema), calls, schema)
           /\ \A result : Plug(e, result) = PlugNode(e, Plugging(result), result)
<1>1. Calls(e) = CallsNode(e, CallLists)
  <2> DEFINE g == CallLists
  <2>1. g = [x \in Exprs |-> CallsNode(x, g)]
    BY CallListsUnfold
  <2> HIDE DEF g
  <2>2. g[e] = CallsNode(e, g)
    BY <2>1
  <2> QED
    BY <2>2 DEF g, Calls
<1>2. ASSUME NEW ls, NEW rs
      PROVE  JoinOperandOwner(e, ls, rs) = OwnerNode(e, Ownership(ls, rs), ls, rs)
  <2> DEFINE g == Ownership(ls, rs)
  <2>1. g = [x \in Exprs |-> OwnerNode(x, g, ls, rs)]
    BY OwnershipUnfolds
  <2> HIDE DEF g
  <2>2. g[e] = OwnerNode(e, g, ls, rs)
    BY <2>1
  <2> QED
    BY <2>2 DEF g, JoinOperandOwner
<1>3. ASSUME NEW calls, NEW schema
      PROVE  LowerAggregateExpr(e, calls, schema) = LowerNode(e, Lowering(calls, schema), calls, schema)
  <2> DEFINE g == Lowering(calls, schema)
  <2>1. g = [x \in Exprs |-> LowerNode(x, g, calls, schema)]
    BY LoweringUnfolds
  <2> HIDE DEF g
  <2>2. g[e] = LowerNode(e, g, calls, schema)
    BY <2>1
  <2> QED
    BY <2>2 DEF g, LowerAggregateExpr
<1>4. ASSUME NEW result
      PROVE  Plug(e, result) = PlugNode(e, Plugging(result), result)
  <2> DEFINE g == Plugging(result)
  <2>1. g = [x \in Exprs |-> PlugNode(x, g, result)]
    BY PluggingUnfolds
  <2> HIDE DEF g
  <2>2. g[e] = PlugNode(e, g, result)
    BY <2>1
  <2> QED
    BY <2>2 DEF g, Plug
<1> QED
  BY <1>1, <1>2, <1>3, <1>4

-----------------------------------------------------------------------------
(* The calls of an expression and of a statement. *)

CallNodes == {e \in Exprs : e.kind = "aggregate"}

LEMMA CallsAreNodes == \A e \in Exprs : Calls(e) \in Seq(CallNodes)
<1> DEFINE S == {e \in Exprs : Calls(e) \in Seq(CallNodes)}
<1>1. ASSUME NEW e \in Exprs, Operands(e) \subseteq S PROVE e \in S
  <2>0. Calls(e) = CallsNode(e, CallLists)
    BY PlannerUnfolds
  <2> DEFINE T == CallNodes
  <2> SUFFICES Calls(e) \in Seq(T)
    OBVIOUS
  <2>1. CASE e.kind = "aggregate"
    <3>1. Calls(e) = <<e>> /\ e \in T
      BY <2>0, <2>1 DEF CallsNode, CallNodes
    <3> HIDE DEF T
    <3> QED
      BY <3>1
  <2>2. CASE e.kind \in {"unary", "isnull"}
    <3>1. Calls(e) = Calls(e.arg)
      BY <2>0, <2>2 DEF CallsNode, Calls
    <3>2. e.arg \in S
      BY <1>1, <2>2 DEF Operands
    <3> QED
      BY <3>1, <3>2
  <2>3. CASE e.kind = "binary"
    <3>1. Calls(e) = Calls(e.left) \o Calls(e.right)
      BY <2>0, <2>3 DEF CallsNode, Calls
    <3>2. e.left \in S /\ e.right \in S
      BY <1>1, <2>3 DEF Operands
    <3>3. PICK a, b : a = Calls(e.left) /\ b = Calls(e.right)
      OBVIOUS
    <3>4. a \in Seq(T) /\ b \in Seq(T)
      BY <3>2, <3>3
    <3> HIDE DEF T
    <3> QED
      BY <3>1, <3>3, <3>4, ConcatProperties
  <2>4. CASE e.kind \notin {"aggregate", "unary", "isnull", "binary"}
    <3>1. Calls(e) = <<>>
      BY <2>0, <2>4 DEF CallsNode
    <3> QED
      BY <3>1
  <2> QED
    BY <2>1, <2>2, <2>3, <2>4
<1> HIDE DEF S
<1>2. Exprs \subseteq S
  BY <1>1, Induction DEF Exprs
<1> QED
  BY <1>2 DEF S

LEMMA ConcatElements ==
    ASSUME NEW T, NEW a \in Seq(T), NEW b \in Seq(T)
    PROVE  /\ a \o b \in Seq(T)
           /\ ToSet(a \o b) = ToSet(a) \cup ToSet(b)
<1>1. /\ a \o b \in Seq(T) /\ Len(a \o b) = Len(a) + Len(b)
      /\ \A n \in 1 .. Len(a) + Len(b) : (a \o b)[n] = IF n <= Len(a) THEN a[n] ELSE b[n - Len(a)]
  BY ConcatProperties
<1>2. Len(a) \in Nat /\ Len(b) \in Nat
  OBVIOUS
<1>3. /\ \A x : x \in ToSet(a) <=> \E n \in 1 .. Len(a) : x = a[n]
      /\ \A x : x \in ToSet(b) <=> \E n \in 1 .. Len(b) : x = b[n]
      /\ \A x : x \in ToSet(a \o b) <=> \E n \in 1 .. Len(a) + Len(b) : x = (a \o b)[n]
  <2>1. \A x : x \in ToSet(a) <=> \E n \in 1 .. Len(a) : x = a[n]
    BY ElementsOf
  <2>2. \A x : x \in ToSet(b) <=> \E n \in 1 .. Len(b) : x = b[n]
    BY ElementsOf
  <2>3. PICK c : c = a \o b
    OBVIOUS
  <2>3a. c \in Seq(T)
    BY <1>1, <2>3
  <2>4. \A x : x \in ToSet(c) <=> \E n \in 1 .. Len(c) : x = c[n]
    BY <2>3a, ElementsOf
  <2> QED
    BY <1>1, <2>1, <2>2, <2>3, <2>4
<1>4. ASSUME NEW x \in ToSet(a) PROVE x \in ToSet(a \o b)
  <2>1. PICK n \in 1 .. Len(a) : x = a[n]
    BY <1>3
  <2>2. n \in 1 .. Len(a) + Len(b) /\ (a \o b)[n] = a[n]
    BY <1>1, <1>2
  <2> QED
    BY <1>3, <2>1, <2>2
<1>5. ASSUME NEW x \in ToSet(b) PROVE x \in ToSet(a \o b)
  <2>1. PICK n \in 1 .. Len(b) : x = b[n]
    BY <1>3
  <2>2. Len(a) + n \in 1 .. Len(a) + Len(b) /\ (a \o b)[Len(a) + n] = b[n]
    BY <1>1, <1>2
  <2> QED
    BY <1>3, <2>1, <2>2
<1>6. ASSUME NEW x \in ToSet(a \o b) PROVE x \in ToSet(a) \cup ToSet(b)
  <2>1. PICK n \in 1 .. Len(a) + Len(b) : x = (a \o b)[n]
    BY <1>3
  <2>2. CASE n <= Len(a)
    BY <1>1, <1>2, <1>3, <2>1, <2>2
  <2>3. CASE ~(n <= Len(a))
    <3>1. n - Len(a) \in 1 .. Len(b) /\ x = b[n - Len(a)]
      BY <1>1, <1>2, <2>1, <2>3
    <3> QED
      BY <1>3, <3>1
  <2> QED
    BY <2>2, <2>3
<1> QED
  BY <1>1, <1>4, <1>5, <1>6

(* What is in one of the sequences is in their concatenation. *)
LEMMA FlattenElements ==
    ASSUME NEW T, NEW seqs \in Seq(Seq(T))
    PROVE  /\ FlattenSeq(seqs) \in Seq(T)
           /\ \A n \in DOMAIN seqs : ToSet(seqs[n]) \subseteq ToSet(FlattenSeq(seqs))
<1> DEFINE Ts == Seq(T)
<1>0. /\ Len(seqs) \in Nat /\ DOMAIN seqs = 1 .. Len(seqs)
      /\ \A i \in 1 .. Len(seqs) : seqs[i] \in Seq(T)
  <2>1. seqs \in Seq(Ts)
    OBVIOUS
  <2> HIDE DEF Ts
  <2>2. /\ Len(seqs) \in Nat /\ DOMAIN seqs = 1 .. Len(seqs)
        /\ \A i \in 1 .. Len(seqs) : seqs[i] \in Ts
    BY <2>1, SeqElements
  <2> QED
    BY <2>2 DEF Ts
<1> HIDE DEF Ts
<1>1. CASE Len(seqs) = 0
  <2>1. FlattenSeq(seqs) = seqs /\ seqs = <<>>
    <3>1. seqs = <<>>
      BY <1>0, <1>1, EmptySeq
    <3> QED
      BY <1>1, <3>1 DEF FlattenSeq
  <2> QED
    BY <1>0, <1>1, <2>1, EmptySeq
<1>2. CASE Len(seqs) # 0
  <2>0. PICK f : /\ FlattenSeq(seqs) = f[Len(seqs)]
                 /\ f[1] = seqs[1]
                 /\ \A i \in 2 .. Len(seqs) : f[i] = f[i - 1] \o seqs[i]
                 /\ \A i \in 1 .. Len(seqs) : f[i] \in Seq(T)
    BY <1>2, FlattenSteps, Zenon
  <2>1. PICK len : len = Len(seqs)
    OBVIOUS
  <2>2. /\ FlattenSeq(seqs) = f[len]
        /\ f[1] = seqs[1]
        /\ \A i \in 2 .. len : f[i] = f[i - 1] \o seqs[i]
        /\ \A i \in 1 .. len : f[i] \in Seq(T)
    BY <2>0, <2>1
  <2>3. len \in Nat \ {0} /\ \A i \in 1 .. len : seqs[i] \in Seq(T)
    BY <1>0, <1>2, <2>1
  <2>4. \A i \in 2 .. len : /\ ToSet(f[i - 1]) \subseteq ToSet(f[i])
                            /\ ToSet(seqs[i]) \subseteq ToSet(f[i])
    <3>1. TAKE i \in 2 .. len
    <3>2. PICK a, b : a = f[i - 1] /\ b = seqs[i]
      OBVIOUS
    <3>3. i - 1 \in 1 .. len /\ i \in 1 .. len
      BY <2>3
    <3>4. a \in Seq(T) /\ b \in Seq(T) /\ f[i] = a \o b
      BY <2>2, <2>3, <3>2, <3>3
    <3> QED
      BY <3>2, <3>4, ConcatElements
  <2>5. \A i \in 1 .. len : ToSet(seqs[i]) \subseteq ToSet(f[i])
    <3>1. TAKE i \in 1 .. len
    <3>2. CASE i = 1
      BY <2>2, <3>2
    <3>3. CASE i # 1
      <4>1. i \in 2 .. len
        BY <2>3, <3>3
      <4> QED
        BY <2>4, <4>1
    <3> QED
      BY <3>2, <3>3
  <2>6. \A n \in 1 .. len : ToSet(f[n]) \subseteq ToSet(f[len])
    <3> DEFINE good == {d \in Nat : d >= len \/ ToSet(f[len - d]) \subseteq ToSet(f[len])}
               bad == Nat \ good
    <3>1. bad = {}
      <4> SUFFICES ASSUME bad # {} PROVE FALSE
        OBVIOUS
      <4>1. PICK d \in bad : \A m \in bad : d <= m
        <5>1. bad \subseteq Nat
          OBVIOUS
        <5> HIDE DEF bad
        <5> QED
          BY <5>1, Smallest
      <4>2. d \in Nat /\ ~(d >= len) /\ ~(ToSet(f[len - d]) \subseteq ToSet(f[len]))
        BY <4>1
      <4>3. d # 0
        BY <2>3, <4>2
      <4>4. d - 1 \in Nat /\ ~(d <= d - 1) /\ ~(d - 1 >= len)
        BY <2>3, <4>2, <4>3
      <4>5. d - 1 \in good
        BY <4>1, <4>4
      <4>6. ToSet(f[len - (d - 1)]) \subseteq ToSet(f[len])
        BY <4>4, <4>5
      <4>7. len - (d - 1) \in 2 .. len /\ (len - (d - 1)) - 1 = len - d
        BY <2>3, <4>2, <4>3
      <4>8. ToSet(f[len - d]) \subseteq ToSet(f[len - (d - 1)])
        BY <2>4, <4>7
      <4> QED
        BY <4>2, <4>6, <4>8
    <3>2. TAKE n \in 1 .. len
    <3>3. len - n \in Nat /\ ~(len - n >= len) /\ len - (len - n) = n
      BY <2>3
    <3>4. len - n \in good
      BY <3>1, <3>3
    <3> QED
      BY <3>3, <3>4
  <2>7. FlattenSeq(seqs) \in Seq(T)
    BY <2>2, <2>3
  <2>8. \A n \in 1 .. len : ToSet(seqs[n]) \subseteq ToSet(f[len])
    BY <2>5, <2>6
  <2> QED
    BY <1>0, <2>1, <2>2, <2>7, <2>8
<1> QED
  BY <1>1, <1>2
LEMMA CallsOfElements ==
    ASSUME NEW es \in Seq(Exprs)
    PROVE  /\ CallsOf(es) \in Seq(CallNodes)
           /\ \A e \in ToSet(es) : ToSet(Calls(e)) \subseteq ToSet(CallsOf(es))
<1> DEFINE lists == [n \in DOMAIN es |-> Calls(es[n])]
<1>1. Len(es) \in Nat /\ DOMAIN es = 1 .. Len(es) /\ \A n \in 1 .. Len(es) : es[n] \in Exprs
  BY SeqElements
<1>2. lists \in Seq(Seq(CallNodes))
  <2> DEFINE Ts == Seq(CallNodes)
  <2>1. \A n \in 1 .. Len(es) : lists[n] \in Ts
    BY <1>1, CallsAreNodes
  <2>2. lists = [n \in 1 .. Len(es) |-> lists[n]]
    BY <1>1
  <2> HIDE DEF Ts, lists
  <2>3. lists \in [1 .. Len(es) -> Ts]
    BY <2>1, <2>2
  <2>4. lists \in Seq(Ts)
    BY <1>1, <2>3, FunctionIsSeq
  <2> QED
    BY <2>4 DEF Ts
<1>3. \A n \in DOMAIN es : n \in DOMAIN lists /\ lists[n] = Calls(es[n])
  OBVIOUS
<1>4. CallsOf(es) = FlattenSeq(lists)
  BY DEF CallsOf
<1> HIDE DEF lists
<1>5. /\ FlattenSeq(lists) \in Seq(CallNodes)
      /\ \A n \in DOMAIN lists : ToSet(lists[n]) \subseteq ToSet(FlattenSeq(lists))
  BY <1>2, FlattenElements
<1>6. ASSUME NEW e \in ToSet(es) PROVE ToSet(Calls(e)) \subseteq ToSet(CallsOf(es))
  <2>1. PICK n \in DOMAIN es : e = es[n]
    BY DEF ToSet
  <2>2. ToSet(lists[n]) \subseteq ToSet(FlattenSeq(lists))
    BY <1>3, <1>5
  <2> QED
    BY <1>3, <1>4, <2>1, <2>2
<1> QED
  BY <1>4, <1>5, <1>6

LEMMA WrittenSeqs == \A es \in Seq(Written) : es \in Seq(Exprs)
BY WrittenExprs, SeqWiden

\* Every call of a statement is collected.
LEMMA EveryCallIsCollected ==
    ASSUME st \in Statements
    PROVE  /\ Collected \in Seq(CallNodes)
           /\ \A e \in ToSet(st.projections) \cup ToSet(st.orderBy) \cup {st.having} :
                 e \in Written /\ e \in Exprs /\ ToSet(Calls(e)) \subseteq ToSet(Collected)
<1>1. /\ st.having \in Written /\ st.projections \in Seq(Written) /\ st.orderBy \in Seq(Written)
      /\ st.having \in Exprs /\ st.projections \in Seq(Exprs) /\ st.orderBy \in Seq(Exprs)
  BY StatementsAssumption, WrittenSeqs, WrittenExprs
<1>2. PICK a, b, c : a = CallsOf(st.projections) /\ b = Calls(st.having) /\ c = CallsOf(st.orderBy)
  OBVIOUS
<1>3. a \in Seq(CallNodes) /\ b \in Seq(CallNodes) /\ c \in Seq(CallNodes)
  BY <1>1, <1>2, CallsOfElements, CallsAreNodes
<1>4. PICK ab : ab = a \o b
  OBVIOUS
<1>5. ab \in Seq(CallNodes) /\ ToSet(ab) = ToSet(a) \cup ToSet(b)
  BY <1>3, <1>4, ConcatElements
<1>6. ab \o c \in Seq(CallNodes) /\ ToSet(ab \o c) = ToSet(ab) \cup ToSet(c)
  BY <1>3, <1>5, ConcatElements
<1>7. Collected = ab \o c
  BY <1>2, <1>4 DEF Collected, CallsIn
<1>8. \A e \in ToSet(st.projections) : e \in Written /\ e \in Exprs /\ ToSet(Calls(e)) \subseteq ToSet(Collected)
  <2>1. TAKE e \in ToSet(st.projections)
  <2>2. e \in Written
    BY <1>1, ElementsOf, SeqElements
  <2>3. ToSet(Calls(e)) \subseteq ToSet(a)
    BY <1>1, <1>2, CallsOfElements
  <2> QED
    BY <1>5, <1>6, <1>7, <2>2, <2>3, WrittenExprs
<1>9. \A e \in ToSet(st.orderBy) : e \in Written /\ e \in Exprs /\ ToSet(Calls(e)) \subseteq ToSet(Collected)
  <2>1. TAKE e \in ToSet(st.orderBy)
  <2>2. e \in Written
    BY <1>1, ElementsOf, SeqElements
  <2>3. ToSet(Calls(e)) \subseteq ToSet(c)
    BY <1>1, <1>2, CallsOfElements
  <2> QED
    BY <1>5, <1>6, <1>7, <2>2, <2>3, WrittenExprs
<1>10. st.having \in Written /\ st.having \in Exprs /\ ToSet(Calls(st.having)) \subseteq ToSet(Collected)
  BY <1>1, <1>2, <1>5, <1>6, <1>7
<1> QED
  BY <1>6, <1>7, <1>8, <1>9, <1>10

-----------------------------------------------------------------------------
(* The result of Build, and what an accepted plan is made of. *)

PlanOf ==
    IF ~({st.from} \cup (IF st.join = None THEN {} ELSE {st.join.table}) \subseteq DOMAIN Catalog)
    THEN Rejected
    ELSE BuildOver(LeftSchema, Joined, IF st.join = None THEN None
                                       ELSE SplitJoinKeys(st.join.on, LeftSchema, Joined))

PlanInv == st \in Statements /\ (plan = None \/ plan = PlanOf)

LEMMA PlanOfStays == UNCHANGED st => PlanOf' = PlanOf
<1> SUFFICES ASSUME UNCHANGED st PROVE PlanOf' = PlanOf
  OBVIOUS
<1>1. LeftSchema' = LeftSchema /\ Joined' = Joined
  BY DEF LeftSchema, Joined
<1>2. IsAggregateQuery' = IsAggregateQuery
  BY DEF IsAggregateQuery
<1>3. Collected' = Collected
  BY DEF Collected
<1>4. \A schema : GroupsValid(schema)' = GroupsValid(schema)
  BY DEF GroupsValid
<1>5. \A calls, schema : AggregateSchema(schema, calls)' = AggregateSchema(schema, calls)
  BY DEF AggregateSchema
<1>6. \A calls, schema, e : LowerAggregateExpr(e, calls, schema)' = LowerAggregateExpr(e, calls, schema)
  BY DEF LowerAggregateExpr, Lowering, LowerNode, CallSlot, GroupSlots
<1>7. \A base, schema : BuildPlainPlan(base, schema)' = BuildPlainPlan(base, schema)
  BY DEF BuildPlainPlan
<1>8. \A base, schema : BuildAggregatePlan(base, schema)' = BuildAggregatePlan(base, schema)
  BY DEF BuildAggregatePlan, GroupsValid, AggregateSchema, Collected,
         LowerAggregateExpr, Lowering, LowerNode, CallSlot, GroupSlots
<1>9. \A ls, rs, keys : BuildOver(ls, rs, keys)' = BuildOver(ls, rs, keys)
  BY <1>2, <1>7, <1>8 DEF BuildOver
<1> QED
  BY <1>1, <1>9 DEF PlanOf

LEMMA PlanInvariant == Spec => []PlanInv
<1>1. Init => PlanInv
  BY DEF Init, PlanInv
<1>2. ASSUME PlanInv, [Next]_vars PROVE PlanInv'
  <2>1. CASE Build
    <3>1. plan' = PlanOf /\ st' = st
      BY <2>1 DEF Build, PlanOf, LeftSchema
    <3> QED
      BY <1>2, <3>1, PlanOfStays DEF PlanInv
  <2>2. CASE UNCHANGED vars
    BY <1>2, <2>2, PlanOfStays DEF PlanInv, vars
  <2> QED
    BY <1>2, <2>1, <2>2 DEF Next
<1> QED
  BY <1>1, <1>2, PTL DEF Spec

-----------------------------------------------------------------------------
(* The schemas of a plan. *)

TableColumns == [table : STRING, name : STRING, type : Types]

LEMMA FromTableFacts ==
    ASSUME NEW name \in DOMAIN Catalog
    PROVE  /\ FromTable(name) \in Seq(TableColumns)
           /\ \A n \in DOMAIN FromTable(name) : FromTable(name)[n].table = name
           /\ name # Unqualified
<1> DEFINE Columns == [name : STRING, type : Types]
           T == TableColumns
           cols == Catalog[name]
<1>1. cols \in Seq(Columns) /\ name \in STRING /\ name # Unqualified
  BY CatalogAssumption
<1>2. Len(cols) \in Nat /\ DOMAIN cols = 1 .. Len(cols) /\ \A n \in 1 .. Len(cols) : cols[n] \in Columns
  <2> HIDE DEF Columns, cols
  <2> QED
    BY <1>1, SeqElements
<1>3. FromTable(name) = [n \in 1 .. Len(cols) |->
                            [table |-> name, name |-> cols[n].name, type |-> cols[n].type]]
  BY <1>2 DEF FromTable
<1>4. \A n \in 1 .. Len(cols) :
         [table |-> name, name |-> cols[n].name, type |-> cols[n].type] \in T
  BY <1>1, <1>2 DEF TableColumns
<1> HIDE DEF T, cols
<1>5. FromTable(name) \in [1 .. Len(cols) -> T]
  BY <1>3, <1>4
<1>6. FromTable(name) \in Seq(T)
  BY <1>2, <1>5, FunctionIsSeq
<1> QED
  BY <1>1, <1>3, <1>6 DEF T

LEMMA TableSchema ==
    ASSUME NEW schema \in Seq(TableColumns)
    PROVE  IsSchema(schema)
<1>1. Len(schema) \in Nat /\ DOMAIN schema = 1 .. Len(schema) /\ \A n \in 1 .. Len(schema) : schema[n] \in TableColumns
  BY SeqElements
<1> QED
  BY <1>1 DEF IsSchema, TableColumns

\* What Build accepts before it looks at the projections.
AcceptedInput ==
    /\ st \in Statements
    /\ st.from \in DOMAIN Catalog
    /\ st.join # None => st.join.table \in DOMAIN Catalog
    /\ plan.input = LeftSchema \o Joined
    /\ plan.keys = IF st.join = None THEN None ELSE SplitJoinKeys(st.join.on, LeftSchema, Joined)
    /\ plan.keys # Rejected
    /\ plan.where = st.where
    /\ st.where # None => IsBool(st.where, plan.input)

Lower(e) == LowerAggregateExpr(e, plan.calls, plan.input)

AcceptedAggregates ==
    /\ plan.calls = Collected
    /\ plan.schema = AggregateSchema(plan.input, plan.calls)
    /\ GroupsValid(plan.input)
    /\ \A call \in ToSet(plan.calls) : ValidCall(call, plan.input)
    /\ \A e \in ToSet(st.projections) \cup ToSet(st.orderBy) :
          Lower(e) # Rejected /\ HasType(Lower(e), plan.schema)
    /\ st.having # None => Lower(st.having) # Rejected /\ IsBool(Lower(st.having), plan.schema)
    /\ plan.having = IF st.having = None THEN None ELSE Lower(st.having)
    /\ plan.sortKeys = [n \in DOMAIN st.orderBy |-> Lower(st.orderBy[n])]
    /\ plan.exprs = [n \in DOMAIN st.projections |-> Lower(st.projections[n])]
    /\ plan.outTypes = [n \in DOMAIN st.projections |->
                           InferExprType(Lower(st.projections[n]), plan.schema)]

Expanded == FlattenSeq([n \in DOMAIN st.projections |-> Expand(st.projections[n], plan.input)])

AcceptedPlain ==
    /\ plan.calls = <<>> /\ plan.schema = plan.input /\ plan.having = None
    /\ \A e \in ToSet(st.orderBy) : HasType(e, plan.input)
    /\ \A e \in ToSet(st.projections) : e.kind = "star" \/ HasType(e, plan.input)
    /\ plan.sortKeys = st.orderBy
    /\ plan.exprs = [n \in DOMAIN Expanded |-> Expanded[n].expr]
    /\ plan.outTypes = [n \in DOMAIN Expanded |-> Expanded[n].type]

LEMMA AcceptedFacts ==
    ASSUME PlanInv, Accepted
    PROVE  AcceptedInput /\ IF IsAggregateQuery THEN AcceptedAggregates ELSE AcceptedPlain
<1>1. plan = PlanOf /\ plan # Rejected /\ st \in Statements
  BY DEF PlanInv, Accepted, None, Rejected
<1> DEFINE keys == IF st.join = None THEN None ELSE SplitJoinKeys(st.join.on, LeftSchema, Joined)
           schema == LeftSchema \o Joined
           base == [kind |-> "plan", input |-> schema, keys |-> keys, where |-> st.where,
                 calls |-> <<>>, schema |-> schema, having |-> None,
                 sortKeys |-> <<>>, exprs |-> <<>>, outTypes |-> <<>>]
<1>2. /\ st.from \in DOMAIN Catalog
      /\ st.join # None => st.join.table \in DOMAIN Catalog
      /\ plan = BuildOver(LeftSchema, Joined, keys)
  <2> HIDE DEF keys
  <2>1. PlanOf # Rejected
    BY <1>1
  <2>2. {st.from} \cup (IF st.join = None THEN {} ELSE {st.join.table}) \subseteq DOMAIN Catalog
    BY <2>1 DEF PlanOf
  <2>3. plan = BuildOver(LeftSchema, Joined, keys)
    BY <1>1, <2>2 DEF PlanOf, keys
  <2> QED
    BY <2>2, <2>3
<1>3. /\ keys # Rejected
      /\ st.where # None => IsBool(st.where, schema)
      /\ plan = IF IsAggregateQuery THEN BuildAggregatePlan(base, schema) ELSE BuildPlainPlan(base, schema)
  <2>1. ~ \/ keys = Rejected
          \/ ContainsAggregate(st.where)
          \/ st.having # None /\ ~IsAggregateQuery
          \/ st.where # None /\ ~IsBool(st.where, schema)
    BY <1>1, <1>2 DEF BuildOver
  <2>2. plan = IF IsAggregateQuery THEN BuildAggregatePlan(base, schema) ELSE BuildPlainPlan(base, schema)
    BY <1>2, <2>1 DEF BuildOver
  <2> QED
    BY <2>1, <2>2
<1>4. /\ base.input = schema /\ base.keys = keys /\ base.where = st.where /\ base.calls = <<>>
      /\ base.schema = schema /\ base.having = None
  OBVIOUS
<1>5. CASE IsAggregateQuery
  <2> DEFINE calls == Collected
             lower(e) == LowerAggregateExpr(e, calls, schema)
             aggSchema == AggregateSchema(schema, calls)
             accepts(e) == lower(e) # Rejected /\ HasType(lower(e), aggSchema)
             hav == IF st.having = None THEN None ELSE lower(st.having)
             sorts == [n \in DOMAIN st.orderBy |-> lower(st.orderBy[n])]
             outs == [n \in DOMAIN st.projections |-> lower(st.projections[n])]
             typs == [n \in DOMAIN st.projections |-> InferExprType(lower(st.projections[n]), aggSchema)]
  <2>1. plan = BuildAggregatePlan(base, schema) /\ plan # Rejected
    BY <1>1, <1>3, <1>5
  <2>2. /\ GroupsValid(schema)
        /\ \A call \in ToSet(calls) : ValidCall(call, schema)
        /\ \A e \in ToSet(st.projections) \cup ToSet(st.orderBy) : accepts(e)
        /\ st.having # None => accepts(st.having) /\ IsBool(lower(st.having), aggSchema)
        /\ plan = [base EXCEPT !.calls = calls, !.schema = aggSchema, !.having = hav,
                               !.sortKeys = sorts, !.exprs = outs, !.outTypes = typs]
    <3> HIDE DEF base
    <3> QED
      BY <2>1 DEF BuildAggregatePlan
  <2>3. /\ plan.calls = calls /\ plan.schema = aggSchema /\ plan.having = hav /\ plan.sortKeys = sorts
        /\ plan.exprs = outs /\ plan.outTypes = typs
        /\ plan.input = schema /\ plan.keys = keys /\ plan.where = st.where
    <3> HIDE DEF calls, aggSchema, hav, sorts, outs, typs, keys, schema
    <3> QED
      BY <2>2
  <2>4. AcceptedInput
    BY <1>1, <1>2, <1>3, <2>3 DEF AcceptedInput
  <2>5. AcceptedAggregates
    BY <2>2, <2>3 DEF AcceptedAggregates, Lower
  <2> QED
    BY <1>5, <2>4, <2>5
<1>6. CASE ~IsAggregateQuery
  <2> DEFINE out == FlattenSeq([n \in DOMAIN st.projections |-> Expand(st.projections[n], schema)])
             outs == [n \in DOMAIN out |-> out[n].expr]
             typs == [n \in DOMAIN out |-> out[n].type]
  <2>1. plan = BuildPlainPlan(base, schema) /\ plan # Rejected
    BY <1>1, <1>3, <1>6
  <2>2. /\ \A e \in ToSet(st.orderBy) : HasType(e, schema)
        /\ \A e \in ToSet(st.projections) : e.kind = "star" \/ HasType(e, schema)
        /\ plan = [base EXCEPT !.sortKeys = st.orderBy, !.exprs = outs, !.outTypes = typs]
    <3> HIDE DEF base
    <3> QED
      BY <2>1 DEF BuildPlainPlan
  <2>3. /\ plan.calls = <<>> /\ plan.schema = schema /\ plan.having = None /\ plan.sortKeys = st.orderBy
        /\ plan.exprs = outs /\ plan.outTypes = typs
        /\ plan.input = schema /\ plan.keys = keys /\ plan.where = st.where
    <3> HIDE DEF outs, typs, keys, schema
    <3> QED
      BY <2>2
  <2>4. AcceptedInput
    BY <1>1, <1>2, <1>3, <2>3 DEF AcceptedInput
  <2>5. AcceptedPlain
    BY <2>2, <2>3 DEF AcceptedPlain, Expanded
  <2> QED
    BY <1>6, <2>4, <2>5
<1> QED
  BY <1>5, <1>6

LEMMA InputSchema ==
    ASSUME AcceptedInput
    PROVE  /\ LeftSchema \in Seq(TableColumns) /\ IsSchema(LeftSchema)
           /\ Joined \in Seq(TableColumns) /\ IsSchema(Joined)
           /\ plan.input \in Seq(TableColumns) /\ IsSchema(plan.input)
<1>1. LeftSchema \in Seq(TableColumns)
  BY FromTableFacts DEF AcceptedInput, LeftSchema
<1>2. Joined \in Seq(TableColumns)
  <2> DEFINE T == TableColumns
  <2>1. CASE st.join = None
    <3>1. Joined = <<>>
      BY <2>1 DEF Joined
    <3> HIDE DEF T
    <3>2. Joined \in Seq(T)
      BY <3>1
    <3> QED
      BY <3>2 DEF T
  <2>2. CASE st.join # None
    <3>1. Joined = FromTable(st.join.table) /\ st.join.table \in DOMAIN Catalog
      BY <2>2 DEF AcceptedInput, Joined
    <3> QED
      BY <3>1, FromTableFacts
  <2> QED
    BY <2>1, <2>2
<1>3. plan.input \in Seq(TableColumns)
  <2>1. plan.input = LeftSchema \o Joined
    BY DEF AcceptedInput
  <2> HIDE DEF AcceptedInput
  <2> QED
    BY <1>1, <1>2, <2>1, ConcatElements
<1> QED
  BY <1>1, <1>2, <1>3, TableSchema

LEMMA RowsAreTyped ==
    ASSUME NEW schema, IsSchema(schema), NEW row \in RowsOf(schema)
    PROVE  TypedEnv(Env(schema, row))
<1>1. Env(schema, row).schema = schema /\ Env(schema, row).row = row
  BY DEF Env
<1>2. DOMAIN row = DOMAIN schema /\ \A n \in DOMAIN schema : row[n] \in Samples[schema[n].type]
  BY DEF RowsOf
<1>3. \A n \in DOMAIN schema : row[n] \in Values /\ row[n].type = schema[n].type
  BY <1>2, ValuesAssumption DEF IsSchema
<1> QED
  BY <1>1, <1>2, <1>3 DEF TypedEnv

(* An expression with a type has it on all rows. *)
LEMMA TypedUse ==
    ASSUME NEW schema, IsSchema(schema), NEW e \in Exprs, HasType(e, schema)
    PROVE  /\ InferExprType(e, schema) \in Types
           /\ \A row \in RowsOf(schema) :
                 /\ Eval(e, Env(schema, row)) \in Values /\ Eval(e, Env(schema, row)) # NoValue
                 /\ Eval(e, Env(schema, row)).type = InferExprType(e, schema)
<1>1. InferExprType(e, schema) \in Types
  BY TypingRange DEF HasType
<1>2. ASSUME NEW row \in RowsOf(schema)
      PROVE  /\ Eval(e, Env(schema, row)) \in Values /\ Eval(e, Env(schema, row)) # NoValue
             /\ Eval(e, Env(schema, row)).type = InferExprType(e, schema)
  <2>1. PICK env : env = Env(schema, row)
    OBVIOUS
  <2>2. TypedEnv(env) /\ env.schema = schema
    <3>1. TypedEnv(Env(schema, row))
      BY RowsAreTyped
    <3>2. env.schema = schema
      BY <2>1 DEF Env
    <3> QED
      BY <2>1, <3>1, <3>2
  <2>3. Eval(e, env) \in Values /\ Eval(e, env).type = InferExprType(e, schema)
    <3>1. \A x \in Exprs : InferExprType(x, env.schema) # NoType =>
               Eval(x, env) \in Values /\ Eval(x, env).type = InferExprType(x, env.schema)
      BY <2>2, TypeIsPredicted
    <3> QED
      BY <2>2, <3>1 DEF HasType
  <2> QED
    BY <2>1, <2>3, ValueTypes
<1> QED
  BY <1>1, <1>2

LEMMA OutTypes ==
    ASSUME NEW schema, IsSchema(schema), NEW call \in CallNodes, OutType(call, schema) # NoType
    PROVE  /\ OutType(call, schema) \in Types
           /\ ~call.star => HasType(call.arg, schema)
<1>1. call.arg \in Exprs
  BY Unfolds DEF CallNodes
<1>2. InferExprType(call.arg, schema) \in Types \cup {NoType}
  BY <1>1, TypingRange
<1> DEFINE t == IF call.star THEN NoType ELSE InferExprType(call.arg, schema)
<1>3. OutType(call, schema) =
         CASE call.name = "COUNT" -> IF call.star \/ t # NoType THEN TInt ELSE NoType
          [] call.name = "SUM" -> IF NumericType(t) THEN t ELSE NoType
          [] call.name = "AVG" -> IF NumericType(t) THEN TFloat ELSE NoType
          [] call.name \in {"MIN", "MAX"} -> t
          [] OTHER -> NoType
  BY DEF OutType
<1>4. ~NumericType(NoType) /\ {TInt, TFloat} \subseteq Types
  BY DEF NumericType, NoType, TInt, TFloat, Types
<1>5. t \in Types \cup {NoType}
  BY <1>2
<1>6. OutType(call, schema) \in Types /\ (call.star \/ t # NoType)
  <2> HIDE DEF t
  <2> QED
    BY <1>3, <1>4, <1>5
<1> QED
  BY <1>6 DEF HasType

(* The rows of an aggregate are typed by its schema. *)
LEMMA AggregateRows ==
    ASSUME AcceptedInput, AcceptedAggregates
    PROVE  /\ IsSchema(plan.schema)
           /\ DOMAIN st.groupBy = 1 .. Len(st.groupBy) /\ Len(st.groupBy) \in Nat
           /\ DOMAIN plan.calls = 1 .. Len(plan.calls) /\ Len(plan.calls) \in Nat
           /\ \A n \in 1 .. Len(plan.calls) : plan.calls[n] \in CallNodes /\ plan.calls[n] \in ToSet(plan.calls)
           /\ \A n \in 1 .. Len(plan.calls) : OutType(plan.calls[n], plan.input) \in Types
           /\ \A n \in 1 .. Len(st.groupBy) :
                 /\ st.groupBy[n].kind = "column"
                 /\ Index(plan.input, st.groupBy[n].table, st.groupBy[n].name) # Unresolved
<1>1. /\ DOMAIN st.groupBy = 1 .. Len(st.groupBy) /\ Len(st.groupBy) \in Nat
  <2>1. st.groupBy \in Seq(Written)
    BY StatementsAssumption DEF AcceptedInput
  <2> QED
    BY <2>1, SeqElements
<1>2. /\ DOMAIN plan.calls = 1 .. Len(plan.calls) /\ Len(plan.calls) \in Nat
      /\ \A n \in 1 .. Len(plan.calls) : plan.calls[n] \in CallNodes /\ plan.calls[n] \in ToSet(plan.calls)
  <2>1. plan.calls \in Seq(CallNodes)
    BY EveryCallIsCollected DEF AcceptedInput, AcceptedAggregates
  <2> QED
    BY <2>1, SeqElements, ElementsOf
<1>3. IsSchema(plan.input)
  BY InputSchema
<1>4. ASSUME NEW n \in 1 .. Len(plan.calls) PROVE OutType(plan.calls[n], plan.input) \in Types
  <2>1. OutType(plan.calls[n], plan.input) # NoType
    BY <1>2 DEF AcceptedAggregates, ValidCall
  <2> QED
    BY <1>2, <1>3, <2>1, OutTypes
<1>5. ASSUME NEW n \in 1 .. Len(st.groupBy)
      PROVE  /\ st.groupBy[n].kind = "column"
             /\ Index(plan.input, st.groupBy[n].table, st.groupBy[n].name) # Unresolved
  <2>1. st.groupBy[n] \in ToSet(st.groupBy)
    BY <1>1 DEF ToSet
  <2> QED
    BY <2>1 DEF AcceptedAggregates, GroupsValid
<1>6. IsSchema(plan.schema)
  <2> DEFINE T == {plan.input[i] : i \in DOMAIN plan.input}
                  \cup [table : {Unqualified}, name : {"computed"}, type : Types]
             groups == [n \in DOMAIN st.groupBy |->
                           plan.input[Index(plan.input, st.groupBy[n].table, st.groupBy[n].name)]]
             results == [n \in DOMAIN plan.calls |->
                           [table |-> Unqualified, name |-> "computed", type |-> OutType(plan.calls[n], plan.input)]]
  <2>1. \A n \in 1 .. Len(st.groupBy) : groups[n] \in T
    <3>1. TAKE n \in 1 .. Len(st.groupBy)
    <3>2. Index(plan.input, st.groupBy[n].table, st.groupBy[n].name) \in DOMAIN plan.input
      BY <1>3, <1>5, IndexIsFound
    <3> QED
      BY <1>1, <3>2
  <2>2. \A n \in 1 .. Len(plan.calls) : results[n] \in T
    BY <1>2, <1>4
  <2>3. \A c \in T : c.type \in Types
    BY <1>3 DEF IsSchema
  <2>4. plan.schema = groups \o results
    BY DEF AcceptedAggregates, AggregateSchema
  <2>5. groups = [n \in 1 .. Len(st.groupBy) |-> groups[n]] /\ results = [n \in 1 .. Len(plan.calls) |-> results[n]]
    BY <1>1, <1>2
  <2> HIDE DEF T, groups, results
  <2>6. groups \in [1 .. Len(st.groupBy) -> T] /\ results \in [1 .. Len(plan.calls) -> T]
    BY <2>1, <2>2, <2>5
  <2>7. groups \in Seq(T) /\ results \in Seq(T)
    BY <1>1, <1>2, <2>6, FunctionIsSeq
  <2>8. plan.schema \in Seq(T)
    BY <2>4, <2>7, ConcatElements
  <2>9. Len(plan.schema) \in Nat /\ DOMAIN plan.schema = 1 .. Len(plan.schema) /\ \A n \in 1 .. Len(plan.schema) : plan.schema[n] \in T
    BY <2>8, SeqElements
  <2> QED
    BY <2>3, <2>9 DEF IsSchema
<1> QED
  BY <1>1, <1>2, <1>4, <1>5, <1>6

-----------------------------------------------------------------------------
(* Lowering *)

\* The calls of an operand are calls of the node.
LEMMA CallsOfOperands ==
    ASSUME NEW e \in Exprs
    PROVE  /\ e.kind \in {"unary", "isnull"} => Calls(e) = Calls(e.arg)
           /\ e.kind = "binary" => /\ ToSet(Calls(e.left)) \subseteq ToSet(Calls(e))
                                   /\ ToSet(Calls(e.right)) \subseteq ToSet(Calls(e))
           /\ e.kind = "aggregate" => e \in ToSet(Calls(e))
<1>0. Calls(e) = CallsNode(e, CallLists)
  BY PlannerUnfolds
<1>1. CASE e.kind \in {"unary", "isnull"}
  BY <1>0, <1>1 DEF CallsNode, Calls
<1>2. CASE e.kind = "binary"
  <2>1. Calls(e) = Calls(e.left) \o Calls(e.right)
    BY <1>0, <1>2 DEF CallsNode, Calls
  <2>2. e.left \in Exprs /\ e.right \in Exprs
    BY <1>2, Unfolds
  <2>3. PICK a, b : a = Calls(e.left) /\ b = Calls(e.right)
    OBVIOUS
  <2>4. a \in Seq(CallNodes) /\ b \in Seq(CallNodes)
    BY <2>2, <2>3, CallsAreNodes
  <2>5. ToSet(a \o b) = ToSet(a) \cup ToSet(b)
    BY <2>4, ConcatElements
  <2> QED
    BY <1>2, <2>1, <2>3, <2>5
<1>3. CASE e.kind = "aggregate"
  <2>1. Calls(e) = <<e>>
    BY <1>0, <1>3 DEF CallsNode
  <2>2. 1 \in DOMAIN <<e>> /\ <<e>>[1] = e
    OBVIOUS
  <2> QED
    BY <1>3, <2>1, <2>2 DEF ToSet
<1>4. CASE e.kind \notin {"unary", "isnull", "binary", "aggregate"}
  BY <1>4
<1> QED
  BY <1>1, <1>2, <1>3, <1>4

\* A call's slot is that of a call with its identity.
LEMMA SlotOfCall ==
    ASSUME AcceptedInput, AcceptedAggregates, NEW call \in ToSet(plan.calls)
    PROVE  \E n \in 1 .. Len(plan.calls) : /\ plan.calls[n].id = call.id
                                           /\ CallSlot(call, plan.calls) = Len(st.groupBy) + n
<1>1. DOMAIN plan.calls = 1 .. Len(plan.calls)
  BY AggregateRows
<1>2. \E n \in DOMAIN plan.calls : plan.calls[n].id = call.id
  BY DEF ToSet
<1> DEFINE n == CHOOSE n \in DOMAIN plan.calls : plan.calls[n].id = call.id
<1>3. n \in DOMAIN plan.calls /\ plan.calls[n].id = call.id
  BY <1>2
<1>4. CallSlot(call, plan.calls) = Len(st.groupBy) + n
  BY DEF CallSlot
<1> HIDE DEF n
<1> QED
  BY <1>1, <1>3, <1>4

\* A column's slot is that of a group's column which is the same column.
LEMMA SlotOfColumn ==
    ASSUME AcceptedInput, AcceptedAggregates, NEW e, GroupSlots(e, plan.input) # {}
    PROVE  \E n \in 1 .. Len(st.groupBy) :
              /\ n = CHOOSE m \in GroupSlots(e, plan.input) : TRUE
              /\ Index(plan.input, e.table, e.name) # Unresolved
              /\ Index(plan.input, e.table, e.name)
                    = Index(plan.input, st.groupBy[n].table, st.groupBy[n].name)
<1> DEFINE n == CHOOSE m \in GroupSlots(e, plan.input) : TRUE
<1>1. n \in GroupSlots(e, plan.input)
  OBVIOUS
<1> HIDE DEF n
<1>2. /\ n \in DOMAIN st.groupBy
      /\ Index(plan.input, e.table, e.name) # Unresolved
      /\ Index(plan.input, e.table, e.name) = Index(plan.input, st.groupBy[n].table, st.groupBy[n].name)
  BY <1>1 DEF GroupSlots
<1> QED
  BY <1>2, AggregateRows DEF n

LEMMA MoreExprs ==
    ASSUME NEW n \in 0 .. MaxHeight
    PROVE  /\ LeafExprs \subseteq Levels(LeafExprs)[n]
           /\ n # 0 => NodesOver(Levels(LeafExprs)[n - 1]) \subseteq Levels(LeafExprs)[n]
           /\ Levels(LeafExprs)[n] \subseteq Exprs
<1>1. LeafExprs \subseteq Levels(LeafExprs)[n] /\ Levels(LeafExprs)[n] \subseteq Exprs
  BY LevelsGrow DEF Exprs
<1>2. n # 0 => NodesOver(Levels(LeafExprs)[n - 1]) \subseteq Levels(LeafExprs)[n]
  <2>1. n # 0 => n \in 1 .. MaxHeight
    BY MaxHeightAssumption
  <2> QED
    BY <2>1, LevelsUnfold
<1> QED
  BY <1>1, <1>2

WithOperands(e, a, b) == [e EXCEPT !.left = a, !.right = b]

LEMMA SwapKeepsKind ==
    ASSUME NEW e \in Exprs, NEW a, NEW b
    PROVE  IF e.kind = "binary" THEN WithOperands(e, a, b) = BinaryExpr(e.op, a, b)
           ELSE WithOperands(e, a, b).kind = e.kind
<1>1. CASE e.kind = "binary"
  <2>1. PICK o, x, y : o = e.op /\ x = e.left /\ y = e.right
    OBVIOUS
  <2>2. e = BinaryExpr(o, x, y)
    BY <1>1, <2>1, ExprShape, MaxHeightAssumption DEF Exprs
  <2>3. [e EXCEPT !.left = a] = BinaryExpr(o, a, y)
    BY <2>2 DEF BinaryExpr
  <2>4. PICK c : c = [e EXCEPT !.left = a]
    OBVIOUS
  <2>5. c = BinaryExpr(o, a, y)
    BY <2>3, <2>4
  <2>6. [c EXCEPT !.right = b] = BinaryExpr(o, a, b)
    BY <2>5 DEF BinaryExpr
  <2> QED
    BY <1>1, <2>1, <2>4, <2>6 DEF WithOperands
<1>2. CASE e.kind # "binary"
  <2>1. "kind" \in DOMAIN e
    <3>1. e \in LeafExprs \/ \E S : e \in NodesOver(S)
      BY NodeShape, MaxHeightAssumption DEF Exprs
    <3>2. CASE e \in LeafExprs
      BY <3>2 DEF LeafExprs, WrittenLeaves
    <3>3. CASE \E S : e \in NodesOver(S)
      BY <3>3 DEF NodesOver
    <3> QED
      BY <3>1, <3>2, <3>3
  <2> QED
    BY <1>2, <2>1 DEF WithOperands
<1> QED
  BY <1>1, <1>2

\* The lowered node, in terms of the lowered operands.
LEMMA LoweredShape ==
    ASSUME NEW n \in 0 .. MaxHeight, NEW e \in Levels(LeafExprs)[n], Lower(e) # Rejected
    PROVE  /\ e.kind \in {"literal", "column", "slot", "aggregate", "unary", "isnull", "binary"}
           /\ e.kind = "literal" => Lower(e) = e
           /\ e.kind = "column" => /\ GroupSlots(e, plan.input) # {}
                                   /\ Lower(e) = SlotRef(CHOOSE m \in GroupSlots(e, plan.input) : TRUE)
           /\ e.kind = "aggregate" => Lower(e) = SlotRef(CallSlot(e, plan.calls))
           /\ e.kind = "unary" => Lower(e.arg) # Rejected /\ Lower(e) = UnaryExpr(e.op, Lower(e.arg))
           /\ e.kind = "isnull" => Lower(e.arg) # Rejected /\ Lower(e) = IsNullTest(Lower(e.arg), e.negate)
           /\ e.kind = "binary" => /\ Lower(e.left) # Rejected /\ Lower(e.right) # Rejected
                                   /\ Lower(e) = BinaryExpr(e.op, Lower(e.left), Lower(e.right))
<1>1. e \in Exprs
  BY MoreExprs
<1>2. Lower(e) = LowerNode(e, Lowering(plan.calls, plan.input), plan.calls, plan.input)
  BY <1>1, PlannerUnfolds DEF Lower
<1>3. \A x : Lowering(plan.calls, plan.input)[x] = Lower(x)
  BY DEF Lower, LowerAggregateExpr
<1>4. CASE e.kind \in {"literal", "slot"}
  BY <1>2, <1>4 DEF LowerNode
<1>5. CASE e.kind = "aggregate"
  BY <1>2, <1>5 DEF LowerNode
<1>6. CASE e.kind = "column"
  BY <1>2, <1>6 DEF LowerNode
<1>7. CASE e.kind = "unary"
  <2>1. Lower(e.arg) # Rejected /\ Lower(e) = [e EXCEPT !.arg = Lower(e.arg)]
    BY <1>2, <1>3, <1>7 DEF LowerNode
  <2>2. PICK o, a, x : o = e.op /\ a = e.arg /\ x = Lower(e.arg)
    OBVIOUS
  <2>3. e = UnaryExpr(o, a)
    BY <1>7, <2>2, ExprShape
  <2>4. [e EXCEPT !.arg = x] = UnaryExpr(o, x)
    BY <2>3 DEF UnaryExpr
  <2> QED
    BY <1>7, <2>1, <2>2, <2>4
<1>8. CASE e.kind = "isnull"
  <2>1. Lower(e.arg) # Rejected /\ Lower(e) = [e EXCEPT !.arg = Lower(e.arg)]
    BY <1>2, <1>3, <1>8 DEF LowerNode
  <2>2. PICK o, a, x : o = e.negate /\ a = e.arg /\ x = Lower(e.arg)
    OBVIOUS
  <2>3. e = IsNullTest(a, o)
    BY <1>8, <2>2, ExprShape
  <2>4. [e EXCEPT !.arg = x] = IsNullTest(x, o)
    BY <2>3 DEF IsNullTest
  <2> QED
    BY <1>8, <2>1, <2>2, <2>4
<1>9. CASE e.kind = "binary"
  <2>1. PICK x, y, w : x = Lower(e.left) /\ y = Lower(e.right) /\ w = WithOperands(e, x, y)
    OBVIOUS
  <2>2. x # Rejected /\ y # Rejected /\ Lower(e) = w
    BY <1>2, <1>3, <1>9, <2>1 DEF LowerNode, WithOperands
  <2>3. w = BinaryExpr(e.op, x, y)
    BY <1>1, <1>9, <2>1, SwapKeepsKind
  <2> QED
    BY <1>9, <2>1, <2>2, <2>3
<1>10. CASE e.kind \in {"star", "none"}
  BY <1>2, <1>10 DEF LowerNode
<1> QED
  BY <1>1, <1>4, <1>5, <1>6, <1>7, <1>8, <1>9, <1>10, ExprKinds

LowerIsExpr(e, n) ==
    ToSet(Calls(e)) \subseteq ToSet(plan.calls) /\ Lower(e) # Rejected => Lower(e) \in Levels(LeafExprs)[n]

LEMMA LoweredNode ==
    ASSUME AcceptedInput, AcceptedAggregates,
           NEW n \in 0 .. MaxHeight, NEW e \in Levels(LeafExprs)[n],
           \A x \in Operands(e) : n # 0 /\ LowerIsExpr(x, n - 1)
    PROVE  LowerIsExpr(e, n)
<1> SUFFICES ASSUME ToSet(Calls(e)) \subseteq ToSet(plan.calls), Lower(e) # Rejected
             PROVE  Lower(e) \in Levels(LeafExprs)[n]
  BY DEF LowerIsExpr
<1>1. e \in Exprs
  BY MoreExprs
<1>2. /\ LeafExprs \subseteq Levels(LeafExprs)[n]
      /\ n # 0 => NodesOver(Levels(LeafExprs)[n - 1]) \subseteq Levels(LeafExprs)[n]
  BY MoreExprs
<1>3. \A i \in Int : SlotRef(i) \in LeafExprs
  BY DEF SlotRef, LeafExprs
<1>4. \A x \in Operands(e) : ToSet(Calls(x)) \subseteq ToSet(plan.calls) /\ Lower(x) # Rejected =>
         n # 0 /\ Lower(x) \in Levels(LeafExprs)[n - 1]
  BY DEF LowerIsExpr
<1>5. CASE e.kind = "literal"
  BY <1>5, LoweredShape
<1>6. CASE e.kind = "slot"
  BY <1>1, <1>6, PlannerUnfolds DEF Lower, LowerNode
<1>7. CASE e.kind = "aggregate"
  <2>1. Lower(e) = SlotRef(CallSlot(e, plan.calls)) /\ e \in ToSet(plan.calls)
    BY <1>1, <1>7, LoweredShape, CallsOfOperands
  <2>2. CallSlot(e, plan.calls) \in Int
    BY <2>1, SlotOfCall, AggregateRows
  <2> QED
    BY <1>2, <1>3, <2>1, <2>2
<1>8. CASE e.kind = "column"
  <2>1. /\ GroupSlots(e, plan.input) # {}
        /\ Lower(e) = SlotRef(CHOOSE m \in GroupSlots(e, plan.input) : TRUE)
    BY <1>8, LoweredShape
  <2>2. PICK i \in 1 .. Len(st.groupBy) : i = CHOOSE m \in GroupSlots(e, plan.input) : TRUE
    BY <2>1, SlotOfColumn
  <2>3. i \in Int
    BY <2>2, AggregateRows
  <2> QED
    BY <1>2, <1>3, <2>1, <2>2, <2>3
<1>9. CASE e.kind \in {"unary", "isnull"}
  <2>1. /\ e.arg \in Operands(e) /\ ToSet(Calls(e.arg)) \subseteq ToSet(plan.calls)
        /\ Lower(e.arg) # Rejected
    BY <1>1, <1>9, CallsOfOperands, LoweredShape DEF Operands
  <2>2. PICK a : a = Lower(e.arg)
    OBVIOUS
  <2>3. n # 0 /\ a \in Levels(LeafExprs)[n - 1]
    BY <1>4, <2>1, <2>2
  <2>4. CASE e.kind = "unary"
    <3>1. Lower(e) = UnaryExpr(e.op, a) /\ e.op \in {"NOT", "-"}
      BY <2>2, <2>4, LoweredShape, ExprShape
    <3>2. Lower(e) \in NodesOver(Levels(LeafExprs)[n - 1])
      BY <2>3, <3>1 DEF NodesOver, UnaryExpr
    <3> QED
      BY <1>2, <2>3, <3>2
  <2>5. CASE e.kind = "isnull"
    <3>1. Lower(e) = IsNullTest(a, e.negate) /\ e.negate \in BOOLEAN
      BY <2>2, <2>5, LoweredShape, ExprShape
    <3>2. Lower(e) \in NodesOver(Levels(LeafExprs)[n - 1])
      BY <2>3, <3>1 DEF NodesOver, IsNullTest
    <3> QED
      BY <1>2, <2>3, <3>2
  <2> QED
    BY <1>9, <2>4, <2>5
<1>10. CASE e.kind = "binary"
  <2>1. /\ e.left \in Operands(e) /\ ToSet(Calls(e.left)) \subseteq ToSet(plan.calls) /\ Lower(e.left) # Rejected
        /\ e.right \in Operands(e) /\ ToSet(Calls(e.right)) \subseteq ToSet(plan.calls) /\ Lower(e.right) # Rejected
    BY <1>1, <1>10, CallsOfOperands, LoweredShape DEF Operands
  <2>2. PICK a, b : a = Lower(e.left) /\ b = Lower(e.right)
    OBVIOUS
  <2>3. n # 0 /\ a \in Levels(LeafExprs)[n - 1] /\ b \in Levels(LeafExprs)[n - 1]
    BY <1>4, <2>1, <2>2
  <2>4. Lower(e) = BinaryExpr(e.op, a, b) /\ e.op \in Operators
    BY <1>10, <2>2, LoweredShape, ExprShape
  <2>5. Lower(e) \in NodesOver(Levels(LeafExprs)[n - 1])
    BY <2>3, <2>4 DEF NodesOver, BinaryExpr, Operators
  <2> QED
    BY <1>2, <2>3, <2>5
<1> QED
  BY <1>5, <1>6, <1>7, <1>8, <1>9, <1>10, LoweredShape

LEMMA LoweredAreExprs ==
    ASSUME AcceptedInput, AcceptedAggregates
    PROVE  \A n \in 0 .. MaxHeight : \A e \in Levels(LeafExprs)[n] : LowerIsExpr(e, n)
<1> DEFINE S == {p \in Exprs \X (0 .. MaxHeight) : LowerIsExpr(p[1], p[2])}
<1>1. ASSUME NEW n \in 0 .. MaxHeight, NEW e \in Levels(LeafExprs)[n],
             \A x \in Operands(e) : n # 0 /\ <<x, n - 1>> \in S
      PROVE  <<e, n>> \in S
  <2>1. \A x \in Operands(e) : n # 0 /\ LowerIsExpr(x, n - 1)
    BY <1>1
  <2>2. LowerIsExpr(e, n)
    BY <2>1, LoweredNode
  <2>3. e \in Exprs
    BY MoreExprs
  <2> QED
    BY <2>2, <2>3
<1> HIDE DEF S
<1>2. \A n \in 0 .. MaxHeight : \A e \in Levels(LeafExprs)[n] :
         (\A x \in Operands(e) : n # 0 /\ <<x, n - 1>> \in S) => <<e, n>> \in S
  BY <1>1
<1>3. \A n \in 0 .. MaxHeight : \A e \in Levels(LeafExprs)[n] : <<e, n>> \in S
  BY <1>2, RankedInduction, Zenon
<1> QED
  BY <1>3 DEF S

LEMMA LoweredExprs ==
    ASSUME AcceptedInput, AcceptedAggregates,
           NEW e \in ToSet(st.projections) \cup ToSet(st.orderBy) \cup {st.having}, Lower(e) # Rejected
    PROVE  Lower(e) \in Exprs
<1>1. e \in Exprs /\ ToSet(Calls(e)) \subseteq ToSet(plan.calls)
  BY EveryCallIsCollected DEF AcceptedInput, AcceptedAggregates
<1>2. LowerIsExpr(e, MaxHeight)
  BY <1>1, LoweredAreExprs, MaxHeightAssumption DEF Exprs
<1> QED
  BY <1>1, <1>2 DEF LowerIsExpr, Exprs

-----------------------------------------------------------------------------
(* Names *)

\* No schema line names a column twice.
NamesColumnsOnce ==
    \A table \in DOMAIN Catalog : \A m, n \in DOMAIN Catalog[table] :
        Catalog[table][m].name = Catalog[table][n].name => m = n

\* The columns of one table, each with a name of its own.
OneTable(schema, table) ==
    /\ schema \in Seq(TableColumns)
    /\ \A n \in DOMAIN schema : schema[n].table = table
    /\ \A m, n \in DOMAIN schema : schema[m].name = schema[n].name => m = n

LEMMA FromTableIsOneTable ==
    ASSUME NamesColumnsOnce, NEW table \in DOMAIN Catalog
    PROVE  OneTable(FromTable(table), table)
<1>1. DOMAIN FromTable(table) = DOMAIN Catalog[table]
      /\ \A n \in DOMAIN FromTable(table) : FromTable(table)[n].name = Catalog[table][n].name
  BY DEF FromTable
<1>2. FromTable(table) \in Seq(TableColumns) /\ \A n \in DOMAIN FromTable(table) : FromTable(table)[n].table = table
  BY FromTableFacts
<1> QED
  BY <1>1, <1>2 DEF OneTable, NamesColumnsOnce

\* In one table a name stands for at most one column.
LEMMA FoundInTable ==
    ASSUME NEW schema, NEW t, OneTable(schema, t), NEW table, NEW name
    PROVE  IF Index(schema, table, name) = Unresolved THEN Found(schema, table, name) = {}
           ELSE /\ Index(schema, table, name) \in DOMAIN schema
                /\ Found(schema, table, name) = {Index(schema, table, name)}
<1>1. IsSchema(schema)
  BY TableSchema DEF OneTable
<1>2. \A i, j \in Found(schema, table, name) : i = j
  BY DEF Found, OneTable
<1>3. ASSUME NEW i \in Found(schema, table, name)
      PROVE  Found(schema, table, name) = {i}
  BY <1>2, <1>3
<1>4. \A i \in Found(schema, table, name) : Index(schema, table, name) = i /\ i # Unresolved
  BY <1>1, <1>3, IndexIsFound
<1> QED
  BY <1>1, <1>4, IndexIsFound

\* A name in a joined schema is looked for in both inputs.
LEMMA FoundInJoin ==
    ASSUME NEW ls \in Seq(TableColumns), NEW rs \in Seq(TableColumns), NEW table, NEW name
    PROVE  /\ Found(ls \o rs, table, name)
                 = Found(ls, table, name) \cup {Len(ls) + i : i \in Found(rs, table, name)}
<1>1. /\ Len(ls) \in Nat /\ DOMAIN ls = 1 .. Len(ls) /\ Len(rs) \in Nat /\ DOMAIN rs = 1 .. Len(rs)
  BY SeqElements
<1>2. /\ Len(ls \o rs) = Len(ls) + Len(rs) /\ DOMAIN (ls \o rs) = 1 .. Len(ls) + Len(rs)
      /\ \A n \in 1 .. Len(ls) + Len(rs) : (ls \o rs)[n] = IF n <= Len(ls) THEN ls[n] ELSE rs[n - Len(ls)]
  BY ConcatProperties
<1>3. \A n \in 1 .. Len(ls) : n \in DOMAIN (ls \o rs) /\ (ls \o rs)[n] = ls[n]
  BY <1>1, <1>2
<1>4. \A n \in 1 .. Len(rs) : Len(ls) + n \in DOMAIN (ls \o rs) /\ (ls \o rs)[Len(ls) + n] = rs[n]
  BY <1>1, <1>2
<1>5. ASSUME NEW i \in Found(ls \o rs, table, name)
      PROVE  i \in Found(ls, table, name) \cup {Len(ls) + j : j \in Found(rs, table, name)}
  <2>1. i \in 1 .. Len(ls) + Len(rs) /\ (ls \o rs)[i].name = name
        /\ (table = Unqualified \/ (ls \o rs)[i].table = table)
    BY <1>2 DEF Found
  <2>2. CASE i <= Len(ls)
    <3>1. i \in DOMAIN ls /\ (ls \o rs)[i] = ls[i]
      BY <1>1, <1>3, <2>1, <2>2
    <3> QED
      BY <2>1, <3>1 DEF Found
  <2>3. CASE ~(i <= Len(ls))
    <3>1. PICK j : j = i - Len(ls)
      OBVIOUS
    <3>2. j \in DOMAIN rs /\ (ls \o rs)[i] = rs[j] /\ i = Len(ls) + j
      BY <1>1, <1>2, <2>1, <2>3, <3>1
    <3> QED
      BY <2>1, <3>2 DEF Found
  <2> QED
    BY <2>2, <2>3
<1>6. ASSUME NEW i \in Found(ls, table, name) PROVE i \in Found(ls \o rs, table, name)
  BY <1>1, <1>3 DEF Found
<1>7. ASSUME NEW i \in Found(rs, table, name) PROVE Len(ls) + i \in Found(ls \o rs, table, name)
  BY <1>1, <1>4 DEF Found
<1> QED
  BY <1>5, <1>6, <1>7

\* No operand belongs to one of two equal inputs: a table is not joined with itself.
LEMMA OwnersOfEqualInputs ==
    ASSUME NEW ls
    PROVE  \A e \in Exprs : JoinOperandOwner(e, ls, ls) \in {"none", "invalid"}
<1> DEFINE S == {e \in Exprs : JoinOperandOwner(e, ls, ls) \in {"none", "invalid"}}
<1>1. ASSUME NEW e \in Exprs, Operands(e) \subseteq S PROVE e \in S
  <2>0. JoinOperandOwner(e, ls, ls) = OwnerNode(e, Ownership(ls, ls), ls, ls)
    BY PlannerUnfolds
  <2>1. CASE e.kind \in {"unary", "isnull"}
    <3>1. JoinOperandOwner(e, ls, ls) = JoinOperandOwner(e.arg, ls, ls)
      BY <2>0, <2>1 DEF OwnerNode, JoinOperandOwner
    <3>2. e.arg \in S
      BY <1>1, <2>1 DEF Operands
    <3> QED
      BY <3>1, <3>2
  <2>2. CASE e.kind = "binary"
    <3>1. JoinOperandOwner(e, ls, ls) \in
             {"invalid", CombineJoinOwners(JoinOperandOwner(e.left, ls, ls), JoinOperandOwner(e.right, ls, ls))}
      BY <2>0, <2>2 DEF OwnerNode, JoinOperandOwner
    <3>2. JoinOperandOwner(e.left, ls, ls) \in {"none", "invalid"} /\ JoinOperandOwner(e.right, ls, ls) \in {"none", "invalid"}
      BY <1>1, <2>2 DEF Operands
    <3>3. \A a, b \in {"none", "invalid"} : CombineJoinOwners(a, b) \in {"none", "invalid"}
      BY DEF CombineJoinOwners
    <3> QED
      BY <3>1, <3>2, <3>3
  <2>3. CASE e.kind = "column"
    BY <2>0, <2>3 DEF OwnerNode, ColumnOwner
  <2>4. CASE e.kind \notin {"unary", "isnull", "binary", "column"}
    BY <2>0, <2>4 DEF OwnerNode
  <2> QED
    BY <2>1, <2>2, <2>3, <2>4
<1> HIDE DEF S
<1>2. Exprs \subseteq S
  BY <1>1, Induction DEF Exprs
<1> QED
  BY <1>2 DEF S

\* What the keys of an accepted join are.
LEMMA AcceptedJoin ==
    ASSUME AcceptedInput, st.join # None
    PROVE  LET on == st.join.on
               lo == JoinOperandOwner(on.left, LeftSchema, Joined)
               ro == JoinOperandOwner(on.right, LeftSchema, Joined)
           IN  /\ on \in Exprs /\ on.kind = "binary" /\ on.op = "="
               /\ on.left \in Exprs /\ on.right \in Exprs
               /\ \/ lo = "left" /\ ro = "right" /\ plan.keys.left = on.left /\ plan.keys.right = on.right
                  \/ lo = "right" /\ ro = "left" /\ plan.keys.left = on.right /\ plan.keys.right = on.left
               /\ plan.keys.left \in Exprs /\ plan.keys.right \in Exprs
               /\ HasType(plan.keys.left, LeftSchema) /\ HasType(plan.keys.right, Joined)
               /\ ComparableTypes(InferExprType(plan.keys.left, LeftSchema),
                                  InferExprType(plan.keys.right, Joined))
<1> DEFINE on == st.join.on
           lo == JoinOperandOwner(on.left, LeftSchema, Joined)
           ro == JoinOperandOwner(on.right, LeftSchema, Joined)
<1>1. on \in Exprs
  BY StatementsAssumption, WrittenExprs DEF AcceptedInput
<1>2. plan.keys = SplitJoinKeys(on, LeftSchema, Joined) /\ plan.keys # Rejected
  BY DEF AcceptedInput
<1>3. on.kind = "binary" /\ on.op = "="
  BY <1>2 DEF SplitJoinKeys
<1>4. on.left \in Exprs /\ on.right \in Exprs
  BY <1>1, <1>3, Unfolds
<1>5. \/ lo = "left" /\ ro = "right" /\ plan.keys = JoinKeys(on.left, on.right, LeftSchema, Joined)
      \/ lo = "right" /\ ro = "left" /\ plan.keys = JoinKeys(on.right, on.left, LeftSchema, Joined)
  BY <1>2, <1>3 DEF SplitJoinKeys
<1>6. ASSUME NEW l \in Exprs, NEW r \in Exprs, plan.keys = JoinKeys(l, r, LeftSchema, Joined)
      PROVE  /\ plan.keys.left = l /\ plan.keys.right = r
             /\ HasType(l, LeftSchema) /\ HasType(r, Joined)
             /\ ComparableTypes(InferExprType(l, LeftSchema), InferExprType(r, Joined))
  BY <1>2, <1>6 DEF JoinKeys
<1> HIDE DEF on, lo, ro
<1>7. /\ \/ lo = "left" /\ ro = "right" /\ plan.keys.left = on.left /\ plan.keys.right = on.right
         \/ lo = "right" /\ ro = "left" /\ plan.keys.left = on.right /\ plan.keys.right = on.left
      /\ plan.keys.left \in Exprs /\ plan.keys.right \in Exprs
      /\ HasType(plan.keys.left, LeftSchema) /\ HasType(plan.keys.right, Joined)
      /\ ComparableTypes(InferExprType(plan.keys.left, LeftSchema), InferExprType(plan.keys.right, Joined))
  BY <1>4, <1>5, <1>6
<1> QED
  BY <1>1, <1>3, <1>4, <1>7 DEF on, lo, ro

LEMMA JoinedTables ==
    ASSUME AcceptedInput, NamesColumnsOnce
    PROVE  /\ OneTable(LeftSchema, st.from)
           /\ st.join = None => Joined = <<>>
           /\ st.join # None => OneTable(Joined, st.join.table) /\ st.join.table # st.from
<1>1. OneTable(LeftSchema, st.from)
  BY FromTableIsOneTable DEF AcceptedInput, LeftSchema
<1>2. ASSUME st.join # None PROVE OneTable(Joined, st.join.table) /\ st.join.table # st.from
  <2>1. Joined = FromTable(st.join.table)
    BY <1>2 DEF Joined
  <2>2. OneTable(Joined, st.join.table)
    BY <1>2, <2>1, FromTableIsOneTable DEF AcceptedInput
  <2>3. st.join.table # st.from
    <3> SUFFICES ASSUME st.join.table = st.from PROVE FALSE
      OBVIOUS
    <3>1. Joined = LeftSchema
      BY <2>1 DEF LeftSchema
    <3> DEFINE lo == JoinOperandOwner(st.join.on.left, LeftSchema, Joined)
    <3>2. lo \in {"left", "right"} /\ st.join.on.left \in Exprs
      BY <1>2, AcceptedJoin
    <3>3. lo \in {"none", "invalid"}
      BY <3>1, <3>2, OwnersOfEqualInputs
    <3> QED
      BY <3>2, <3>3
  <2> QED
    BY <2>2, <2>3
<1> QED
  BY <1>1, <1>2 DEF Joined

-----------------------------------------------------------------------------
(* The promises of an accepted plan. *)

\* A column of the input, by its table and its name, is that column.
LEMMA ColumnsResolve ==
    ASSUME AcceptedInput, NamesColumnsOnce, NEW n \in DOMAIN plan.input
    PROVE  Index(plan.input, plan.input[n].table, plan.input[n].name) = n
<1>1. /\ OneTable(LeftSchema, st.from)
      /\ st.join = None => Joined = <<>>
      /\ st.join # None => OneTable(Joined, st.join.table) /\ st.join.table # st.from
  BY JoinedTables
<1>2. st.from # Unqualified /\ (st.join # None => st.join.table # Unqualified)
  BY FromTableFacts DEF AcceptedInput
<1>3. /\ LeftSchema \in Seq(TableColumns) /\ Joined \in Seq(TableColumns) /\ IsSchema(plan.input)
      /\ plan.input = LeftSchema \o Joined
  BY InputSchema DEF AcceptedInput
<1>4. PICK ls, rs : ls = LeftSchema /\ rs = Joined
  OBVIOUS
<1>a. /\ OneTable(ls, st.from)
      /\ st.join = None => Len(rs) = 0
      /\ st.join # None => OneTable(rs, st.join.table)
  BY <1>1, <1>4
<1>b. /\ \A i \in DOMAIN ls : ls[i].table = st.from
      /\ \A i, j \in DOMAIN ls : ls[i].name = ls[j].name => i = j
      /\ st.join # None => /\ \A i \in DOMAIN rs : rs[i].table = st.join.table
                           /\ \A i, j \in DOMAIN rs : rs[i].name = rs[j].name => i = j
  BY <1>a DEF OneTable
<1>5. /\ Len(ls) \in Nat /\ DOMAIN ls = 1 .. Len(ls) /\ Len(rs) \in Nat /\ DOMAIN rs = 1 .. Len(rs)
  BY <1>3, <1>4, SeqElements
<1>6. /\ DOMAIN plan.input = 1 .. Len(ls) + Len(rs)
      /\ \A i \in 1 .. Len(ls) + Len(rs) : plan.input[i] = IF i <= Len(ls) THEN ls[i] ELSE rs[i - Len(ls)]
  <2>1. plan.input = ls \o rs /\ ls \in Seq(TableColumns) /\ rs \in Seq(TableColumns)
    BY <1>3, <1>4
  <2>2. /\ ls \o rs \in Seq(TableColumns) /\ Len(ls \o rs) = Len(ls) + Len(rs)
        /\ \A i \in 1 .. Len(ls) + Len(rs) : (ls \o rs)[i] = IF i <= Len(ls) THEN ls[i] ELSE rs[i - Len(ls)]
    BY <2>1, ConcatProperties
  <2>3. DOMAIN (ls \o rs) = 1 .. Len(ls \o rs)
    BY <2>2, SeqElements
  <2> QED
    BY <2>1, <2>2, <2>3
<1>7. PICK t, c : t = plan.input[n].table /\ c = plan.input[n].name
  OBVIOUS
<1>8. Found(plan.input, t, c) = Found(ls, t, c) \cup {Len(ls) + i : i \in Found(rs, t, c)}
  BY <1>3, <1>4, FoundInJoin
<1>9. Found(plan.input, t, c) = {n}
  <2>1. CASE n <= Len(ls)
    <3>1. n \in DOMAIN ls /\ ls[n] = plan.input[n]
      BY <1>5, <1>6, <2>1
    <3>2. t = st.from /\ t # Unqualified
      BY <1>2, <1>7, <1>b, <3>1
    <3>3. Found(ls, t, c) = {n}
      <4>1. n \in Found(ls, t, c)
        BY <1>7, <3>1 DEF Found
      <4>2. \A i \in Found(ls, t, c) : i = n
        BY <1>7, <1>b, <3>1 DEF Found
      <4> QED
        BY <4>1, <4>2
    <3>4. Found(rs, t, c) = {}
      <4>1. CASE st.join = None
        BY <1>5, <1>a, <4>1 DEF Found
      <4>2. CASE st.join # None
        BY <1>1, <1>b, <3>2, <4>2 DEF Found
      <4> QED
        BY <4>1, <4>2
    <3> QED
      BY <1>8, <3>3, <3>4
  <2>2. CASE ~(n <= Len(ls))
    <3>0. PICK m : m = n - Len(ls)
      OBVIOUS
    <3>1. m \in DOMAIN rs /\ rs[m] = plan.input[n] /\ n = Len(ls) + m
      BY <1>5, <1>6, <2>2, <3>0
    <3>1a. st.join # None
      BY <1>5, <1>a, <3>1
    <3>2. t = st.join.table /\ t # Unqualified /\ t # st.from
      BY <1>1, <1>2, <1>7, <1>b, <3>1, <3>1a
    <3>3. Found(rs, t, c) = {m}
      <4>1. m \in Found(rs, t, c)
        BY <1>7, <3>1 DEF Found
      <4>2. \A i \in Found(rs, t, c) : i = m
        BY <1>7, <1>b, <3>1, <3>1a DEF Found
      <4> QED
        BY <4>1, <4>2
    <3>4. Found(ls, t, c) = {}
      BY <1>b, <3>2 DEF Found
    <3> QED
      BY <1>8, <3>1, <3>3, <3>4
  <2> QED
    BY <2>1, <2>2
<1>10. Index(plan.input, t, c) = n
  <2>1. PICK schema : schema = plan.input
    OBVIOUS
  <2>2. IsSchema(schema) /\ Found(schema, t, c) = {n}
    BY <1>3, <1>9, <2>1
  <2>3. Index(schema, t, c) = n
    BY <2>2, IndexIsFound
  <2> QED
    BY <2>1, <2>3
<1> QED
  BY <1>7, <1>10

\* What the projections of a plain query expand to.
TypedOver(schema) ==
    {o \in [expr : Exprs, type : Types] : InferExprType(o.expr, schema) = o.type}

LEMMA ExpandedAreTyped ==
    ASSUME AcceptedInput, AcceptedPlain, NamesColumnsOnce
    PROVE  Expanded \in Seq(TypedOver(plan.input))
<1> DEFINE lists == [n \in DOMAIN st.projections |-> Expand(st.projections[n], plan.input)]
           T == TypedOver(plan.input)
           Ts == Seq(T)
<1>1. /\ Len(st.projections) \in Nat /\ DOMAIN st.projections = 1 .. Len(st.projections)
      /\ \A n \in 1 .. Len(st.projections) : st.projections[n] \in Exprs
  <2>1. st.projections \in Seq(Exprs)
    BY StatementsAssumption, WrittenSeqs DEF AcceptedInput
  <2> QED
    BY <2>1, SeqElements
<1>2. IsSchema(plan.input) /\ plan.input \in Seq(TableColumns)
  BY InputSchema
<1>3. ASSUME NEW n \in 1 .. Len(st.projections) PROVE lists[n] \in Ts
  <2>1. st.projections[n] \in Exprs /\ lists[n] = Expand(st.projections[n], plan.input)
    BY <1>1
  <2>2. CASE st.projections[n].kind = "star"
    <3> DEFINE column(i) == [expr |-> ColumnRef(plan.input[i].table, plan.input[i].name), type |-> plan.input[i].type]
    <3>1. lists[n] = [i \in DOMAIN plan.input |-> column(i)]
      BY <2>1, <2>2 DEF Expand
    <3>2. ASSUME NEW i \in DOMAIN plan.input PROVE column(i) \in T
      <4>1. plan.input[i] \in TableColumns
        BY <1>2, SeqElements
      <4>2. PICK e : e = ColumnRef(plan.input[i].table, plan.input[i].name)
        OBVIOUS
      <4>3. e \in LeafExprs /\ e.kind = "column" /\ e.table = plan.input[i].table /\ e.name = plan.input[i].name
        BY <4>1, <4>2 DEF ColumnRef, LeafExprs, WrittenLeaves, TableColumns
      <4>4. e \in Exprs
        BY <4>3, MoreExprs, MaxHeightAssumption DEF Exprs
      <4>5. InferExprType(e, plan.input) = InferNode(e, Typing(plan.input), plan.input)
        BY <4>4, Unfolds
      <4>6. Index(plan.input, e.table, e.name) = i
        BY <4>3, ColumnsResolve
      <4>7. i # Unresolved
        BY <1>2 DEF IsSchema, Unresolved
      <4>8. InferExprType(e, plan.input) = plan.input[i].type
        BY <4>3, <4>5, <4>6, <4>7 DEF InferNode
      <4> QED
        BY <4>1, <4>2, <4>4, <4>8 DEF TypedOver, TableColumns
    <3>3. DOMAIN plan.input = 1 .. Len(plan.input) /\ Len(plan.input) \in Nat
      BY <1>2 DEF IsSchema
    <3> HIDE DEF column, T
    <3>4. lists[n] \in [1 .. Len(plan.input) -> T]
      BY <3>1, <3>2, <3>3
    <3> QED
      BY <3>3, <3>4, FunctionIsSeq
  <2>3. CASE st.projections[n].kind # "star"
    <3>1. PICK o : o = [expr |-> st.projections[n], type |-> InferExprType(st.projections[n], plan.input)]
      OBVIOUS
    <3>2. lists[n] = << o >>
      BY <2>1, <2>3, <3>1 DEF Expand
    <3>3. st.projections[n] \in ToSet(st.projections)
      BY <1>1 DEF ToSet
    <3>4. HasType(st.projections[n], plan.input)
      BY <2>3, <3>3 DEF AcceptedPlain
    <3>5. InferExprType(st.projections[n], plan.input) \in Types
      BY <1>2, <2>1, <3>4, TypedUse
    <3>6. o \in T
      BY <2>1, <3>1, <3>5 DEF TypedOver
    <3> HIDE DEF T, lists
    <3> QED
      BY <3>2, <3>6
  <2> QED
    BY <2>2, <2>3
<1>4. lists = [n \in 1 .. Len(st.projections) |-> lists[n]]
  BY <1>1
<1>5. Expanded = FlattenSeq(lists)
  BY DEF Expanded
<1> HIDE DEF lists, Ts
<1>6. lists \in [1 .. Len(st.projections) -> Ts]
  BY <1>3, <1>4
<1>7. lists \in Seq(Ts)
  BY <1>1, <1>6, FunctionIsSeq
<1>8. lists \in Seq(Seq(T))
  BY <1>7 DEF Ts
<1> HIDE DEF T
<1>9. FlattenSeq(lists) \in Seq(T)
  BY <1>8, FlattenElements
<1> QED
  BY <1>5, <1>9 DEF T

LEMMA UseHolds ==
    ASSUME NEW e \in Exprs, NEW schema, IsSchema(schema), HasType(e, schema), NEW types,
           InferExprType(e, schema) \in types
    PROVE  \E type \in Use(e, schema, types).types :
              \A row \in RowsOf(Use(e, schema, types).schema) :
                 Eval(Use(e, schema, types).expr, Env(Use(e, schema, types).schema, row)).type = type
<1>1. \A row \in RowsOf(schema) : Eval(e, Env(schema, row)).type = InferExprType(e, schema)
  BY TypedUse
<1>2. /\ Use(e, schema, types).expr = e /\ Use(e, schema, types).schema = schema
      /\ Use(e, schema, types).types = types
  BY DEF Use
<1> QED
  BY <1>1, <1>2

\* What a use of an expression promises.
Holds(use) == \E type \in use.types :
                 \A row \in RowsOf(use.schema) : Eval(use.expr, Env(use.schema, row)).type = type

LEMMA TypedUseHolds ==
    ASSUME NEW e \in Exprs, NEW schema, IsSchema(schema), HasType(e, schema), NEW types,
           InferExprType(e, schema) \in types
    PROVE  Holds(Use(e, schema, types))
BY UseHolds DEF Holds

LEMMA AggregateUses ==
    ASSUME AcceptedInput, AcceptedAggregates
    PROVE  /\ plan.having # None => Holds(Use(plan.having, plan.schema, {TBool}))
           /\ \A n \in DOMAIN plan.calls :
                 ~plan.calls[n].star => Holds(Use(plan.calls[n].arg, plan.input, Types))
           /\ \A n \in DOMAIN plan.sortKeys : Holds(Use(plan.sortKeys[n], plan.schema, Types))
           /\ \A n \in DOMAIN plan.exprs : Holds(Use(plan.exprs[n], plan.schema, {plan.outTypes[n]}))
<1>1. IsSchema(plan.schema) /\ IsSchema(plan.input)
  BY AggregateRows, InputSchema
<1>2. ASSUME plan.having # None PROVE Holds(Use(plan.having, plan.schema, {TBool}))
  <2>1. /\ st.having # None /\ plan.having = Lower(st.having)
        /\ Lower(st.having) # Rejected /\ IsBool(Lower(st.having), plan.schema)
    BY <1>2 DEF AcceptedAggregates
  <2>2. plan.having \in Exprs
    BY <2>1, LoweredExprs
  <2>3. InferExprType(plan.having, plan.schema) = TBool
    BY <2>1 DEF IsBool
  <2>4. HasType(plan.having, plan.schema)
    BY <2>3 DEF HasType, TBool, NoType
  <2> QED
    BY <1>1, <2>2, <2>3, <2>4, TypedUseHolds
<1>3. ASSUME NEW n \in DOMAIN plan.calls, ~plan.calls[n].star
      PROVE  Holds(Use(plan.calls[n].arg, plan.input, Types))
  <2>1. plan.calls[n] \in CallNodes /\ OutType(plan.calls[n], plan.input) \in Types
    BY AggregateRows
  <2>2. plan.calls[n].arg \in Exprs
    BY <2>1, Unfolds DEF CallNodes
  <2>3. HasType(plan.calls[n].arg, plan.input)
    BY <1>1, <1>3, <2>1, OutTypes, TypeNames
  <2>4. InferExprType(plan.calls[n].arg, plan.input) \in Types
    BY <1>1, <2>2, <2>3, TypedUse
  <2> QED
    BY <1>1, <2>2, <2>3, <2>4, TypedUseHolds
<1>4. ASSUME NEW e \in ToSet(st.projections) \cup ToSet(st.orderBy)
      PROVE  /\ Lower(e) \in Exprs /\ HasType(Lower(e), plan.schema)
             /\ InferExprType(Lower(e), plan.schema) \in Types
  <2>1. Lower(e) # Rejected /\ HasType(Lower(e), plan.schema)
    BY DEF AcceptedAggregates
  <2>2. Lower(e) \in Exprs
    BY <2>1, LoweredExprs
  <2> QED
    BY <1>1, <2>1, <2>2, TypedUse
<1>5. ASSUME NEW n \in DOMAIN plan.sortKeys PROVE Holds(Use(plan.sortKeys[n], plan.schema, Types))
  <2>1. n \in DOMAIN st.orderBy /\ plan.sortKeys[n] = Lower(st.orderBy[n])
    BY DEF AcceptedAggregates
  <2>2. st.orderBy[n] \in ToSet(st.orderBy)
    BY <2>1 DEF ToSet
  <2> QED
    BY <1>1, <1>4, <2>1, <2>2, TypedUseHolds
<1>6. ASSUME NEW n \in DOMAIN plan.exprs PROVE Holds(Use(plan.exprs[n], plan.schema, {plan.outTypes[n]}))
  <2>1. /\ n \in DOMAIN st.projections /\ plan.exprs[n] = Lower(st.projections[n])
        /\ plan.outTypes[n] = InferExprType(Lower(st.projections[n]), plan.schema)
    BY DEF AcceptedAggregates
  <2>2. st.projections[n] \in ToSet(st.projections)
    BY <2>1 DEF ToSet
  <2> QED
    BY <1>1, <1>4, <2>1, <2>2, TypedUseHolds
<1> QED
  BY <1>2, <1>3, <1>5, <1>6

LEMMA PlainUses ==
    ASSUME AcceptedInput, AcceptedPlain, NamesColumnsOnce
    PROVE  /\ plan.having = None /\ DOMAIN plan.calls = {}
           /\ \A n \in DOMAIN plan.sortKeys : Holds(Use(plan.sortKeys[n], plan.schema, Types))
           /\ \A n \in DOMAIN plan.exprs : Holds(Use(plan.exprs[n], plan.schema, {plan.outTypes[n]}))
<1>1. IsSchema(plan.input) /\ plan.schema = plan.input
  BY InputSchema DEF AcceptedPlain
<1>2. plan.having = None /\ DOMAIN plan.calls = {}
  BY DEF AcceptedPlain
<1>3. ASSUME NEW n \in DOMAIN plan.sortKeys PROVE Holds(Use(plan.sortKeys[n], plan.schema, Types))
  <2>1. plan.sortKeys = st.orderBy /\ st.orderBy \in Seq(Exprs)
    BY StatementsAssumption, WrittenSeqs DEF AcceptedInput, AcceptedPlain
  <2>2. plan.sortKeys[n] \in ToSet(st.orderBy) /\ plan.sortKeys[n] \in Exprs
    BY <2>1, SeqElements DEF ToSet
  <2>3. HasType(plan.sortKeys[n], plan.input)
    BY <2>2 DEF AcceptedPlain
  <2>4. InferExprType(plan.sortKeys[n], plan.input) \in Types
    BY <1>1, <2>2, <2>3, TypedUse
  <2> QED
    BY <1>1, <2>2, <2>3, <2>4, TypedUseHolds
<1>4. ASSUME NEW n \in DOMAIN plan.exprs PROVE Holds(Use(plan.exprs[n], plan.schema, {plan.outTypes[n]}))
  <2>1. /\ n \in DOMAIN Expanded /\ plan.exprs[n] = Expanded[n].expr
        /\ plan.outTypes[n] = Expanded[n].type
    BY DEF AcceptedPlain
  <2>2. Expanded[n] \in TypedOver(plan.input)
    BY <2>1, ExpandedAreTyped, SeqElements
  <2>3. plan.exprs[n] \in Exprs /\ plan.outTypes[n] \in Types
        /\ InferExprType(plan.exprs[n], plan.input) = plan.outTypes[n]
    BY <2>1, <2>2 DEF TypedOver
  <2>4. HasType(plan.exprs[n], plan.input)
    BY <2>3, TypeNames DEF HasType
  <2> QED
    BY <1>1, <2>3, <2>4, TypedUseHolds
<1> QED
  BY <1>2, <1>3, <1>4

LEMMA InputUses ==
    ASSUME AcceptedInput
    PROVE  /\ plan.where # None => Holds(Use(plan.where, plan.input, {TBool}))
           /\ plan.keys # None => /\ Holds(Use(plan.keys.left, LeftSchema, Types))
                                  /\ Holds(Use(plan.keys.right, Joined, Types))
<1>1. IsSchema(plan.input) /\ IsSchema(LeftSchema) /\ IsSchema(Joined)
  BY InputSchema
<1>2. ASSUME plan.where # None PROVE Holds(Use(plan.where, plan.input, {TBool}))
  <2>1. plan.where \in Exprs
    BY StatementsAssumption, WrittenExprs DEF AcceptedInput
  <2>2. InferExprType(plan.where, plan.input) = TBool
    BY <1>2 DEF AcceptedInput, IsBool
  <2>3. HasType(plan.where, plan.input)
    BY <2>2 DEF HasType, TBool, NoType
  <2> QED
    BY <1>1, <2>1, <2>2, <2>3, TypedUseHolds
<1>3. ASSUME plan.keys # None
      PROVE  /\ Holds(Use(plan.keys.left, LeftSchema, Types))
             /\ Holds(Use(plan.keys.right, Joined, Types))
  <2>1. st.join # None
    BY <1>3 DEF AcceptedInput
  <2>2. /\ plan.keys.left \in Exprs /\ plan.keys.right \in Exprs
        /\ HasType(plan.keys.left, LeftSchema) /\ HasType(plan.keys.right, Joined)
    BY <2>1, AcceptedJoin
  <2>3. InferExprType(plan.keys.left, LeftSchema) \in Types /\ InferExprType(plan.keys.right, Joined) \in Types
    BY <1>1, <2>2, TypedUse
  <2> QED
    BY <1>1, <2>2, <2>3, TypedUseHolds
<1> QED
  BY <1>2, <1>3

(* The operators of an accepted plan evaluate its expressions without an error,
   to values of the types the planner relied on (plan.go:14-107,
   aggregate.go:46-147): a failing key, predicate or projection would end or
   thin out the answer without a word.  The premise is needed: Build does not
   resolve the columns it expands * to, and a name that a table has twice is
   ambiguous at the first row (run planner_repeated). *)
THEOREM PlansNeverFail == Spec => [](NamesColumnsOnce => AcceptedPlansNeverFail)
<1>1. ASSUME PlanInv, NamesColumnsOnce PROVE AcceptedPlansNeverFail
  <2> SUFFICES ASSUME Accepted, NEW use \in Uses, use.expr # None PROVE Holds(use)
    BY DEF AcceptedPlansNeverFail, Holds
  <2>1. AcceptedInput /\ IF IsAggregateQuery THEN AcceptedAggregates ELSE AcceptedPlain
    BY <1>1, AcceptedFacts
  <2>2. /\ plan.where # None => Holds(Use(plan.where, plan.input, {TBool}))
        /\ plan.keys # None => /\ Holds(Use(plan.keys.left, LeftSchema, Types))
                               /\ Holds(Use(plan.keys.right, Joined, Types))
    BY <2>1, InputUses
  <2>3. /\ plan.having # None => Holds(Use(plan.having, plan.schema, {TBool}))
        /\ \A n \in DOMAIN plan.calls :
              ~plan.calls[n].star => Holds(Use(plan.calls[n].arg, plan.input, Types))
        /\ \A n \in DOMAIN plan.sortKeys : Holds(Use(plan.sortKeys[n], plan.schema, Types))
        /\ \A n \in DOMAIN plan.exprs : Holds(Use(plan.exprs[n], plan.schema, {plan.outTypes[n]}))
    <3>1. CASE IsAggregateQuery
      BY <2>1, <3>1, AggregateUses
    <3>2. CASE ~IsAggregateQuery
      BY <1>1, <2>1, <3>2, PlainUses
    <3> QED
      BY <3>1, <3>2
  <2>4. \A e, schema, types : Use(e, schema, types).expr = e
    BY DEF Use
  <2>5. \/ use = Use(plan.where, plan.input, {TBool})
        \/ use = Use(plan.having, plan.schema, {TBool})
        \/ \E n \in DOMAIN plan.calls : ~plan.calls[n].star /\ use = Use(plan.calls[n].arg, plan.input, Types)
        \/ \E n \in DOMAIN plan.sortKeys : use = Use(plan.sortKeys[n], plan.schema, Types)
        \/ \E n \in DOMAIN plan.exprs : use = Use(plan.exprs[n], plan.schema, {plan.outTypes[n]})
        \/ plan.keys # None /\ use = Use(plan.keys.left, LeftSchema, Types)
        \/ plan.keys # None /\ use = Use(plan.keys.right, Joined, Types)
    BY DEF Uses
  <2>6. CASE use = Use(plan.where, plan.input, {TBool})
    BY <2>2, <2>4, <2>6
  <2>7. CASE use = Use(plan.having, plan.schema, {TBool})
    BY <2>3, <2>4, <2>7
  <2>8. CASE \E n \in DOMAIN plan.calls :
                ~plan.calls[n].star /\ use = Use(plan.calls[n].arg, plan.input, Types)
    BY <2>3, <2>8
  <2>9. CASE \E n \in DOMAIN plan.sortKeys : use = Use(plan.sortKeys[n], plan.schema, Types)
    BY <2>3, <2>9
  <2>10. CASE \E n \in DOMAIN plan.exprs : use = Use(plan.exprs[n], plan.schema, {plan.outTypes[n]})
    BY <2>3, <2>10
  <2>11. CASE plan.keys # None /\ use = Use(plan.keys.left, LeftSchema, Types)
    BY <2>2, <2>11
  <2>12. CASE plan.keys # None /\ use = Use(plan.keys.right, Joined, Types)
    BY <2>2, <2>12
  <2> QED
    BY <2>5, <2>6, <2>7, <2>8, <2>9, <2>10, <2>11, <2>12
<1>2. PlanInv => (NamesColumnsOnce => AcceptedPlansNeverFail)
  BY <1>1
<1> QED
  BY <1>2, PlanInvariant, PTL

-----------------------------------------------------------------------------
(* The two keys say what the condition says. *)

(* ON a = b and ON b = a have the same keys, or are both rejected
   (splitJoinKeys, plan.go:123-156). *)
THEOREM OperandOrder ==
    ASSUME st \in Statements
    PROVE  OperandOrderDoesNotMatter
<1> SUFFICES ASSUME st.join # None
             PROVE  SplitJoinKeys(st.join.on, LeftSchema, Joined)
                       = SplitJoinKeys([st.join.on EXCEPT !.left = st.join.on.right,
                                                          !.right = st.join.on.left], LeftSchema, Joined)
  BY DEF OperandOrderDoesNotMatter
<1>1. PICK on : on = st.join.on
  OBVIOUS
<1>2. on \in Exprs
  BY <1>1, StatementsAssumption, WrittenExprs
<1>3. PICK ls, rs : ls = LeftSchema /\ rs = Joined
  OBVIOUS
<1>4. PICK swapped : swapped = WithOperands(on, on.right, on.left)
  OBVIOUS
<1>5. CASE on.kind = "binary"
  <2>1. swapped = BinaryExpr(on.op, on.right, on.left)
    BY <1>2, <1>4, <1>5, SwapKeepsKind
  <2>2. swapped.kind = "binary" /\ swapped.op = on.op /\ swapped.left = on.right /\ swapped.right = on.left
    BY <2>1 DEF BinaryExpr
  <2>3. SplitJoinKeys(on, ls, rs) = SplitJoinKeys(swapped, ls, rs)
    BY <1>5, <2>2 DEF SplitJoinKeys
  <2> QED
    BY <1>1, <1>3, <1>4, <2>3 DEF WithOperands
<1>6. CASE on.kind # "binary"
  <2>1. swapped.kind # "binary"
    BY <1>2, <1>4, <1>6, SwapKeepsKind
  <2>2. SplitJoinKeys(on, ls, rs) = SplitJoinKeys(swapped, ls, rs)
    BY <1>6, <2>1 DEF SplitJoinKeys
  <2> QED
    BY <1>1, <1>3, <1>4, <2>2 DEF WithOperands
<1> QED
  BY <1>5, <1>6

\* The rows of a join, and the columns of either input in them.
LEMMA JoinedRow ==
    ASSUME NEW ls \in Seq(TableColumns), NEW rs \in Seq(TableColumns),
           NEW l \in RowsOf(ls), NEW r \in RowsOf(rs)
    PROVE  /\ \A i \in DOMAIN ls : (l \o r)[i] = l[i]
           /\ \A i \in DOMAIN rs : (l \o r)[Len(ls) + i] = r[i]
<1>1. /\ Len(ls) \in Nat /\ DOMAIN ls = 1 .. Len(ls) /\ Len(rs) \in Nat /\ DOMAIN rs = 1 .. Len(rs)
  BY SeqElements
<1>2. PICK L : L = {l[i] : i \in DOMAIN ls} \cup {r[i] : i \in DOMAIN rs}
  OBVIOUS
<1>3. l \in [1 .. Len(ls) -> L] /\ r \in [1 .. Len(rs) -> L]
  BY <1>1, <1>2 DEF RowsOf
<1>4. l \in Seq(L) /\ Len(l) = Len(ls) /\ r \in Seq(L) /\ Len(r) = Len(rs)
  BY <1>1, <1>3, FunctionIsSeq
<1>5. \A n \in 1 .. Len(l) + Len(r) : (l \o r)[n] = IF n <= Len(l) THEN l[n] ELSE r[n - Len(l)]
  BY <1>4, ConcatProperties
<1>6. ASSUME NEW i \in DOMAIN ls PROVE (l \o r)[i] = l[i]
  BY <1>1, <1>4, <1>5
<1>7. ASSUME NEW i \in DOMAIN rs PROVE (l \o r)[Len(ls) + i] = r[i]
  <2>1. Len(ls) + i \in 1 .. Len(l) + Len(r) /\ ~(Len(ls) + i <= Len(l)) /\ (Len(ls) + i) - Len(l) = i
    BY <1>1, <1>4
  <2> QED
    BY <1>5, <2>1
<1> QED
  BY <1>6, <1>7

\* The value of a column of one input on the joined row.
LEMMA JoinedColumn ==
    ASSUME NEW ls, NEW rs, NEW lt, NEW rt, OneTable(ls, lt), OneTable(rs, rt),
           NEW l \in RowsOf(ls), NEW r \in RowsOf(rs), NEW e \in Exprs, e.kind = "column"
    PROVE  /\ ColumnOwner(e, ls, rs) = "left" => Eval(e, Env(ls \o rs, l \o r)) = Eval(e, Env(ls, l))
           /\ ColumnOwner(e, ls, rs) = "right" => Eval(e, Env(ls \o rs, l \o r)) = Eval(e, Env(rs, r))
<1>0. ls \in Seq(TableColumns) /\ rs \in Seq(TableColumns)
  BY DEF OneTable
<1>1. PICK t, c : t = e.table /\ c = e.name
  OBVIOUS
<1>2. PICK both, row : both = ls \o rs /\ row = l \o r
  OBVIOUS
<1>3. /\ IF Index(ls, t, c) = Unresolved THEN Found(ls, t, c) = {}
         ELSE Index(ls, t, c) \in DOMAIN ls /\ Found(ls, t, c) = {Index(ls, t, c)}
      /\ IF Index(rs, t, c) = Unresolved THEN Found(rs, t, c) = {}
         ELSE Index(rs, t, c) \in DOMAIN rs /\ Found(rs, t, c) = {Index(rs, t, c)}
  BY FoundInTable
<1>4. Found(both, t, c) = Found(ls, t, c) \cup {Len(ls) + i : i \in Found(rs, t, c)}
  BY <1>0, <1>2, FoundInJoin
<1>5. both \in Seq(TableColumns) /\ IsSchema(both)
  BY <1>0, <1>2, ConcatElements, TableSchema
<1>6. \A schema, x : Eval(e, Env(schema, x)) =
         IF Index(schema, t, c) = Unresolved THEN NoValue ELSE x[Index(schema, t, c)]
  <2>1. TAKE schema, x
  <2>2. PICK env : env = Env(schema, x)
    OBVIOUS
  <2>3. env.schema = schema /\ env.row = x
    BY <2>2 DEF Env
  <2>4. Eval(e, env) = EvalNode(e, Evaluator(env), env)
    BY Unfolds
  <2>5. Eval(e, env) = IF Index(schema, t, c) = Unresolved THEN NoValue ELSE x[Index(schema, t, c)]
    BY <1>1, <2>3, <2>4 DEF EvalNode
  <2> QED
    BY <2>2, <2>5
<1>7. /\ \A i \in DOMAIN ls : row[i] = l[i]
      /\ \A i \in DOMAIN rs : row[Len(ls) + i] = r[i]
  BY <1>0, <1>2, JoinedRow
<1>8. ASSUME ColumnOwner(e, ls, rs) = "left" PROVE Eval(e, Env(both, row)) = Eval(e, Env(ls, l))
  <2>1. Index(ls, t, c) # Unresolved /\ Index(rs, t, c) = Unresolved
    BY <1>1, <1>8 DEF ColumnOwner
  <2>2. PICK i : i = Index(ls, t, c)
    OBVIOUS
  <2>3. Found(both, t, c) = {i} /\ i \in DOMAIN ls
    BY <1>3, <1>4, <2>1, <2>2
  <2>4. Index(both, t, c) = i /\ i # Unresolved
    BY <1>5, <2>3, IndexIsFound
  <2> QED
    BY <1>6, <1>7, <2>1, <2>2, <2>3, <2>4
<1>9. ASSUME ColumnOwner(e, ls, rs) = "right" PROVE Eval(e, Env(both, row)) = Eval(e, Env(rs, r))
  <2>1. Index(rs, t, c) # Unresolved /\ Index(ls, t, c) = Unresolved
    BY <1>1, <1>9 DEF ColumnOwner
  <2>2. PICK i : i = Index(rs, t, c)
    OBVIOUS
  <2>3. Found(both, t, c) = {Len(ls) + i} /\ i \in DOMAIN rs
    BY <1>3, <1>4, <2>1, <2>2
  <2>4. Index(both, t, c) = Len(ls) + i /\ Len(ls) + i # Unresolved
    BY <1>5, <2>3, IndexIsFound
  <2> QED
    BY <1>6, <1>7, <2>1, <2>2, <2>3, <2>4
<1> QED
  BY <1>2, <1>8, <1>9

\* Combined owners: of one side only if both operands are of the side, or of none.
LEMMA OneSide ==
    ASSUME NEW side \in {"left", "right"},
           NEW a, NEW b, CombineJoinOwners(a, b) \in {side, "none"},
           a \in {"none", "left", "right", "invalid"}, b \in {"none", "left", "right", "invalid"}
    PROVE  a \in {side, "none"} /\ b \in {side, "none"}
<1>1. CASE "invalid" \in {a, b}
  BY <1>1 DEF CombineJoinOwners
<1>2. CASE "invalid" \notin {a, b} /\ a = "none"
  BY <1>2 DEF CombineJoinOwners
<1>3. CASE "invalid" \notin {a, b} /\ a # "none"
  BY <1>3 DEF CombineJoinOwners
<1> QED
  BY <1>1, <1>2, <1>3

LEMMA OwnerNames ==
    ASSUME NEW ls, NEW rs
    PROVE  \A e \in Exprs : JoinOperandOwner(e, ls, rs) \in {"none", "left", "right", "invalid"}
<1> DEFINE S == {e \in Exprs : JoinOperandOwner(e, ls, rs) \in {"none", "left", "right", "invalid"}}
<1>1. ASSUME NEW e \in Exprs, Operands(e) \subseteq S PROVE e \in S
  <2>0. JoinOperandOwner(e, ls, rs) = OwnerNode(e, Ownership(ls, rs), ls, rs)
    BY PlannerUnfolds
  <2>1. CASE e.kind \in {"unary", "isnull"}
    <3>1. JoinOperandOwner(e, ls, rs) = JoinOperandOwner(e.arg, ls, rs)
      BY <2>0, <2>1 DEF OwnerNode, JoinOperandOwner
    <3>2. e.arg \in S
      BY <1>1, <2>1 DEF Operands
    <3> QED
      BY <3>1, <3>2
  <2>2. CASE e.kind = "binary"
    <3>1. JoinOperandOwner(e, ls, rs) \in
             {"invalid", CombineJoinOwners(JoinOperandOwner(e.left, ls, rs), JoinOperandOwner(e.right, ls, rs))}
      BY <2>0, <2>2 DEF OwnerNode, JoinOperandOwner
    <3>2. e.left \in S /\ e.right \in S
      BY <1>1, <2>2 DEF Operands
    <3>3. \A a, b \in {"none", "left", "right", "invalid"} :
             CombineJoinOwners(a, b) \in {"none", "left", "right", "invalid"}
      BY DEF CombineJoinOwners
    <3> QED
      BY <3>1, <3>2, <3>3
  <2>3. CASE e.kind = "column"
    BY <2>0, <2>3 DEF OwnerNode, ColumnOwner
  <2>4. CASE e.kind \notin {"unary", "isnull", "binary", "column"}
    BY <2>0, <2>4 DEF OwnerNode
  <2> QED
    BY <2>1, <2>2, <2>3, <2>4
<1> HIDE DEF S
<1>2. Exprs \subseteq S
  BY <1>1, Induction DEF Exprs
<1> QED
  BY <1>2 DEF S

\* An operand of one input has on the joined row the value it has on the input's row.
LEMMA OperandOfOneInput ==
    ASSUME NEW ls, NEW rs, NEW lt, NEW rt, OneTable(ls, lt), OneTable(rs, rt),
           NEW l \in RowsOf(ls), NEW r \in RowsOf(rs), NEW side \in {"left", "right"},
           NEW env, NEW own, env = Env(ls \o rs, l \o r),
           own = IF side = "left" THEN Env(ls, l) ELSE Env(rs, r)
    PROVE  \A e \in Exprs : JoinOperandOwner(e, ls, rs) \in {side, "none"} => Eval(e, env) = Eval(e, own)
<1> DEFINE S == {e \in Exprs : JoinOperandOwner(e, ls, rs) \in {side, "none"} => Eval(e, env) = Eval(e, own)}
<1>0. env.saturates = own.saturates
  BY DEF Env
<1>1. ASSUME NEW e \in Exprs, Operands(e) \subseteq S, JoinOperandOwner(e, ls, rs) \in {side, "none"}
      PROVE  Eval(e, env) = Eval(e, own)
  <2>0. JoinOperandOwner(e, ls, rs) = OwnerNode(e, Ownership(ls, rs), ls, rs)
    BY PlannerUnfolds
  <2>1. /\ Eval(e, env) = EvalNode(e, Evaluator(env), env)
        /\ Eval(e, own) = EvalNode(e, Evaluator(own), own)
    BY Unfolds
  <2>2. CASE e.kind = "literal"
    BY <2>1, <2>2 DEF EvalNode
  <2>3. CASE e.kind = "column"
    <3>1. ColumnOwner(e, ls, rs) \in {side, "none"}
      BY <1>1, <2>0, <2>3 DEF OwnerNode
    <3>2. ColumnOwner(e, ls, rs) = side
      BY <3>1 DEF ColumnOwner
    <3> QED
      BY <2>3, <3>2, JoinedColumn
  <2>4. CASE e.kind \in {"unary", "isnull"}
    <3>1. JoinOperandOwner(e, ls, rs) = JoinOperandOwner(e.arg, ls, rs)
      BY <2>0, <2>4 DEF OwnerNode, JoinOperandOwner
    <3>2. e.arg \in S
      BY <1>1, <2>4 DEF Operands
    <3>3. Evaluator(env)[e.arg] = Evaluator(own)[e.arg]
      BY <1>1, <3>1, <3>2 DEF Eval
    <3> QED
      BY <2>1, <2>4, <3>3 DEF EvalNode
  <2>5. CASE e.kind = "binary"
    <3>1. /\ e.op # "="
          /\ JoinOperandOwner(e, ls, rs)
                = CombineJoinOwners(JoinOperandOwner(e.left, ls, rs), JoinOperandOwner(e.right, ls, rs))
      BY <1>1, <2>0, <2>5 DEF OwnerNode, JoinOperandOwner
    <3>2. e.left \in S /\ e.right \in S
      BY <1>1, <2>5 DEF Operands
    <3>3. JoinOperandOwner(e.left, ls, rs) \in {side, "none"} /\ JoinOperandOwner(e.right, ls, rs) \in {side, "none"}
      BY <1>1, <3>1, <3>2, OneSide, OwnerNames
    <3>4. Evaluator(env)[e.left] = Evaluator(own)[e.left] /\ Evaluator(env)[e.right] = Evaluator(own)[e.right]
      BY <3>2, <3>3 DEF Eval
    <3> QED
      BY <1>0, <2>1, <2>5, <3>4 DEF EvalNode
  <2>6. CASE e.kind \notin {"literal", "column", "unary", "isnull", "binary"}
    BY <1>1, <2>0, <2>6 DEF OwnerNode
  <2> QED
    BY <2>2, <2>3, <2>4, <2>5, <2>6
<1>2. \A e \in Exprs : Operands(e) \subseteq S => e \in S
  BY <1>1
<1> HIDE DEF S
<1>3. Exprs \subseteq S
  BY <1>2, Induction DEF Exprs
<1> QED
  BY <1>3 DEF S

LEMMA EqualsSwaps ==
    ASSUME NEW a \in Values, NEW b \in Values, Comparable(a, b), NEW saturates
    PROVE  EvalBinary("=", a, b, saturates) = EvalBinary("=", b, a, saturates)
<1>1. "=" \in Comparisons
  BY DEF Comparisons
<1>2. \A x, y : EvalBinary("=", x, y, saturates)
         = IF Compare(x, y).known THEN Bool(CompareResult("=", Compare(x, y).ord)) ELSE NullOf(TBool)
  BY <1>1, ComparisonValue
<1>3. /\ Compare(a, b).known <=> Compare(b, a).known
      /\ Compare(a, b).known => /\ Compare(a, b).ord \in {-1, 0, 1}
                                /\ Compare(b, a).ord = -Compare(a, b).ord
  BY CompareSwaps
<1>4. ASSUME NEW m, NEW n, m \in {-1, 0, 1}, n = -m
      PROVE  Bool(CompareResult("=", m)) = Bool(CompareResult("=", n))
  <2>1. \A x : CompareResult("=", x) = (x = 0)
    BY DEF CompareResult
  <2>2. (m = 0) = (n = 0)
    BY <1>4
  <2> QED
    BY <2>1, <2>2
<1>5. CASE Compare(a, b).known
  <2>1. PICK m, n : m = Compare(a, b).ord /\ n = Compare(b, a).ord
    OBVIOUS
  <2>2. Bool(CompareResult("=", m)) = Bool(CompareResult("=", n))
    BY <1>3, <1>4, <1>5, <2>1
  <2> QED
    BY <1>2, <1>3, <1>5, <2>1, <2>2
<1>6. CASE ~Compare(a, b).known
  BY <1>2, <1>3, <1>6
<1> QED
  BY <1>5, <1>6

LEMMA KeysAreTheCondition ==
    ASSUME AcceptedInput, NamesColumnsOnce, st.join # None,
           NEW l \in RowsOf(LeftSchema), NEW r \in RowsOf(Joined)
    PROVE  Eval(st.join.on, Env(plan.input, l \o r))
              = EvalBinary("=", Eval(plan.keys.left, Env(LeftSchema, l)),
                                Eval(plan.keys.right, Env(Joined, r)), TRUE)
<1>0. PICK on, ls, rs, k, m : /\ on = st.join.on /\ ls = LeftSchema /\ rs = Joined
                              /\ k = plan.keys.left /\ m = plan.keys.right
  OBVIOUS
<1>1. /\ on \in Exprs /\ on.kind = "binary" /\ on.op = "=" /\ on.left \in Exprs /\ on.right \in Exprs
      /\ \/ /\ JoinOperandOwner(on.left, ls, rs) = "left" /\ JoinOperandOwner(on.right, ls, rs) = "right"
            /\ k = on.left /\ m = on.right
         \/ /\ JoinOperandOwner(on.left, ls, rs) = "right" /\ JoinOperandOwner(on.right, ls, rs) = "left"
            /\ k = on.right /\ m = on.left
      /\ k \in Exprs /\ m \in Exprs /\ HasType(k, ls) /\ HasType(m, rs)
      /\ ComparableTypes(InferExprType(k, ls), InferExprType(m, rs))
  BY <1>0, AcceptedJoin
<1>2. /\ IsSchema(ls) /\ IsSchema(rs) /\ l \in RowsOf(ls) /\ r \in RowsOf(rs)
      /\ OneTable(ls, st.from) /\ OneTable(rs, st.join.table)
  BY <1>0, InputSchema, JoinedTables
<1>3. PICK env, own, other : /\ env = Env(ls \o rs, l \o r)
                             /\ own = Env(ls, l) /\ other = Env(rs, r)
  OBVIOUS
<1>4. env = Env(plan.input, l \o r) /\ env.saturates = TRUE
  BY <1>0, <1>3 DEF AcceptedInput, Env
<1>5. PICK a, b : a = Eval(k, own) /\ b = Eval(m, other)
  OBVIOUS
<1>6. /\ a \in Values /\ a # NoValue /\ a.type = InferExprType(k, ls)
      /\ b \in Values /\ b # NoValue /\ b.type = InferExprType(m, rs)
  BY <1>1, <1>2, <1>3, <1>5, TypedUse
<1>7. Comparable(a, b)
  BY <1>1, <1>6 DEF Comparable, ComparableTypes, NumericType, IsNumeric
<1>8. /\ \A e \in Exprs : JoinOperandOwner(e, ls, rs) \in {"left", "none"} => Eval(e, env) = Eval(e, own)
      /\ \A e \in Exprs : JoinOperandOwner(e, ls, rs) \in {"right", "none"} => Eval(e, env) = Eval(e, other)
  <2>1. own = IF "left" = "left" THEN Env(ls, l) ELSE Env(rs, r)
    BY <1>3
  <2>2. \A e \in Exprs : JoinOperandOwner(e, ls, rs) \in {"left", "none"} => Eval(e, env) = Eval(e, own)
    BY <1>2, <1>3, <2>1, OperandOfOneInput
  <2>3. other = IF "right" = "left" THEN Env(ls, l) ELSE Env(rs, r)
    BY <1>3
  <2>4. \A e \in Exprs : JoinOperandOwner(e, ls, rs) \in {"right", "none"} => Eval(e, env) = Eval(e, other)
    BY <1>2, <1>3, <2>3, OperandOfOneInput
  <2> QED
    BY <2>2, <2>4
<1>9. CASE k = on.left /\ m = on.right /\ JoinOperandOwner(on.left, ls, rs) = "left" /\ JoinOperandOwner(on.right, ls, rs) = "right"
  <2>1. Eval(on.left, env) = a /\ Eval(on.right, env) = b
    BY <1>1, <1>5, <1>8, <1>9
  <2>2. Eval(on, env) = EvalBinary("=", a, b, TRUE)
    BY <1>1, <1>4, <1>6, <2>1, BinaryValue
  <2> QED
    BY <1>0, <1>3, <1>4, <1>5, <2>2
<1>10. CASE k = on.right /\ m = on.left /\ JoinOperandOwner(on.left, ls, rs) = "right" /\ JoinOperandOwner(on.right, ls, rs) = "left"
  <2>1. Eval(on.left, env) = b /\ Eval(on.right, env) = a
    BY <1>1, <1>5, <1>8, <1>10
  <2>2. Eval(on, env) = EvalBinary("=", b, a, TRUE)
    BY <1>1, <1>4, <1>6, <2>1, BinaryValue
  <2>3. EvalBinary("=", a, b, TRUE) = EvalBinary("=", b, a, TRUE)
    BY <1>6, <1>7, EqualsSwaps
  <2> QED
    BY <1>0, <1>3, <1>4, <1>5, <2>2, <2>3
<1> QED
  BY <1>1, <1>9, <1>10

(* The keys that splitJoinKeys takes from an accepted ON condition, each
   evaluated on the row of its own input as HashJoin does, compare as the
   condition does on the joined row: no operand is given to the wrong input
   (joinOperandOwner, plan.go:166-199), and no column of it resolves to another
   one there.  A name that one table has twice is no one column of the join. *)
THEOREM KeysSayTheCondition == Spec => [](NamesColumnsOnce => JoinKeysAreTheCondition)
<1>1. ASSUME PlanInv, NamesColumnsOnce PROVE JoinKeysAreTheCondition
  <2>1. OperandOrderDoesNotMatter
    BY <1>1, OperandOrder DEF PlanInv
  <2>2. ASSUME Accepted, plan.keys # None, NEW l \in RowsOf(LeftSchema), NEW r \in RowsOf(Joined)
        PROVE  Eval(st.join.on, Env(plan.input, l \o r))
                  = EvalBinary("=", Eval(plan.keys.left, Env(LeftSchema, l)),
                                    Eval(plan.keys.right, Env(Joined, r)), TRUE)
    <3>1. AcceptedInput
      BY <1>1, <2>2, AcceptedFacts
    <3>2. st.join # None
      BY <2>2, <3>1 DEF AcceptedInput
    <3> QED
      BY <1>1, <3>1, <3>2, KeysAreTheCondition
  <2> QED
    BY <2>1, <2>2 DEF JoinKeysAreTheCondition
<1>2. PlanInv => (NamesColumnsOnce => JoinKeysAreTheCondition)
  BY <1>1
<1> QED
  BY <1>2, PlanInvariant, PTL

-----------------------------------------------------------------------------
(* Lowering keeps the meaning of an aggregate query. *)

LEMMA ResultValues ==
    ASSUME AcceptedInput, AcceptedAggregates, NEW n \in 1 .. Len(plan.calls)
    PROVE  /\ plan.calls[n].id \in DOMAIN ResultOf
           /\ ResultOf[plan.calls[n].id] \in Values
<1>1. PICK id : id = plan.calls[n].id
  OBVIOUS
<1>2. /\ DOMAIN plan.calls = 1 .. Len(plan.calls) /\ plan.calls[n] \in ToSet(plan.calls)
      /\ plan.calls \in Seq(CallNodes)
  BY AggregateRows, EveryCallIsCollected DEF AcceptedInput, AcceptedAggregates
<1>3. id \in DOMAIN ResultOf
  BY <1>1, <1>2 DEF ResultOf
<1> DEFINE call == CHOOSE call \in ToSet(plan.calls) : call.id = id
<1>4. call \in ToSet(plan.calls) /\ call.id = id
  BY <1>1, <1>2
<1>5. ResultOf[id] = Results[OutType(call, plan.input)][id]
  BY <1>1, <1>2 DEF ResultOf
<1> HIDE DEF call
<1>6. OutType(call, plan.input) # NoType /\ call \in CallNodes
  BY <1>2, <1>4, ElementsOf DEF AcceptedAggregates, ValidCall
<1>7. OutType(call, plan.input) \in Types
  BY <1>6, OutTypes, InputSchema
<1>8. id \in Ids
  BY <1>4, IdsAssumption DEF AcceptedInput, AcceptedAggregates, Collected
<1> QED
  BY <1>1, <1>3, <1>5, <1>7, <1>8, ValuesAssumption

LEMMA Shifted ==
    ASSUME NEW g \in Nat, NEW c \in Nat
    PROVE  /\ \A n \in 1 .. g : n \in 1 .. g + c /\ n \in Int
           /\ \A n \in 1 .. c : /\ g + n \in 1 .. g + c /\ g + n \in Int
                               /\ ~(g + n <= g) /\ (g + n) - g = n
OBVIOUS

\* The group's row: the groups' columns, then the calls' results.
LEMMA GroupRowFacts ==
    ASSUME AcceptedInput, AcceptedAggregates, NEW row
    PROVE  /\ DOMAIN GroupRow(row) = 1 .. Len(st.groupBy) + Len(plan.calls)
           /\ \A n \in 1 .. Len(st.groupBy) : GroupRow(row)[n] = Eval(st.groupBy[n], Env(plan.input, row))
           /\ \A n \in 1 .. Len(plan.calls) :
                 GroupRow(row)[Len(st.groupBy) + n] = ResultOf[plan.calls[n].id]
<1> DEFINE groups == [n \in DOMAIN st.groupBy |-> Eval(st.groupBy[n], Env(plan.input, row))]
           results == [n \in DOMAIN plan.calls |-> ResultOf[plan.calls[n].id]]
           T == {groups[n] : n \in DOMAIN st.groupBy} \cup {results[n] : n \in DOMAIN plan.calls}
<1>1. /\ DOMAIN st.groupBy = 1 .. Len(st.groupBy) /\ Len(st.groupBy) \in Nat
      /\ DOMAIN plan.calls = 1 .. Len(plan.calls) /\ Len(plan.calls) \in Nat
  BY AggregateRows
<1>2. /\ groups \in [1 .. Len(st.groupBy) -> T] /\ results \in [1 .. Len(plan.calls) -> T]
  <2>1. groups = [n \in 1 .. Len(st.groupBy) |-> groups[n]] /\ results = [n \in 1 .. Len(plan.calls) |-> results[n]]
    BY <1>1
  <2>2. /\ \A n \in 1 .. Len(st.groupBy) : groups[n] \in T
        /\ \A n \in 1 .. Len(plan.calls) : results[n] \in T
    <3> HIDE DEF groups, results
    <3> QED
      BY <1>1
  <2> HIDE DEF groups, results, T
  <2> QED
    BY <2>1, <2>2
<1>3. /\ \A n \in 1 .. Len(st.groupBy) : groups[n] = Eval(st.groupBy[n], Env(plan.input, row))
      /\ \A n \in 1 .. Len(plan.calls) : results[n] = ResultOf[plan.calls[n].id]
  BY <1>1
<1>4. GroupRow(row) = groups \o results
  BY DEF GroupRow
<1> HIDE DEF groups, results, T
<1>5. groups \in Seq(T) /\ Len(groups) = Len(st.groupBy) /\ results \in Seq(T) /\ Len(results) = Len(plan.calls)
  BY <1>1, <1>2, FunctionIsSeq
<1>6. /\ groups \o results \in Seq(T) /\ Len(groups \o results) = Len(groups) + Len(results)
      /\ \A n \in 1 .. Len(groups) + Len(results) :
            (groups \o results)[n] = IF n <= Len(groups) THEN groups[n] ELSE results[n - Len(groups)]
  BY <1>5, ConcatProperties
<1>7. DOMAIN (groups \o results) = 1 .. Len(groups \o results)
  BY <1>6, SeqElements
<1>8. ASSUME NEW n \in 1 .. Len(st.groupBy) PROVE GroupRow(row)[n] = Eval(st.groupBy[n], Env(plan.input, row))
  BY <1>1, <1>3, <1>4, <1>5, <1>6
<1>9. ASSUME NEW n \in 1 .. Len(plan.calls) PROVE GroupRow(row)[Len(st.groupBy) + n] = ResultOf[plan.calls[n].id]
  <2>1. /\ Len(st.groupBy) + n \in 1 .. Len(groups) + Len(results) /\ ~(Len(st.groupBy) + n <= Len(groups))
        /\ (Len(st.groupBy) + n) - Len(groups) = n
    <3>1. PICK g, c : g = Len(groups) /\ c = Len(results)
      OBVIOUS
    <3>2. g \in Nat /\ c \in Nat /\ g = Len(st.groupBy) /\ c = Len(plan.calls) /\ n \in 1 .. c
      BY <1>1, <1>5, <3>1
    <3>3. g + n \in 1 .. g + c /\ ~(g + n <= g) /\ (g + n) - g = n
      BY <3>2, Shifted
    <3> QED
      BY <3>1, <3>2, <3>3
  <2> QED
    BY <1>3, <1>4, <1>6, <2>1
<1> QED
  BY <1>4, <1>5, <1>6, <1>7, <1>8, <1>9

\* What lowering keeps for an expression of so many levels.
MeaningKept(e, n, row) ==
    ToSet(Calls(e)) \subseteq ToSet(plan.calls) /\ Lower(e) # Rejected =>
        /\ Plug(e, ResultOf) \in Levels(LeafExprs)[n]
        /\ Eval(Lower(e), Env(plan.schema, GroupRow(row)))
              = Eval(Plug(e, ResultOf), Env(plan.input, row))

LEMMA PluggedNode ==
    ASSUME NEW n \in 0 .. MaxHeight, NEW e \in Levels(LeafExprs)[n], NEW result
    PROVE  /\ e.kind \in {"literal", "column"} => Plug(e, result) = e
           /\ e.kind = "aggregate" => Plug(e, result) = Literal(result[e.id])
           /\ e.kind = "unary" => Plug(e, result) = UnaryExpr(e.op, Plug(e.arg, result))
           /\ e.kind = "isnull" => Plug(e, result) = IsNullTest(Plug(e.arg, result), e.negate)
           /\ e.kind = "binary" =>
                 Plug(e, result) = BinaryExpr(e.op, Plug(e.left, result), Plug(e.right, result))
<1>1. e \in Exprs
  BY MoreExprs
<1>2. Plug(e, result) = PlugNode(e, Plugging(result), result)
  BY <1>1, PlannerUnfolds
<1>3. \A x : Plugging(result)[x] = Plug(x, result)
  BY DEF Plug
<1>4. CASE e.kind \in {"literal", "column"}
  BY <1>2, <1>4 DEF PlugNode
<1>5. CASE e.kind = "aggregate"
  BY <1>2, <1>5 DEF PlugNode
<1>6. CASE e.kind = "unary"
  <2>1. Plug(e, result) = [e EXCEPT !.arg = Plug(e.arg, result)]
    BY <1>2, <1>3, <1>6 DEF PlugNode
  <2>2. PICK o, a, x : o = e.op /\ a = e.arg /\ x = Plug(e.arg, result)
    OBVIOUS
  <2>3. e = UnaryExpr(o, a)
    BY <1>6, <2>2, ExprShape
  <2>4. [e EXCEPT !.arg = x] = UnaryExpr(o, x)
    BY <2>3 DEF UnaryExpr
  <2> QED
    BY <1>6, <2>1, <2>2, <2>4
<1>7. CASE e.kind = "isnull"
  <2>1. Plug(e, result) = [e EXCEPT !.arg = Plug(e.arg, result)]
    BY <1>2, <1>3, <1>7 DEF PlugNode
  <2>2. PICK o, a, x : o = e.negate /\ a = e.arg /\ x = Plug(e.arg, result)
    OBVIOUS
  <2>3. e = IsNullTest(a, o)
    BY <1>7, <2>2, ExprShape
  <2>4. [e EXCEPT !.arg = x] = IsNullTest(x, o)
    BY <2>3 DEF IsNullTest
  <2> QED
    BY <1>7, <2>1, <2>2, <2>4
<1>8. CASE e.kind = "binary"
  <2>1. PICK x, y, w : x = Plug(e.left, result) /\ y = Plug(e.right, result) /\ w = WithOperands(e, x, y)
    OBVIOUS
  <2>2. Plug(e, result) = w
    BY <1>2, <1>3, <1>8, <2>1 DEF PlugNode, WithOperands
  <2>3. w = BinaryExpr(e.op, x, y)
    BY <1>1, <1>8, <2>1, SwapKeepsKind
  <2> QED
    BY <1>8, <2>1, <2>2, <2>3
<1>9. CASE e.kind \in {"slot", "star", "none"}
  BY <1>9
<1> QED
  BY <1>1, <1>4, <1>5, <1>6, <1>7, <1>8, <1>9, ExprKinds

\* Of equal operands, under equal conversions, nodes have equal values.
LEMMA SameOperandsSameValue ==
    ASSUME NEW env, NEW other, env.saturates = other.saturates,
           NEW a \in Exprs, NEW b \in Exprs, Eval(a, env) = Eval(b, other),
           NEW c \in Exprs, NEW d \in Exprs, Eval(c, env) = Eval(d, other), NEW op, NEW negate
    PROVE  /\ UnaryExpr(op, a) \in Exprs /\ UnaryExpr(op, b) \in Exprs =>
                 Eval(UnaryExpr(op, a), env) = Eval(UnaryExpr(op, b), other)
           /\ IsNullTest(a, negate) \in Exprs /\ IsNullTest(b, negate) \in Exprs =>
                 Eval(IsNullTest(a, negate), env) = Eval(IsNullTest(b, negate), other)
           /\ BinaryExpr(op, a, c) \in Exprs /\ BinaryExpr(op, b, d) \in Exprs =>
                 Eval(BinaryExpr(op, a, c), env) = Eval(BinaryExpr(op, b, d), other)
<1>1. \A e \in Exprs : \A v : Eval(e, v) = EvalNode(e, Evaluator(v), v)
  BY Unfolds
<1>2. \A x, v : Evaluator(v)[x] = Eval(x, v)
  BY DEF Eval
<1>3. ASSUME UnaryExpr(op, a) \in Exprs, UnaryExpr(op, b) \in Exprs
      PROVE  Eval(UnaryExpr(op, a), env) = Eval(UnaryExpr(op, b), other)
  <2>1. PICK x, y : x = UnaryExpr(op, a) /\ y = UnaryExpr(op, b)
    OBVIOUS
  <2>2. x.kind = "unary" /\ x.op = op /\ x.arg = a /\ y.kind = "unary" /\ y.op = op /\ y.arg = b
    BY <2>1 DEF UnaryExpr
  <2>3. Eval(x, env) = EvalNode(x, Evaluator(env), env) /\ Eval(y, other) = EvalNode(y, Evaluator(other), other)
    BY <1>1, <1>3, <2>1
  <2>4. Evaluator(env)[x.arg] = Evaluator(other)[y.arg]
    BY <1>2, <2>2
  <2>5. EvalNode(x, Evaluator(env), env) = EvalNode(y, Evaluator(other), other)
    BY <2>2, <2>4 DEF EvalNode
  <2> QED
    BY <2>1, <2>3, <2>5
<1>4. ASSUME IsNullTest(a, negate) \in Exprs, IsNullTest(b, negate) \in Exprs
      PROVE  Eval(IsNullTest(a, negate), env) = Eval(IsNullTest(b, negate), other)
  <2>1. PICK x, y : x = IsNullTest(a, negate) /\ y = IsNullTest(b, negate)
    OBVIOUS
  <2>2. x.kind = "isnull" /\ x.negate = negate /\ x.arg = a /\ y.kind = "isnull" /\ y.negate = negate /\ y.arg = b
    BY <2>1 DEF IsNullTest
  <2>3. Eval(x, env) = EvalNode(x, Evaluator(env), env) /\ Eval(y, other) = EvalNode(y, Evaluator(other), other)
    BY <1>1, <1>4, <2>1
  <2>4. Evaluator(env)[x.arg] = Evaluator(other)[y.arg]
    BY <1>2, <2>2
  <2>5. EvalNode(x, Evaluator(env), env) = EvalNode(y, Evaluator(other), other)
    BY <2>2, <2>4 DEF EvalNode
  <2> QED
    BY <2>1, <2>3, <2>5
<1>5. ASSUME BinaryExpr(op, a, c) \in Exprs, BinaryExpr(op, b, d) \in Exprs
      PROVE  Eval(BinaryExpr(op, a, c), env) = Eval(BinaryExpr(op, b, d), other)
  <2>1. PICK x, y : x = BinaryExpr(op, a, c) /\ y = BinaryExpr(op, b, d)
    OBVIOUS
  <2>2. /\ x.kind = "binary" /\ x.op = op /\ x.left = a /\ x.right = c
        /\ y.kind = "binary" /\ y.op = op /\ y.left = b /\ y.right = d
    BY <2>1 DEF BinaryExpr
  <2>3. Eval(x, env) = EvalNode(x, Evaluator(env), env) /\ Eval(y, other) = EvalNode(y, Evaluator(other), other)
    BY <1>1, <1>5, <2>1
  <2>4. Evaluator(env)[x.left] = Evaluator(other)[y.left] /\ Evaluator(env)[x.right] = Evaluator(other)[y.right]
    BY <1>2, <2>2
  <2>5. EvalNode(x, Evaluator(env), env) = EvalNode(y, Evaluator(other), other)
    BY <2>2, <2>4 DEF EvalNode
  <2> QED
    BY <2>1, <2>3, <2>5
<1> QED
  BY <1>3, <1>4, <1>5

LEMMA WrittenHasNoSlot ==
    ASSUME NEW n \in 0 .. MaxHeight, NEW e \in Levels(WrittenLeaves)[n]
    PROVE  e \in Levels(LeafExprs)[n] /\ e.kind # "slot"
<1>1. e \in WrittenLeaves \/ \E S : e \in NodesOver(S)
  BY NodeShape
<1>2. CASE e \in WrittenLeaves
  BY <1>2, LevelsGrow, WrittenLeavesAreLeaves DEF WrittenLeaves
<1>3. CASE \E S : e \in NodesOver(S)
  BY <1>3, LevelsGrow, WrittenLeavesAreLeaves, NodeFacts
<1> QED
  BY <1>1, <1>2, <1>3

\* A slot has its column's value on the group's row.
LEMMA SlotValue ==
    ASSUME NEW i \in Int, NEW schema, NEW row
    PROVE  /\ SlotRef(i) \in Exprs
           /\ i \in DOMAIN row => Eval(SlotRef(i), Env(schema, row)) = row[i]
<1>1. PICK e, env : e = SlotRef(i) /\ env = Env(schema, row)
  OBVIOUS
<1>2. e.kind = "slot" /\ e.index = i /\ env.row = row /\ e \in LeafExprs
  BY <1>1 DEF SlotRef, Env, LeafExprs
<1>3. e \in Exprs
  BY <1>2, MoreExprs, MaxHeightAssumption DEF Exprs
<1>4. Eval(e, env) = EvalNode(e, Evaluator(env), env)
  BY <1>3, Unfolds
<1>5. i \in DOMAIN row => Eval(e, env) = row[i]
  BY <1>2, <1>4 DEF EvalNode
<1> QED
  BY <1>1, <1>3, <1>5

LEMMA LiteralValue ==
    ASSUME NEW v \in Values, NEW env
    PROVE  Literal(v) \in LeafExprs /\ Eval(Literal(v), env) = v
<1>1. PICK e : e = Literal(v)
  OBVIOUS
<1>2. e.kind = "literal" /\ e.val = v /\ e \in LeafExprs
  BY <1>1 DEF Literal, LeafExprs, WrittenLeaves
<1>3. e \in Exprs
  BY <1>2, MoreExprs, MaxHeightAssumption DEF Exprs
<1>4. Eval(e, env) = EvalNode(e, Evaluator(env), env)
  BY <1>3, Unfolds
<1> QED
  BY <1>1, <1>2, <1>4 DEF EvalNode

LEMMA ColumnValue ==
    ASSUME NEW e \in Exprs, e.kind = "column", NEW schema, NEW row
    PROVE  Eval(e, Env(schema, row)) = IF Index(schema, e.table, e.name) = Unresolved THEN NoValue
                                       ELSE row[Index(schema, e.table, e.name)]
<1>1. PICK env : env = Env(schema, row)
  OBVIOUS
<1>2. env.schema = schema /\ env.row = row
  BY <1>1 DEF Env
<1>3. Eval(e, env) = EvalNode(e, Evaluator(env), env)
  BY Unfolds
<1>4. Eval(e, env) = IF Index(schema, e.table, e.name) = Unresolved THEN NoValue
                     ELSE row[Index(schema, e.table, e.name)]
  BY <1>2, <1>3 DEF EvalNode
<1> QED
  BY <1>1, <1>4

LEMMA MeaningOfLeaves ==
    ASSUME AcceptedInput, AcceptedAggregates, NEW row,
           NEW n \in 0 .. MaxHeight, NEW e \in Levels(WrittenLeaves)[n],
           e.kind \in {"literal", "column", "aggregate"}
    PROVE  MeaningKept(e, n, row)
<1> SUFFICES ASSUME ToSet(Calls(e)) \subseteq ToSet(plan.calls), Lower(e) # Rejected
             PROVE  /\ Plug(e, ResultOf) \in Levels(LeafExprs)[n]
                    /\ Eval(Lower(e), Env(plan.schema, GroupRow(row)))
                          = Eval(Plug(e, ResultOf), Env(plan.input, row))
  BY DEF MeaningKept
<1>1. e \in Levels(LeafExprs)[n] /\ e \in Exprs
  BY WrittenHasNoSlot, MoreExprs
<1>2. LeafExprs \subseteq Levels(LeafExprs)[n]
  BY MoreExprs
<1>3. PICK group : group = GroupRow(row)
  OBVIOUS
<1>4. /\ DOMAIN group = 1 .. Len(st.groupBy) + Len(plan.calls)
      /\ Len(st.groupBy) \in Nat /\ Len(plan.calls) \in Nat
  BY <1>3, GroupRowFacts, AggregateRows
<1>5. CASE e.kind = "literal"
  <2>1. Lower(e) = e /\ Plug(e, ResultOf) = e
    BY <1>1, <1>5, LoweredShape, PluggedNode
  <2>2. e = Literal(e.val) /\ e.val \in Values
    BY <1>1, <1>5, ExprShape
  <2>3. \A env : Eval(e, env) = e.val
    BY <2>2, LiteralValue
  <2> QED
    BY <1>1, <2>1, <2>3
<1>6. CASE e.kind = "column"
  <2>1. /\ GroupSlots(e, plan.input) # {} /\ Plug(e, ResultOf) = e
        /\ Lower(e) = SlotRef(CHOOSE m \in GroupSlots(e, plan.input) : TRUE)
    BY <1>1, <1>6, LoweredShape, PluggedNode
  <2>2. PICK k \in 1 .. Len(st.groupBy) :
           /\ k = CHOOSE m \in GroupSlots(e, plan.input) : TRUE
           /\ Index(plan.input, e.table, e.name) # Unresolved
           /\ Index(plan.input, e.table, e.name)
                 = Index(plan.input, st.groupBy[k].table, st.groupBy[k].name)
    BY <2>1, SlotOfColumn
  <2>3. k \in Int /\ k \in DOMAIN group
    BY <1>4, Shifted
  <2>4. Eval(Lower(e), Env(plan.schema, group)) = group[k]
    BY <2>1, <2>2, <2>3, SlotValue
  <2>5. group[k] = Eval(st.groupBy[k], Env(plan.input, row))
    BY <1>3, GroupRowFacts
  <2>6. st.groupBy[k] \in Exprs /\ st.groupBy[k].kind = "column"
    <3>1. st.groupBy \in Seq(Exprs)
      BY StatementsAssumption, WrittenSeqs DEF AcceptedInput
    <3> QED
      BY <3>1, SeqElements, AggregateRows
  <2>7. PICK f, i : f = st.groupBy[k] /\ i = Index(plan.input, e.table, e.name)
    OBVIOUS
  <2>8. Eval(f, Env(plan.input, row)) = row[i]
    BY <2>2, <2>6, <2>7, ColumnValue
  <2>9. Eval(e, Env(plan.input, row)) = row[i]
    BY <1>1, <1>6, <2>2, <2>7, ColumnValue
  <2> QED
    BY <1>1, <1>3, <2>1, <2>4, <2>5, <2>7, <2>8, <2>9
<1>7. CASE e.kind = "aggregate"
  <2>1. Lower(e) = SlotRef(CallSlot(e, plan.calls)) /\ Plug(e, ResultOf) = Literal(ResultOf[e.id])
    BY <1>1, <1>7, LoweredShape, PluggedNode
  <2>2. e \in ToSet(plan.calls)
    BY <1>1, <1>7, CallsOfOperands
  <2>3. PICK k \in 1 .. Len(plan.calls) : /\ plan.calls[k].id = e.id
                                         /\ CallSlot(e, plan.calls) = Len(st.groupBy) + k
    BY <2>2, SlotOfCall
  <2>4. /\ Len(st.groupBy) + k \in 1 .. Len(st.groupBy) + Len(plan.calls)
        /\ Len(st.groupBy) + k \in Int
    BY <1>4, Shifted
  <2>5. PICK i : i = Len(st.groupBy) + k
    OBVIOUS
  <2>6. i \in Int /\ i \in DOMAIN group
    BY <1>4, <2>4, <2>5
  <2>7. Eval(Lower(e), Env(plan.schema, group)) = group[i]
    BY <2>1, <2>3, <2>5, <2>6, SlotValue
  <2>8. group[i] = ResultOf[e.id]
    BY <1>3, <2>3, <2>5, GroupRowFacts
  <2>9. ResultOf[e.id] \in Values
    BY <2>3, ResultValues
  <2>10. Literal(ResultOf[e.id]) \in LeafExprs /\ Eval(Literal(ResultOf[e.id]), Env(plan.input, row)) = ResultOf[e.id]
    BY <2>9, LiteralValue
  <2> QED
    BY <1>2, <1>3, <2>1, <2>7, <2>8, <2>10
<1> QED
  BY <1>5, <1>6, <1>7

LEMMA MeaningOfNodes ==
    ASSUME AcceptedInput, AcceptedAggregates, NEW row,
           NEW n \in 0 .. MaxHeight, NEW e \in Levels(WrittenLeaves)[n],
           \A x \in Operands(e) : n # 0 /\ MeaningKept(x, n - 1, row)
    PROVE  MeaningKept(e, n, row)
<1> SUFFICES ASSUME ToSet(Calls(e)) \subseteq ToSet(plan.calls), Lower(e) # Rejected,
                    e.kind \in {"unary", "isnull", "binary"}
             PROVE  /\ Plug(e, ResultOf) \in Levels(LeafExprs)[n]
                    /\ Eval(Lower(e), Env(plan.schema, GroupRow(row)))
                          = Eval(Plug(e, ResultOf), Env(plan.input, row))
  <2>1. Lower(e) # Rejected => e.kind \in {"literal", "column", "aggregate", "unary", "isnull", "binary"}
    BY WrittenHasNoSlot, LoweredShape
  <2> QED
    BY <2>1, MeaningOfLeaves DEF MeaningKept
<1>1. e \in Levels(LeafExprs)[n] /\ e \in Exprs
  BY WrittenHasNoSlot, MoreExprs
<1>2. PICK env, other : env = Env(plan.schema, GroupRow(row)) /\ other = Env(plan.input, row)
  OBVIOUS
<1>3. env.saturates = other.saturates
  BY <1>2 DEF Env
<1>4. Lower(e) \in Exprs
  BY <1>1, LoweredAreExprs, MoreExprs DEF LowerIsExpr
<1>5. ASSUME NEW x \in Operands(e), ToSet(Calls(x)) \subseteq ToSet(plan.calls), Lower(x) # Rejected
      PROVE  /\ n # 0
             /\ Lower(x) \in Exprs
             /\ Plug(x, ResultOf) \in Levels(LeafExprs)[n - 1] /\ Plug(x, ResultOf) \in Exprs
             /\ Eval(Lower(x), env) = Eval(Plug(x, ResultOf), other)
  <2>1. n # 0 /\ MeaningKept(x, n - 1, row)
    BY <1>5
  <2>2. n - 1 \in 0 .. MaxHeight
    BY <2>1, MaxHeightAssumption
  <2>3. x \in Levels(LeafExprs)[n - 1]
    BY <1>1, <1>5, <2>1, OperandsBelow DEF Below
  <2>4. Lower(x) \in Exprs
    BY <1>5, <2>2, <2>3, LoweredAreExprs, MoreExprs DEF LowerIsExpr
  <2>5. Plug(x, ResultOf) \in Levels(LeafExprs)[n - 1] /\ Eval(Lower(x), env) = Eval(Plug(x, ResultOf), other)
    BY <1>2, <1>5, <2>1 DEF MeaningKept
  <2> QED
    BY <2>1, <2>2, <2>4, <2>5, MoreExprs
<1>6. n # 0 => NodesOver(Levels(LeafExprs)[n - 1]) \subseteq Levels(LeafExprs)[n]
  BY MoreExprs
<1>7. CASE e.kind \in {"unary", "isnull"}
  <2>1. e.arg \in Operands(e) /\ ToSet(Calls(e.arg)) \subseteq ToSet(plan.calls) /\ Lower(e.arg) # Rejected
    BY <1>1, <1>7, CallsOfOperands, LoweredShape DEF Operands
  <2>2. PICK a, b : a = Lower(e.arg) /\ b = Plug(e.arg, ResultOf)
    OBVIOUS
  <2>3. n # 0 /\ a \in Exprs /\ b \in Levels(LeafExprs)[n - 1] /\ b \in Exprs /\ Eval(a, env) = Eval(b, other)
    BY <1>5, <2>1, <2>2
  <2>4. CASE e.kind = "unary"
    <3>1. Lower(e) = UnaryExpr(e.op, a) /\ Plug(e, ResultOf) = UnaryExpr(e.op, b) /\ e.op \in {"NOT", "-"}
      BY <1>1, <2>2, <2>4, LoweredShape, PluggedNode, ExprShape
    <3>2. UnaryExpr(e.op, b) \in NodesOver(Levels(LeafExprs)[n - 1])
      BY <2>3, <3>1 DEF NodesOver, UnaryExpr
    <3>3. UnaryExpr(e.op, b) \in Levels(LeafExprs)[n] /\ UnaryExpr(e.op, b) \in Exprs
      BY <1>6, <2>3, <3>2, MoreExprs
    <3>4. Eval(UnaryExpr(e.op, a), env) = Eval(UnaryExpr(e.op, b), other)
      BY <1>3, <1>4, <2>3, <3>1, <3>3, SameOperandsSameValue
    <3> QED
      BY <1>2, <3>1, <3>3, <3>4
  <2>5. CASE e.kind = "isnull"
    <3>1. Lower(e) = IsNullTest(a, e.negate) /\ Plug(e, ResultOf) = IsNullTest(b, e.negate) /\ e.negate \in BOOLEAN
      BY <1>1, <2>2, <2>5, LoweredShape, PluggedNode, ExprShape
    <3>2. IsNullTest(b, e.negate) \in NodesOver(Levels(LeafExprs)[n - 1])
      BY <2>3, <3>1 DEF NodesOver, IsNullTest
    <3>3. IsNullTest(b, e.negate) \in Levels(LeafExprs)[n] /\ IsNullTest(b, e.negate) \in Exprs
      BY <1>6, <2>3, <3>2, MoreExprs
    <3>4. Eval(IsNullTest(a, e.negate), env) = Eval(IsNullTest(b, e.negate), other)
      BY <1>3, <1>4, <2>3, <3>1, <3>3, SameOperandsSameValue
    <3> QED
      BY <1>2, <3>1, <3>3, <3>4
  <2> QED
    BY <1>7, <2>4, <2>5
<1>8. CASE e.kind = "binary"
  <2>1. /\ e.left \in Operands(e) /\ ToSet(Calls(e.left)) \subseteq ToSet(plan.calls) /\ Lower(e.left) # Rejected
        /\ e.right \in Operands(e) /\ ToSet(Calls(e.right)) \subseteq ToSet(plan.calls) /\ Lower(e.right) # Rejected
    BY <1>1, <1>8, CallsOfOperands, LoweredShape DEF Operands
  <2>2. PICK a, b, c, d : /\ a = Lower(e.left) /\ b = Plug(e.left, ResultOf)
                          /\ c = Lower(e.right) /\ d = Plug(e.right, ResultOf)
    OBVIOUS
  <2>3. /\ n # 0 /\ a \in Exprs /\ b \in Levels(LeafExprs)[n - 1] /\ b \in Exprs /\ Eval(a, env) = Eval(b, other)
        /\ c \in Exprs /\ d \in Levels(LeafExprs)[n - 1] /\ d \in Exprs /\ Eval(c, env) = Eval(d, other)
    BY <1>5, <2>1, <2>2
  <2>4. Lower(e) = BinaryExpr(e.op, a, c) /\ Plug(e, ResultOf) = BinaryExpr(e.op, b, d) /\ e.op \in Operators
    BY <1>1, <1>8, <2>2, LoweredShape, PluggedNode, ExprShape
  <2>5. BinaryExpr(e.op, b, d) \in NodesOver(Levels(LeafExprs)[n - 1])
    BY <2>3, <2>4 DEF NodesOver, BinaryExpr, Operators
  <2>6. BinaryExpr(e.op, b, d) \in Levels(LeafExprs)[n] /\ BinaryExpr(e.op, b, d) \in Exprs
    BY <1>6, <2>3, <2>5, MoreExprs
  <2>7. Eval(BinaryExpr(e.op, a, c), env) = Eval(BinaryExpr(e.op, b, d), other)
    BY <1>3, <1>4, <2>3, <2>4, <2>6, SameOperandsSameValue
  <2> QED
    BY <1>2, <2>4, <2>6, <2>7
<1> QED
  BY <1>7, <1>8

LEMMA MeaningOfWritten ==
    ASSUME AcceptedInput, AcceptedAggregates, NEW row
    PROVE  \A e \in Written : MeaningKept(e, MaxHeight, row)
<1> DEFINE S == {p \in Exprs \X (0 .. MaxHeight) : MeaningKept(p[1], p[2], row)}
<1>1. ASSUME NEW n \in 0 .. MaxHeight, NEW e \in Levels(WrittenLeaves)[n],
             \A x \in Operands(e) : n # 0 /\ <<x, n - 1>> \in S
      PROVE  <<e, n>> \in S
  <2>1. \A x \in Operands(e) : n # 0 /\ MeaningKept(x, n - 1, row)
    BY <1>1
  <2>2. MeaningKept(e, n, row)
    BY <2>1, MeaningOfNodes
  <2>3. e \in Exprs
    BY WrittenHasNoSlot, MoreExprs
  <2> QED
    BY <2>2, <2>3
<1> HIDE DEF S
<1>2. \A n \in 0 .. MaxHeight : \A e \in Levels(WrittenLeaves)[n] :
         (\A x \in Operands(e) : n # 0 /\ <<x, n - 1>> \in S) => <<e, n>> \in S
  BY <1>1
<1>3. \A n \in 0 .. MaxHeight : \A e \in Levels(WrittenLeaves)[n] : <<e, n>> \in S
  BY <1>2, WrittenLeavesAreLeaves, RankedInduction, Zenon
<1>4. MaxHeight \in 0 .. MaxHeight
  BY MaxHeightAssumption
<1>5. \A e \in Written : <<e, MaxHeight>> \in S
  BY <1>3, <1>4 DEF Written
<1> QED
  BY <1>5 DEF S

(* What buildAggregatePlan makes of a projection, HAVING or a sort key has, on
   the row that Aggregate emits for a group, the value of the written one: the
   slots that lowerAggregateExpr numbers (aggregate.go:253-305) are where
   Aggregate puts the grouping values and the results of the calls. *)
THEOREM LoweringKeepsTheMeaning == Spec => []LoweringKeepsMeaning
<1>1. ASSUME PlanInv PROVE LoweringKeepsMeaning
  <2> SUFFICES ASSUME Accepted, IsAggregateQuery, NEW row \in RowsOf(plan.input), NEW p \in Lowered
               PROVE  Eval(p[1], Env(plan.schema, GroupRow(row))) = Eval(Plug(p[2], ResultOf), Env(plan.input, row))
    BY DEF LoweringKeepsMeaning
  <2>1. AcceptedInput /\ AcceptedAggregates
    BY <1>1, AcceptedFacts
  <2>2. ASSUME NEW e \in ToSet(st.projections) \cup ToSet(st.orderBy) \cup {st.having}, Lower(e) # Rejected
        PROVE  Eval(Lower(e), Env(plan.schema, GroupRow(row))) = Eval(Plug(e, ResultOf), Env(plan.input, row))
    <3>1. e \in Written /\ ToSet(Calls(e)) \subseteq ToSet(plan.calls)
      BY <2>1, EveryCallIsCollected DEF AcceptedInput, AcceptedAggregates
    <3>2. MeaningKept(e, MaxHeight, row)
      BY <2>1, <3>1, MeaningOfWritten
    <3> QED
      BY <2>2, <3>1, <3>2 DEF MeaningKept
  <2>3. \E e \in ToSet(st.projections) \cup ToSet(st.orderBy) \cup {st.having} :
           Lower(e) # Rejected /\ p = <<Lower(e), e>>
    <3>1. CASE \E n \in DOMAIN plan.exprs : p = <<plan.exprs[n], st.projections[n]>>
      <4>1. PICK n \in DOMAIN plan.exprs : p = <<plan.exprs[n], st.projections[n]>>
        BY <3>1
      <4>2. n \in DOMAIN st.projections /\ plan.exprs[n] = Lower(st.projections[n])
        BY <2>1 DEF AcceptedAggregates
      <4>3. st.projections[n] \in ToSet(st.projections)
        BY <4>2 DEF ToSet
      <4> QED
        BY <2>1, <4>1, <4>2, <4>3 DEF AcceptedAggregates
    <3>2. CASE \E n \in DOMAIN plan.sortKeys : p = <<plan.sortKeys[n], st.orderBy[n]>>
      <4>1. PICK n \in DOMAIN plan.sortKeys : p = <<plan.sortKeys[n], st.orderBy[n]>>
        BY <3>2
      <4>2. n \in DOMAIN st.orderBy /\ plan.sortKeys[n] = Lower(st.orderBy[n])
        BY <2>1 DEF AcceptedAggregates
      <4>3. st.orderBy[n] \in ToSet(st.orderBy)
        BY <4>2 DEF ToSet
      <4> QED
        BY <2>1, <4>1, <4>2, <4>3 DEF AcceptedAggregates
    <3>3. CASE p = <<plan.having, st.having>> /\ p # <<None, None>>
      <4>1. st.having # None
        BY <2>1, <3>3 DEF AcceptedAggregates
      <4> QED
        BY <2>1, <3>3, <4>1 DEF AcceptedAggregates
    <3> QED
      BY <3>1, <3>2, <3>3 DEF Lowered
  <2> QED
    BY <2>2, <2>3
<1>2. PlanInv => LoweringKeepsMeaning
  BY <1>1
<1> QED
  BY <1>2, PlanInvariant, PTL

-----------------------------------------------------------------------------
(* Pairs of rows *)

PairSpec == PairInit /\ [][PairNext]_<<left, right>>

\* Two rows of one length.
PairInv == left \in Seq(Values) /\ right \in Seq(Values) /\ Len(left) = Len(right)

LEMMA PairInvariant == PairSpec => []PairInv
<1>1. PairInit => PairInv
  BY EmptySeq DEF PairInit, PairInv
<1>2. PairInv /\ [PairNext]_<<left, right>> => PairInv'
  <2> SUFFICES ASSUME PairInv, [PairNext]_<<left, right>> PROVE PairInv'
      OBVIOUS
  <2> DEFINE Vs == Values
  <2>1. left \in Seq(Vs) /\ right \in Seq(Vs) /\ Len(left) = Len(right)
    BY DEF PairInv
  <2>2. ASSUME NEW domain, domain \subseteq Vs, Widen(domain)
        PROVE  left' \in Seq(Vs) /\ right' \in Seq(Vs) /\ Len(left') = Len(right')
    <3>1. PICK v \in Vs, w \in Vs : left' = Append(left, v) /\ right' = Append(right, w)
      BY <2>2 DEF Widen
    <3> HIDE DEF Vs
    <3> QED
      BY <2>1, <3>1, AppendFacts
  <2>3. CornerValues \subseteq Vs
    BY DEF CornerValues
  <2>4. CASE left = <<>> /\ Widen(Values)
    BY <2>2, <2>4 DEF PairInv
  <2>5. CASE Widen(CornerValues)
    BY <2>2, <2>3, <2>5 DEF PairInv
  <2>6. CASE left' = <<>> /\ right' = <<>>
    BY <2>6, EmptySeq DEF PairInv
  <2>7. CASE UNCHANGED <<left, right>>
    BY <2>1, <2>7 DEF PairInv
  <2> QED
    BY <2>4, <2>5, <2>6, <2>7 DEF PairNext
<1> QED
  BY <1>1, <1>2, PTL DEF PairSpec

LEMMA PairValues ==
    ASSUME PairInv, NEW n \in DOMAIN left
    PROVE  left[n] \in Values /\ right[n] \in Values
<1> DEFINE Vs == Values
<1>1. left \in Seq(Vs) /\ right \in Seq(Vs) /\ Len(left) = Len(right)
  BY DEF PairInv
<1> HIDE DEF Vs
<1>2. left[n] \in Vs /\ right[n] \in Vs
  BY <1>1, SeqElements
<1> QED
  BY <1>2 DEF Vs

-----------------------------------------------------------------------------
(* value.Compare is exact on every pair of values, whatever float64 rounds and
   wherever int64 ends. *)
THEOREM ComparesExactly == PairSpec => []CompareIsExact
<1>1. PairInv => CompareIsExact
  <2> SUFFICES ASSUME PairInv, NEW n \in DOMAIN left, Comparable(left[n], right[n])
               PROVE  /\ Compare(left[n], right[n]).known <=> Ordinary(left[n]) /\ Ordinary(right[n])
                      /\ Compare(left[n], right[n]).known =>
                            Compare(left[n], right[n]).ord = Sign(Exact(left[n]), Exact(right[n]))
      BY DEF CompareIsExact
  <2>1. PICK a : a = left[n]
    OBVIOUS
  <2>2. PICK b : b = right[n]
    OBVIOUS
  <2>3. a \in Values /\ b \in Values /\ Comparable(a, b)
    BY <2>1, <2>2, PairValues
  <2>4. CASE Ordinary(a) /\ Ordinary(b)
    <3>1. Compare(a, b) = Known(Sign(Exact(a), Exact(b)))
      BY <2>3, <2>4, CompareExact
    <3>2. Compare(a, b).known = TRUE /\ Compare(a, b).ord = Sign(Exact(a), Exact(b))
      BY <3>1 DEF Known
    <3> QED
      BY <2>1, <2>2, <2>4, <3>2
  <2>5. CASE ~(Ordinary(a) /\ Ordinary(b))
    <3>1. Compare(a, b).known = FALSE
      BY <2>5 DEF Compare, Ordinary, Unknown
    <3> QED
      BY <2>1, <2>2, <2>5, <3>1
  <2> QED
    BY <2>4, <2>5
<1> QED
  BY PairInvariant, <1>1, PTL

(* exec.encodeKey never parts two values that compare equal, and joins no other
   two but INTs that float64 cannot tell apart. *)
THEOREM JoinKeysLoseNoMatch == PairSpec => []JoinKeyAgreesWithCompare
<1>1. PairInv => JoinKeyAgreesWithCompare
  BY PairValues, JoinKeyAgrees DEF JoinKeyAgreesWithCompare
<1> QED
  BY PairInvariant, <1>1, PTL

(* exec.groupKey gives two rows one key exactly when they agree column by
   column: no bytes of a TEXT, and no mix of types, make two rows collide. *)
THEOREM GroupKeysDoNotCollide == PairSpec => []GroupKeyIdentifiesRows
<1>1. PairInv => GroupKeyIdentifiesRows
  BY GroupKeyAgrees DEF PairInv, GroupKeyIdentifiesRows
<1> QED
  BY PairInvariant, <1>1, PTL

-----------------------------------------------------------------------------
(* The verdicts *)

Yes == Bool(TRUE)
No  == Bool(FALSE)

LEMMA TruthTables ==
    /\ Yes # No /\ BoolValues = {Yes, No}
    /\ Conj(Yes, Yes) = Yes /\ Conj(Yes, No) = No /\ Conj(No, Yes) = No /\ Conj(No, No) = No
    /\ Disj(Yes, Yes) = Yes /\ Disj(Yes, No) = Yes /\ Disj(No, Yes) = Yes /\ Disj(No, No) = No
    /\ Neg(Yes) = No /\ Neg(No) = Yes
<1>1. /\ Yes.x = 1 /\ Yes.type = TBool /\ ~IsNull(Yes)
      /\ No.x = 0 /\ No.type = TBool /\ ~IsNull(No)
  BY DEF Yes, No, Bool, IsNull
<1>2. IsTrue(Yes) /\ ~IsTrue(No) /\ IsFalse(No) /\ ~IsFalse(Yes)
  BY <1>1 DEF IsTrue, IsFalse
<1>3. BoolValues = {Yes, No}
  BY DEF BoolValues, Yes, No
<1> QED
  BY <1>1, <1>2, <1>3 DEF Conj, Disj, Neg, Yes, No, Bool

LEMMA Verdicts ==
    /\ \A r : Verdict({r}) = r
    /\ Verdict({Yes, No}) = NullOf(TBool)
<1>1. ASSUME NEW r PROVE Verdict({r}) = r
  BY FS_Singleton DEF Verdict
<1>2. IsFiniteSet({No}) /\ Cardinality({No}) = 1
  BY FS_Singleton
<1>3. Cardinality({No} \cup {Yes}) = 2
  BY <1>2, TruthTables, FS_AddElement
<1>4. {No} \cup {Yes} = {Yes, No}
  OBVIOUS
<1> QED
  BY <1>1, <1>3, <1>4 DEF Verdict

\* A BOOL is unknown, true or false.
LEMMA BoolShape ==
    ASSUME NEW v \in Values, v.type = TBool
    PROVE  \/ IsNull(v) /\ Fillings(v) = {Yes, No} /\ ~IsTrue(v) /\ ~IsFalse(v)
           \/ v = Yes /\ ~IsNull(v) /\ Fillings(v) = {Yes} /\ IsTrue(v) /\ ~IsFalse(v)
           \/ v = No /\ ~IsNull(v) /\ Fillings(v) = {No} /\ ~IsTrue(v) /\ IsFalse(v)
<1>1. TInt # TBool /\ TFloat # TBool /\ TText # TBool
  BY DEF TInt, TFloat, TText, TBool
<1>2. v \in BoolValues \/ v \in NullValues
  BY <1>1 DEF Values, IntValues, FloatValues, TextValues, Int64, Float64, Text, NaN, NegZero
<1>3. CASE IsNull(v)
  BY <1>3, TruthTables DEF Fillings, IsTrue, IsFalse
<1>4. CASE ~IsNull(v)
  <2>1. v = Yes \/ v = No
    BY <1>2, <1>4, TruthTables DEF NullValues, NullOf, IsNull
  <2>2. Yes.x = 1 /\ No.x = 0
    BY DEF Yes, No, Bool
  <2> QED
    BY <1>4, <2>1, <2>2 DEF Fillings, IsTrue, IsFalse
<1> QED
  BY <1>3, <1>4

LEMMA LogicExact ==
    ASSUME NEW a \in Values, NEW b \in Values, a.type = TBool, b.type = TBool
    PROVE  LogicAgrees(a, b)
<1> DEFINE ands(S, T) == {Conj(v, w) : v \in S, w \in T}
           ors(S, T)  == {Disj(v, w) : v \in S, w \in T}
           nots(S)    == {Neg(v) : v \in S}
           Both       == {Yes, No}
<1>1. nots({Yes}) = {No} /\ nots({No}) = {Yes} /\ nots(Both) = Both
  BY TruthTables
<1>2. /\ ands({Yes}, {Yes}) = {Yes} /\ ands({Yes}, {No}) = {No}
      /\ ands({No}, {Yes}) = {No} /\ ands({No}, {No}) = {No}
      /\ ands({Yes}, Both) = Both /\ ands(Both, {Yes}) = Both
      /\ ands({No}, Both) = {No} /\ ands(Both, {No}) = {No}
      /\ ands(Both, Both) = Both
  BY TruthTables
<1>3. /\ ors({Yes}, {Yes}) = {Yes} /\ ors({Yes}, {No}) = {Yes}
      /\ ors({No}, {Yes}) = {Yes} /\ ors({No}, {No}) = {No}
      /\ ors({No}, Both) = Both /\ ors(Both, {No}) = Both
      /\ ors({Yes}, Both) = {Yes} /\ ors(Both, {Yes}) = {Yes}
      /\ ors(Both, Both) = Both
  BY TruthTables
<1>4. Verdict({Yes}) = Yes /\ Verdict({No}) = No /\ Verdict(Both) = NullOf(TBool)
  BY Verdicts
<1>5. Fillings(a) \in {{Yes}, {No}, Both} /\ Fillings(b) \in {{Yes}, {No}, Both}
  BY BoolShape
<1> HIDE DEF ands, ors, nots
<1>6. And(a, b) = Verdict(ands(Fillings(a), Fillings(b)))
  BY <1>2, <1>4, BoolShape DEF And, Yes, No
<1>7. Or(a, b) = Verdict(ors(Fillings(a), Fillings(b)))
  BY <1>3, <1>4, BoolShape DEF Or, Yes, No
<1>8. Not(a) = Verdict(nots(Fillings(a)))
  <2>1. CASE IsNull(a)
    BY <1>1, <1>4, <2>1, BoolShape DEF Not
  <2>2. CASE a = Yes
    <3>1. (a.x # 1) = FALSE /\ ~IsNull(a)
      BY <2>2 DEF Yes, Bool, IsNull
    <3>2. Fillings(a) = {Yes}
      BY <2>2, <3>1 DEF Fillings
    <3>3. Not(a) = No
      BY <3>1 DEF Not, No
    <3> QED
      BY <1>1, <1>4, <3>2, <3>3
  <2>3. CASE a = No
    <3>1. (a.x # 1) = TRUE /\ ~IsNull(a)
      BY <2>3 DEF No, Bool, IsNull
    <3>2. Fillings(a) = {No}
      BY <2>3, <3>1 DEF Fillings
    <3>3. Not(a) = Yes
      BY <3>1 DEF Not, Yes
    <3> QED
      BY <1>1, <1>4, <3>2, <3>3
  <2> QED
    BY <2>1, <2>2, <2>3, BoolShape
<1> QED
  BY <1>6, <1>7, <1>8 DEF ands, ors, nots, LogicAgrees

(* value.And, Or and Not are three-valued logic: each answers what all ways of
   filling in the unknowns agree on. *)
THEOREM LogicFillsInUnknowns == PairSpec => []LogicIsThreeValued
<1>1. PairInv => LogicIsThreeValued
  BY PairValues, LogicExact DEF LogicIsThreeValued
<1> QED
  BY PairInvariant, <1>1, PTL

-----------------------------------------------------------------------------
(* The cells of the differential tests *)

\* An INT never becomes an infinity.
LEMMA IntIsFinite ==
    ASSUME NEW i \in IntRange
    PROVE  ToFloat(i) \notin {Inf, -Inf}
<1>1. PICK h \in Int : h = 2 * i /\ -(2 * IntCutoff) <= h /\ h <= 2 * IntCutoff
  BY IntCutoffAssumption DEF IntRange
<1>2. /\ Inf > 2 * IntCutoff /\ 2 * IntCutoff \in Floats /\ -(2 * IntCutoff) \in Floats
      /\ Floats \subseteq Int /\ Inf \in Int /\ IntCutoff \in Int
  BY InfFacts, FloatsAssumption, IntCutoffAssumption
<1>3. (\E f \in Floats : IsFloor(f, h)) /\ (\E f \in Floats : IsCeil(f, h))
  BY <1>1, <1>2, Neighbours
<1>4. PICK lo \in Floats, hi \in Floats :
          /\ lo = CHOOSE f \in Floats : IsFloor(f, h)
          /\ hi = CHOOSE f \in Floats : IsCeil(f, h)
          /\ IsFloor(lo, h) /\ IsCeil(hi, h)
  BY <1>3
<1>5. -(2 * IntCutoff) <= lo /\ lo <= h /\ h <= hi /\ hi <= 2 * IntCutoff
  BY <1>1, <1>2, <1>4 DEF IsFloor, IsCeil
<1>6. Round[h] \in {h, lo, hi}
  BY <1>4 DEF Round
<1>7. lo \in Int /\ hi \in Int
  BY <1>2
<1>8. \A f \in {h, lo, hi} : f \in Int /\ -(2 * IntCutoff) <= f /\ f <= 2 * IntCutoff
  BY <1>1, <1>2, <1>5, <1>7
<1>9. \A f \in Int : -(2 * IntCutoff) <= f /\ f <= 2 * IntCutoff => f \notin {Inf, -Inf}
  BY <1>2
<1>10. Round[h] \notin {Inf, -Inf}
  BY <1>6, <1>8, <1>9
<1>11. ToFloat(i) = Round[h]
  BY <1>1 DEF ToFloat
<1> QED
  BY <1>10, <1>11

\* The cell of a number shows that it is one, and any other cell all of the value.
Shows(v, cell) ==
    /\ IsNull(v) => cell = NullCell
    /\ ~IsNull(v) /\ IsNumber(v) => cell.tag = "n" /\ cell.cls = "num"
    /\ ~IsNull(v) /\ v.type = TFloat /\ ~IsNumber(v) =>
           cell = [tag |-> "n", cls |-> IF v.cls = "num" THEN "inf" ELSE v.cls, x |-> v.x]
    /\ ~IsNull(v) /\ v.type = TBool => cell = [tag |-> "b", cls |-> "num", x |-> v.x]
    /\ ~IsNull(v) /\ v.type = TText => cell = [tag |-> "s", cls |-> "num", x |-> v.x]

\* The values of each type that are not NULL.
LEMMA ValueForms ==
    ASSUME NEW v \in Values, ~IsNull(v)
    PROVE  /\ v.type \in {TInt, TFloat, TText, TBool}
           /\ v.type = TInt => v.x \in IntRange /\ v = Int64(v.x) /\ v.cls = "num"
           /\ v.type = TFloat => v \in {Float64(v.x), NaN, NegZero} /\ v.x \in Int
                                /\ v.cls \in {"num", "nan", "neg0"}
           /\ v.type = TBool => v = [type |-> TBool, cls |-> "num", x |-> v.x] /\ v.cls = "num"
           /\ v.type = TText => v = Text(v.x) /\ v.cls = "num"
<1>0. TInt # TFloat /\ TInt # TText /\ TInt # TBool /\ TFloat # TText /\ TFloat # TBool /\ TText # TBool
  BY DEF TInt, TFloat, TText, TBool
<1>1. CASE v \in IntValues
  BY <1>0, <1>1 DEF IntValues, Int64
<1>2. CASE v \in FloatValues
  BY <1>0, <1>2, FloatsAssumption DEF FloatValues, Float64, NaN, NegZero
<1>3. CASE v \in TextValues
  BY <1>0, <1>3 DEF TextValues, Text
<1>4. CASE v \in BoolValues
  BY <1>0, <1>4 DEF BoolValues, Bool
<1>5. CASE v \in NullValues
  BY <1>5 DEF NullValues, NullOf, IsNull
<1> QED
  BY <1>1, <1>2, <1>3, <1>4, <1>5 DEF Values

LEMMA ValueIntIsNumber ==
    ASSUME NEW v \in Values, ~IsNull(v), v.type = TInt
    PROVE  IsNumber(v)
<1>1. v.cls = "num" /\ v.x \in IntRange
  BY ValueForms
<1>2. v.x \notin {Inf, -Inf}
  BY <1>1, InfFacts, IntCutoffAssumption DEF IntRange
<1> QED
  BY <1>1, <1>2 DEF IsNumber, IsNumeric, IsFinite

LEMMA NumFacts ==
    ASSUME NEW w
    PROVE  /\ IsFinite(w) => Num(w).tag = "n" /\ Num(w).cls = "num"
           /\ ~IsFinite(w) =>
                  Num(w) = [tag |-> "n", cls |-> IF w.cls = "num" THEN "inf" ELSE w.cls, x |-> w.x]
BY DEF Num

LEMMA EngineCell == ASSUME NEW v \in Values PROVE Shows(v, NormalizeEngine(v))
<1>0. TInt # TFloat /\ TInt # TText /\ TInt # TBool /\ TFloat # TText /\ TFloat # TBool /\ TText # TBool
  BY DEF TInt, TFloat, TText, TBool
<1>1. CASE IsNull(v)
  BY <1>1 DEF NormalizeEngine, Shows
<1>2. CASE ~IsNull(v) /\ v.type = TInt
  <2>1. PICK w : w = Float64(ToFloat(v.x))
    OBVIOUS
  <2>2. IsFinite(w)
    BY <1>2, <2>1, ValueForms, IntIsFinite DEF IsFinite, Float64
  <2>3. NormalizeEngine(v) = Num(w)
    BY <1>0, <1>2, <2>1 DEF NormalizeEngine
  <2> QED
    BY <1>0, <1>2, <2>2, <2>3, NumFacts DEF Shows
<1>3. CASE ~IsNull(v) /\ v.type = TFloat
  <2>1. NormalizeEngine(v) = Num(v)
    BY <1>0, <1>3 DEF NormalizeEngine
  <2>2. IsNumber(v) <=> IsFinite(v)
    BY <1>3 DEF IsNumber, IsNumeric
  <2> QED
    BY <1>0, <1>3, <2>1, <2>2, NumFacts DEF Shows
<1>4. CASE ~IsNull(v) /\ v.type = TBool
  BY <1>0, <1>4, ValueForms DEF NormalizeEngine, Shows, Cell, IsNumber, IsNumeric
<1>5. CASE ~IsNull(v) /\ v.type = TText
  BY <1>0, <1>5, ValueForms DEF NormalizeEngine, Shows, Cell, IsNumber, IsNumeric
<1> QED
  BY <1>1, <1>2, <1>3, <1>4, <1>5, ValueForms

\* The two normalizers agree on whatever goes to SQLite and comes back as it is.
LEMMA OracleCell ==
    ASSUME NEW v \in Values, NEW d \in Drivers(v)
    PROVE  NormalizeOracle(d) = NormalizeEngine(v)
<1>0. TInt # TFloat /\ TInt # TText /\ TInt # TBool /\ TFloat # TText /\ TFloat # TBool /\ TText # TBool
  BY DEF TInt, TFloat, TText, TBool
<1>1. CASE IsNull(v)
  <2>1. d = Nil
    BY <1>1 DEF Drivers, DriverValue
  <2> QED
    BY <1>1, <2>1 DEF NormalizeOracle, NormalizeEngine, Nil
<1>2. CASE ~IsNull(v) /\ v.type = TInt
  <2>1. d = Driver("int64", v)
    BY <1>0, <1>2 DEF Drivers, DriverValue
  <2> QED
    BY <1>0, <1>2, <2>1 DEF NormalizeOracle, NormalizeEngine, Driver
<1>3. CASE ~IsNull(v) /\ v.type = TFloat
  <2>1. d = Driver("float64", v)
    BY <1>0, <1>3 DEF Drivers, DriverValue
  <2>2. d.go = "float64" /\ d.cls = v.cls /\ d.x = v.x
    BY <2>1 DEF Driver
  <2>3. Num(d) = Num(v)
    BY <2>2 DEF Num, IsFinite
  <2> QED
    BY <1>0, <1>3, <2>2, <2>3 DEF NormalizeOracle, NormalizeEngine
<1>4. CASE ~IsNull(v) /\ v.type = TBool
  <2>1. d = Driver("bool", v)
    BY <1>0, <1>4 DEF Drivers, DriverValue
  <2> QED
    BY <1>0, <1>4, <2>1 DEF NormalizeOracle, NormalizeEngine, Driver, Cell
<1>5. CASE ~IsNull(v) /\ v.type = TText
  <2>1. d \in {Driver("string", v), Driver("[]byte", v)}
    BY <1>0, <1>5 DEF Drivers, DriverValue
  <2> QED
    BY <1>0, <1>5, <2>1 DEF NormalizeOracle, NormalizeEngine, Driver, Cell
<1> QED
  BY <1>1, <1>2, <1>3, <1>4, <1>5, ValueForms

LEMMA CellsMatch ==
    ASSUME NEW a \in Values, NEW b \in Values, ~(IsNumber(a) /\ IsNumber(b))
    PROVE  NormalizeEngine(a) = NormalizeEngine(b) <=> Same(a, b)
<1>0. TInt # TFloat /\ TInt # TText /\ TInt # TBool /\ TFloat # TText /\ TFloat # TBool /\ TText # TBool
  BY DEF TInt, TFloat, TText, TBool
<1>1. PICK c, e : c = NormalizeEngine(a) /\ e = NormalizeEngine(b)
  OBVIOUS
<1>2. Shows(a, c) /\ Shows(b, e)
  BY <1>1, EngineCell
<1>3. Same(a, b) => c = e
  BY <1>1, <1>2 DEF Same, Shows
<1>4. ASSUME c = e PROVE Same(a, b)
  <2>1. \A v \in Values : ~IsNull(v) =>
            /\ v.type = TInt => IsNumber(v)
            /\ IsNumber(v) => v.type \in {TInt, TFloat}
    BY ValueForms, ValueIntIsNumber DEF IsNumber, IsNumeric
  <2>2. CASE IsNull(a)
    BY <1>2, <1>4, <2>1, <2>2, ValueForms DEF Shows, NullCell, Same
  <2>3. CASE IsNull(b)
    BY <1>2, <1>4, <2>1, <2>3, ValueForms DEF Shows, NullCell, Same
  <2>4. CASE ~IsNull(a) /\ ~IsNull(b) /\ c.tag = "n"
    <3>1. a.type \in {TInt, TFloat} /\ b.type \in {TInt, TFloat}
      BY <1>0, <1>2, <1>4, <2>4, ValueForms DEF Shows
    <3>2. ~IsNumber(a) /\ ~IsNumber(b) /\ a.type = TFloat /\ b.type = TFloat
      BY <1>2, <1>4, <2>1, <2>4, <3>1, ValueForms DEF Shows
    <3>3. a.cls = b.cls /\ a.x = b.x
      BY <1>2, <1>4, <2>4, <3>2, ValueForms DEF Shows
    <3> QED
      BY <2>4, <3>2, <3>3, ValueForms DEF Same, Float64, NaN, NegZero
  <2>5. CASE ~IsNull(a) /\ ~IsNull(b) /\ c.tag # "n"
    <3>1. a.type \in {TBool, TText} /\ b.type \in {TBool, TText}
      BY <1>2, <1>4, <2>1, <2>5, ValueForms DEF Shows
    <3>2. a.type = b.type /\ a.x = b.x
      BY <1>2, <1>4, <2>5, <3>1 DEF Shows
    <3> QED
      BY <1>0, <2>5, <3>1, <3>2, ValueForms DEF Same, Text
  <2> QED
    BY <2>2, <2>3, <2>4, <2>5
<1> QED
  BY <1>1, <1>3, <1>4

(* NULL, NaN, -0, the infinities, truth values and texts have a cell of their
   own each, the same on both sides, that no number has, for every lattice of
   doubles and whatever number of digits is kept. *)
THEOREM OtherCellsMatch == PairSpec => []OthersMatch
<1>1. PairInv => OthersMatch
  BY PairValues, CellsMatch, OracleCell DEF OthersMatch
<1> QED
  BY PairInvariant, <1>1, PTL
=============================================================================
