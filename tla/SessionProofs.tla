--------------------------- MODULE SessionProofs ---------------------------
(***************************************************************************)
(* The session's invariant, for every schema file, every contents of the   *)
(* tables' files, every order of their replacements and every list of      *)
(* statements.                                                             *)
(***************************************************************************)
EXTENDS Session, ValuesProofs

(* A sequence of its own elements, one longer. *)
LEMMA AppendElements ==
    ASSUME NEW s, s \in Seq(ToSet(s)), NEW e
    PROVE  /\ Append(s, e) \in Seq(ToSet(Append(s, e)))
           /\ ToSet(Append(s, e)) = ToSet(s) \cup {e}
           /\ Len(s) \in Nat /\ DOMAIN s = 1 .. Len(s)
           /\ Len(Append(s, e)) = Len(s) + 1
           /\ DOMAIN Append(s, e) = 1 .. Len(s) + 1
           /\ \A n \in 1 .. Len(s) : Append(s, e)[n] = s[n]
           /\ Append(s, e)[Len(s) + 1] = e
           /\ Append(s, e) # <<>>
<1> DEFINE T == ToSet(s) \cup {e}
           a == Append(s, e)
<1>1. s \in Seq(T) /\ e \in T
  <2>1. ToSet(s) \subseteq T /\ e \in T
    OBVIOUS
  <2> HIDE DEF T
  <2> QED
    BY <2>1, SeqWiden
<1>2. /\ a \in Seq(T) /\ Len(s) \in Nat /\ DOMAIN s = 1 .. Len(s)
      /\ Len(a) = Len(s) + 1 /\ DOMAIN a = 1 .. Len(s) + 1
      /\ \A n \in 1 .. Len(s) : a[n] = s[n]
      /\ a[Len(s) + 1] = e
  <2> HIDE DEF T
  <2> QED
    BY <1>1, AppendFacts
<1> HIDE DEF a
<1>3. ToSet(a) = T
  <2>1. ToSet(a) \subseteq T
    BY <1>2 DEF ToSet
  <2>2. ASSUME NEW x \in ToSet(s) PROVE x \in ToSet(a)
    <3>1. PICK n \in 1 .. Len(s) : x = s[n]
      BY <1>2 DEF ToSet
    <3>2. n \in DOMAIN a /\ a[n] = x
      BY <1>2, <3>1
    <3> QED
      BY <3>2 DEF ToSet
  <2>3. e \in ToSet(a)
    <3>1. Len(s) + 1 \in DOMAIN a
      BY <1>2
    <3> QED
      BY <1>2, <3>1 DEF ToSet
  <2> QED
    BY <2>1, <2>2, <2>3
<1>4. a # <<>>
  BY <1>2
<1> QED
  BY <1>2, <1>3, <1>4 DEF a

-----------------------------------------------------------------------------
(* The records of a file: Records, line by line. *)
IsKept(f, n, file) ==
    f = [i \in 0 .. n |-> IF i = 0 THEN <<>>
                          ELSE IF file[i] = <<Blank>> THEN f[i - 1] ELSE Append(f[i - 1], file[i])]

LEMMA KeptExists ==
    ASSUME NEW file, NEW n \in Nat
    PROVE  \E f : IsKept(f, n, file)
<1> DEFINE missing == {m \in Nat : ~\E f : IsKept(f, m, file)}
<1> SUFFICES ASSUME missing # {} PROVE FALSE
  OBVIOUS
<1>1. PICK m \in missing : \A k2 \in missing : m <= k2
  <2>1. missing \subseteq Nat
    OBVIOUS
  <2> HIDE DEF missing
  <2> QED
    BY <2>1, Smallest
<1>2. m # 0
  <2>1. IsKept([i \in 0 .. 0 |-> <<>>], 0, file)
    BY DEF IsKept
  <2> QED
    BY <2>1
<1>3. PICK g : IsKept(g, m - 1, file)
  <2>1. m - 1 \in Nat /\ ~(m <= m - 1)
    BY <1>1, <1>2
  <2> QED
    BY <1>1, <2>1
<1> DEFINE f == [i \in 0 .. m |-> IF i <= m - 1 THEN g[i]
                                  ELSE IF file[i] = <<Blank>> THEN g[i - 1] ELSE Append(g[i - 1], file[i])]
<1>4. m \in Nat
  BY <1>1
<1>5. ASSUME NEW i \in 0 .. m
      PROVE  f[i] = IF i = 0 THEN <<>>
                    ELSE IF file[i] = <<Blank>> THEN f[i - 1] ELSE Append(f[i - 1], file[i])
  <2>1. i # 0 => f[i - 1] = g[i - 1]
    BY <1>4
  <2>2. f[i] = IF i = 0 THEN <<>>
               ELSE IF file[i] = <<Blank>> THEN g[i - 1] ELSE Append(g[i - 1], file[i])
    <3>1. CASE i <= m - 1
      <4>1. f[i] = g[i] /\ i \in 0 .. m - 1
        BY <1>4, <3>1
      <4> HIDE DEF f
      <4> QED
        BY <1>3, <4>1 DEF IsKept
    <3>2. CASE ~(i <= m - 1)
      BY <1>2, <1>4, <3>2
    <3> QED
      BY <3>1, <3>2
  <2> HIDE DEF f
  <2> QED
    BY <2>1, <2>2
<1>6. IsKept(f, m, file)
  <2>1. f = [i \in 0 .. m |-> f[i]]
    OBVIOUS
  <2> HIDE DEF f
  <2> QED
    BY <1>5, <2>1 DEF IsKept
<1> QED
  BY <1>1, <1>6

(* encoding/csv returns the lines that are not blank, and all of them if none
   is. *)
LEMMA RecordsFacts ==
    ASSUME NEW T, NEW file \in Seq(T)
    PROVE  /\ Records(file) \in Seq(T)
           /\ ToSet(Records(file)) = ToSet(file) \ { <<Blank>> }
           /\ <<Blank>> \notin ToSet(file) => Records(file) = file
<1> DEFINE len == Len(file)
           kept == CHOOSE f : IsKept(f, Len(file), file)
<1>1. len \in Nat /\ DOMAIN file = 1 .. len /\ \A n \in 1 .. len : file[n] \in T
  BY SeqElements
<1>2. IsKept(kept, len, file)
  BY <1>1, KeptExists
<1>3. Records(file) = kept[len]
  BY DEF Records, IsKept
<1> HIDE DEF kept, len
<1>4. kept[0] = <<>>
  <2>1. 0 \in 0 .. len
    BY <1>1
  <2> QED
    BY <1>2, <2>1 DEF IsKept
<1>5. ASSUME NEW n \in 1 .. len
      PROVE  kept[n] = IF file[n] = <<Blank>> THEN kept[n - 1] ELSE Append(kept[n - 1], file[n])
  <2>1. n \in 0 .. len /\ n # 0
    BY <1>1
  <2> QED
    BY <1>2, <2>1 DEF IsKept
<1> DEFINE Good(n) == /\ kept[n] \in Seq(T)
                      /\ kept[n] \in Seq(ToSet(kept[n]))
                      /\ ToSet(kept[n]) = {file[m] : m \in 1 .. n} \ { <<Blank>> }
                      /\ <<Blank>> \notin {file[m] : m \in 1 .. n} =>
                            Len(kept[n]) = n /\ \A m \in 1 .. n : kept[n][m] = file[m]
           bad == {n \in 0 .. len : ~Good(n)}
<1>6. Good(0)
  <2>1. <<>> \in Seq(T) /\ <<>> \in Seq(ToSet(<<>>)) /\ ToSet(<<>>) = {} /\ Len(<<>>) = 0
    BY EmptySeq DEF ToSet
  <2>2. {file[m] : m \in 1 .. 0} = {} /\ 1 .. 0 = {}
    OBVIOUS
  <2> QED
    BY <1>4, <2>1, <2>2
<1>7. ASSUME NEW n \in 1 .. len, Good(n - 1) PROVE Good(n)
  <2> DEFINE before == {file[m] : m \in 1 .. n - 1}
             r == kept[n - 1]
  <2>1. {file[m] : m \in 1 .. n} = before \cup {file[n]}
    <3>1. 1 .. n = (1 .. n - 1) \cup {n}
      BY <1>1
    <3> QED
      BY <3>1
  <2>2. CASE file[n] = <<Blank>>
    BY <1>5, <1>7, <2>1, <2>2
  <2>3. CASE file[n] # <<Blank>>
    <3>1. kept[n] = Append(r, file[n]) /\ file[n] \in T
      BY <1>1, <1>5, <2>3
    <3>2. /\ r \in Seq(T) /\ r \in Seq(ToSet(r)) /\ ToSet(r) = before \ { <<Blank>> }
          /\ <<Blank>> \notin before => Len(r) = n - 1 /\ \A m \in 1 .. n - 1 : r[m] = file[m]
      BY <1>7
    <3> HIDE DEF r, before
    <3>3. /\ kept[n] \in Seq(T) /\ kept[n] \in Seq(ToSet(kept[n]))
          /\ ToSet(kept[n]) = ToSet(r) \cup {file[n]}
          /\ Len(kept[n]) = Len(r) + 1
          /\ \A m \in 1 .. Len(r) : kept[n][m] = r[m]
          /\ kept[n][Len(r) + 1] = file[n]
      BY <3>1, <3>2, AppendFacts, AppendElements
    <3>4. ToSet(kept[n]) = {file[m] : m \in 1 .. n} \ { <<Blank>> }
      BY <2>1, <2>3, <3>2, <3>3
    <3>5. ASSUME <<Blank>> \notin {file[m] : m \in 1 .. n}
          PROVE  Len(kept[n]) = n /\ \A m \in 1 .. n : kept[n][m] = file[m]
      <4>1. <<Blank>> \notin before
        BY <2>1, <3>5
      <4>2. Len(r) = n - 1 /\ \A m \in 1 .. n - 1 : r[m] = file[m]
        BY <3>2, <4>1
      <4> QED
        BY <3>3, <4>2
    <3> QED
      BY <3>3, <3>4, <3>5
  <2> QED
    BY <2>2, <2>3
<1>8. bad = {}
  <2> SUFFICES ASSUME bad # {} PROVE FALSE
    OBVIOUS
  <2>1. bad \subseteq Nat /\ \A n : n \in bad <=> n \in 0 .. len /\ ~Good(n)
    BY <1>1
  <2> HIDE DEF bad, Good
  <2>2. PICK n \in bad : \A m \in bad : n <= m
    BY <2>1, Smallest
  <2>3. n # 0 /\ n \in 0 .. len
    BY <1>6, <2>1, <2>2
  <2>4. n \in 1 .. len /\ n - 1 \in 0 .. len /\ ~(n <= n - 1)
    BY <1>1, <2>3
  <2>5. Good(n - 1)
    BY <2>1, <2>2, <2>4
  <2> QED
    BY <1>7, <2>1, <2>2, <2>4, <2>5
<1>9. Good(len)
  <2>1. len \in 0 .. len
    BY <1>1
  <2> HIDE DEF Good
  <2> QED
    BY <1>8, <2>1
<1>10. ToSet(file) = {file[m] : m \in 1 .. len}
  BY <1>1 DEF ToSet
<1>11. ASSUME <<Blank>> \notin ToSet(file) PROVE kept[len] = file
  <2>1. kept[len] \in Seq(T) /\ Len(kept[len]) = Len(file)
        /\ \A m \in 1 .. Len(file) : kept[len][m] = file[m]
    BY <1>9, <1>10, <1>11 DEF len
  <2> DEFINE r == kept[len]
  <2>2. r \in Seq(T) /\ Len(r) = Len(file) /\ \A m \in 1 .. Len(file) : r[m] = file[m]
    BY <2>1
  <2> HIDE DEF r
  <2>3. r = file
    BY <2>2, SeqEqual
  <2> QED
    BY <2>3 DEF r
<1> QED
  BY <1>3, <1>9, <1>10, <1>11

-----------------------------------------------------------------------------
(* The catalog. *)
AllTypes == {TInt, TFloat, TText, TBool}

(* The columns that LoadSchema makes of the parts it accepts. *)
LEMMA ColumnsFacts ==
    ASSUME NEW parts \in Seq(Seq(STRING)), \A part \in ToSet(parts) : IsColumn(part)
    PROVE  /\ Len(Columns(parts)) \in Nat
           /\ DOMAIN Columns(parts) = 1 .. Len(Columns(parts))
           /\ \A n \in DOMAIN Columns(parts) : Columns(parts)[n].type \in AllTypes
<1> DEFINE c == Columns(parts)
           T == {c[n] : n \in 1 .. Len(parts)}
<1>1. Len(parts) \in Nat /\ DOMAIN parts = 1 .. Len(parts)
  BY SeqElements
<1>2. c = [n \in 1 .. Len(parts) |-> [name |-> parts[n][1], type |-> ParseType(parts[n][2])]]
  BY <1>1 DEF Columns
<1>3. c \in [1 .. Len(parts) -> T]
  BY <1>2
<1>4. Len(c) = Len(parts) /\ DOMAIN c = 1 .. Len(parts)
  <2> HIDE DEF c, T
  <2> QED
    BY <1>1, <1>3, FunctionIsSeq
<1>5. ASSUME NEW n \in 1 .. Len(parts) PROVE c[n].type \in AllTypes
  <2>1. parts[n] \in ToSet(parts)
    BY <1>1 DEF ToSet
  <2>2. ParsesType(parts[n][2])
    BY <2>1 DEF IsColumn
  <2>3. ParseType(parts[n][2]) \in AllTypes
    BY <2>2 DEF ParsesType, ParseType, Types, AllTypes, TInt, TFloat, TText, TBool
  <2> QED
    BY <1>2, <2>3
<1> HIDE DEF c
<1>6. Len(c) \in Nat /\ DOMAIN c = 1 .. Len(c) /\ \A n \in DOMAIN c : c[n].type \in AllTypes
  BY <1>1, <1>4, <1>5
<1> QED
  BY <1>6 DEF c

(* The lines of the schema file. *)
LEMMA SchemaLineFacts ==
    ASSUME NEW file \in SchemaFiles, file # NoFile
    PROVE  /\ Len(file) \in Nat /\ DOMAIN file = 1 .. Len(file)
           /\ \A n \in 1 .. Len(file) :
                 /\ file[n].form \in {"skip", "bad", "table"}
                 /\ file[n].parts \in Seq(Seq(STRING))
                 /\ file[n].form # "table" => file[n].parts = <<>>
                 /\ file[n].form = "table" => file[n].name \in Names
<1>1. file \in Seq(SchemaLines)
  BY SchemaFilesAssumption
<1>2. /\ Len(file) \in Nat /\ DOMAIN file = 1 .. Len(file)
      /\ \A n \in 1 .. Len(file) : file[n] \in SchemaLines
  BY <1>1, SeqElements
<1>3. ASSUME NEW n \in 1 .. Len(file)
      PROVE  /\ file[n].form \in {"skip", "bad", "table"}
             /\ file[n].parts \in Seq(Seq(STRING))
             /\ file[n].form # "table" => file[n].parts = <<>>
             /\ file[n].form = "table" => file[n].name \in Names
  <2>1. file[n].form \in {"skip", "bad", "table"} /\ file[n].parts \in Seq(Seq(STRING))
    BY <1>2 DEF SchemaLines
  <2>2. file[n].form # "table" => file[n].parts = <<>>
    BY <1>2, SchemaFilesAssumption
  <2>3. file[n].form = "table" => file[n].name \in Names
    BY <1>2, SessionsAssumption
  <2> QED
    BY <2>1, <2>2, <2>3, Zenon
<1> QED
  BY <1>2, <1>3, Zenon

(* What the invariant says of the tables of the catalog. *)
LEMMA CatalogFacts ==
    ASSUME CatalogInv
    PROVE  /\ DOMAIN cat \subseteq Names
           /\ \A name \in DOMAIN cat :
                 /\ Len(cat[name]) \in Nat
                 /\ DOMAIN cat[name] = 1 .. Len(cat[name])
                 /\ \A j \in DOMAIN cat[name] : cat[name][j].type \in AllTypes
<1>1. CASE cat = <<>>
  BY <1>1
<1>2. CASE cat # <<>>
  <2>1. lines \in SchemaFiles /\ lines # NoFile /\ ln \in 1 .. Len(lines) + 1 /\ CatalogIsRead
    BY <1>2 DEF CatalogInv
  <2>2. \A n \in DeclaredBefore(ln) : n \in 1 .. Len(lines) /\ n \in 1 .. ln - 1
                                     /\ lines[n].form = "table" /\ lines[n].name \in Names
    <3>1. Len(lines) \in Nat /\ \A n \in 1 .. Len(lines) : lines[n].form = "table" => lines[n].name \in Names
      BY <2>1, SchemaLineFacts
    <3> QED
      BY <2>1, <3>1 DEF DeclaredBefore
  <2>3. DOMAIN cat \subseteq Names
    BY <2>1, <2>2 DEF CatalogIsRead
  <2>4. ASSUME NEW name \in DOMAIN cat
        PROVE  /\ Len(cat[name]) \in Nat
               /\ DOMAIN cat[name] = 1 .. Len(cat[name])
               /\ \A j \in DOMAIN cat[name] : cat[name][j].type \in AllTypes
    <3>1. PICK n \in DeclaredBefore(ln) : cat[name] = Columns(lines[n].parts)
      BY <2>1 DEF CatalogIsRead
    <3>2. \A part \in ToSet(lines[n].parts) : IsColumn(part)
      BY <2>1, <2>2 DEF CatalogIsRead
    <3>3. lines[n].parts \in Seq(Seq(STRING))
      BY <2>1, <2>2, SchemaLineFacts
    <3> DEFINE parts == lines[n].parts
    <3> HIDE DEF parts
    <3>4. /\ Len(Columns(parts)) \in Nat
          /\ DOMAIN Columns(parts) = 1 .. Len(Columns(parts))
          /\ \A j \in DOMAIN Columns(parts) : Columns(parts)[j].type \in AllTypes
      BY <3>2, <3>3, ColumnsFacts DEF parts
    <3> QED
      BY <3>1, <3>4 DEF parts
  <2> QED
    BY <2>3, <2>4
<1> QED
  BY <1>1, <1>2

LEMMA InitCatalog == InitSchema => CatalogInv
<1> SUFFICES ASSUME InitSchema PROVE CatalogInv
  OBVIOUS
<1>1. ln = 1 /\ cat = <<>> /\ schema = "loading" /\ lines \in SchemaFiles /\ DOMAIN cat = {}
  BY DEF InitSchema
<1>2. lines # NoFile => ln \in 1 .. Len(lines) + 1
  BY <1>1, SchemaLineFacts
<1>3. CatalogIsRead
  <2>1. DeclaredBefore(ln) = {}
    BY <1>1 DEF DeclaredBefore
  <2> QED
    BY <1>1, <2>1 DEF CatalogIsRead
<1> QED
  BY <1>1, <1>2, <1>3 DEF CatalogInv

LEMMA CatalogStays == CatalogInv /\ UNCHANGED catalogVars => CatalogInv'
BY DEF CatalogInv, catalogVars, CatalogIsRead, DeclaredBefore

(* One line of the schema file keeps the catalog what its lines declare. *)
LEMMA LoadSchemaCatalog == CatalogInv /\ LoadSchema => CatalogInv'
<1> SUFFICES ASSUME CatalogInv, LoadSchema PROVE CatalogInv'
  OBVIOUS
<1>1. lines \in SchemaFiles /\ lines' = lines /\ schema = "loading"
  BY DEF CatalogInv, LoadSchema, SkipLine, AddTable, RefuseLine, NoSchema, EndOfSchema, Loading
<1>2. lines # NoFile => ln \in 1 .. Len(lines) + 1 /\ Len(lines) \in Nat /\ CatalogIsRead
  BY <1>1, SchemaLineFacts DEF CatalogInv
<1>3. CASE SkipLine
  <2>1. lines # NoFile /\ ln \in 1 .. Len(lines) /\ lines[ln].form = "skip"
        /\ ln' = ln + 1 /\ cat' = cat /\ schema' = schema
    BY <1>2, <1>3 DEF SkipLine, MoreLines, Line
  <2>2. lines[ln].parts = <<>> /\ ToSet(lines[ln].parts) = {}
    BY <1>1, <2>1, SchemaLineFacts DEF ToSet
  <2>3. \A m : m \in 1 .. ln' - 1 <=> m \in 1 .. ln - 1 \/ m = ln
    BY <1>2, <2>1
  <2>4. DeclaredBefore(ln)' = DeclaredBefore(ln)
    BY <1>1, <2>1, <2>3 DEF DeclaredBefore
  <2>5. CatalogIsRead'
    BY <1>1, <1>2, <2>1, <2>2, <2>3, <2>4 DEF CatalogIsRead
  <2> QED
    BY <1>1, <1>2, <2>1, <2>5 DEF CatalogInv
<1>4. CASE AddTable
  <2> DEFINE name == lines[ln].name
             parts == lines[ln].parts
  <2>1. lines # NoFile /\ ln \in 1 .. Len(lines) /\ lines[ln].form = "table"
        /\ ln' = ln + 1 /\ schema' = schema /\ cat' = Add(cat, name, Columns(parts))
        /\ \A part \in ToSet(parts) : IsColumn(part)
    BY <1>2, <1>4 DEF AddTable, MoreLines, Line, ToSet
  <2>2. \A m : m \in 1 .. ln' - 1 <=> m \in 1 .. ln - 1 \/ m = ln
    BY <1>2, <2>1
  <2>3. DeclaredBefore(ln)' = DeclaredBefore(ln) \cup {ln}
    BY <1>1, <2>1, <2>2 DEF DeclaredBefore
  <2>4. DOMAIN cat' = DOMAIN cat \cup {name}
        /\ \A t \in DOMAIN cat' : cat'[t] = IF t = name THEN Columns(parts) ELSE cat[t]
    BY <2>1 DEF Add
  <2> HIDE DEF parts
  <2>5. \A m \in 1 .. ln' - 1 : lines'[m].form # "bad" /\ \A part \in ToSet(lines'[m].parts) : IsColumn(part)
    BY <1>1, <1>2, <2>1, <2>2 DEF CatalogIsRead, parts
  <2>6. DOMAIN cat' = {lines'[m].name : m \in DeclaredBefore(ln)'}
    BY <1>1, <1>2, <2>1, <2>3, <2>4 DEF CatalogIsRead
  <2>7. ASSUME NEW t \in DOMAIN cat'
        PROVE  \E n \in DeclaredBefore(ln)' :
                  /\ lines'[n].name = t
                  /\ \A m \in DeclaredBefore(ln)' : lines'[m].name = t => m <= n
                  /\ cat'[t] = Columns(lines'[n].parts)
    <3>1. \A m \in DeclaredBefore(ln) : m \in 1 .. ln - 1
      BY DEF DeclaredBefore
    <3>2. CASE t = name
      <4>1. ln \in DeclaredBefore(ln)' /\ \A m \in DeclaredBefore(ln)' : m <= ln
        BY <2>1, <2>3, <3>1
      <4>2. lines'[ln].name = t /\ cat'[t] = Columns(lines'[ln].parts)
        BY <1>1, <2>4, <3>2 DEF parts
      <4> QED
        BY <4>1, <4>2
    <3>3. CASE t # name
      <4>1. PICK n \in DeclaredBefore(ln) :
                  /\ lines[n].name = t
                  /\ \A m \in DeclaredBefore(ln) : lines[m].name = t => m <= n
                  /\ cat[t] = Columns(lines[n].parts)
        BY <1>2, <2>1, <2>4, <3>3 DEF CatalogIsRead
      <4>2. \A m \in DeclaredBefore(ln)' : lines'[m].name = t => m <= n
        BY <1>1, <2>3, <3>3, <4>1
      <4>3. n \in DeclaredBefore(ln)' /\ lines'[n].name = t /\ cat'[t] = Columns(lines'[n].parts)
        BY <1>1, <2>3, <2>4, <3>3, <4>1
      <4> QED
        BY <4>2, <4>3
    <3> QED
      BY <3>2, <3>3
  <2>8. CatalogIsRead'
    BY <2>5, <2>6, <2>7 DEF CatalogIsRead
  <2>9. ln' \in 1 .. Len(lines') + 1
    BY <1>1, <1>2, <2>1
  <2> QED
    BY <1>1, <2>1, <2>8, <2>9 DEF CatalogInv
<1>5. CASE RefuseLine
  BY <1>1, <1>5 DEF RefuseLine, CatalogInv
<1>6. CASE NoSchema
  BY <1>1, <1>6 DEF NoSchema, CatalogInv
<1>7. CASE EndOfSchema
  <2>1. lines # NoFile /\ ~(ln <= Len(lines)) /\ ln' = ln /\ cat' = cat /\ schema' = "loaded"
    BY <1>7 DEF EndOfSchema, MoreLines
  <2>2. ln = Len(lines) + 1 /\ CatalogIsRead'
    BY <1>1, <1>2, <2>1 DEF CatalogIsRead, DeclaredBefore
  <2> QED
    BY <1>1, <1>2, <2>1, <2>2 DEF CatalogInv
<1> QED
  BY <1>3, <1>4, <1>5, <1>6, <1>7 DEF LoadSchema

-----------------------------------------------------------------------------
(* The reader. *)

\* A file's contents and the columns of a table, as the reader is given them.
GoodFile(file) == file = NoFile \/ file \in Seq(Seq(STRING))

GoodColumns(columns) ==
    /\ Len(columns) \in Nat /\ DOMAIN columns = 1 .. Len(columns)
    /\ \A j \in DOMAIN columns : columns[j].type \in AllTypes

(* What the records of a file are, and that Reads speaks of them. *)
LEMMA FileFacts ==
    ASSUME NEW file \in Seq(Seq(STRING)), NEW columns, GoodColumns(columns)
    PROVE  /\ Len(Records(file)) \in Nat /\ DOMAIN Records(file) = 1 .. Len(Records(file))
           /\ \A m \in 1 .. Len(Records(file)) :
                 /\ Records(file)[m] \in ToSet(file) \ { <<Blank>> }
                 /\ Len(Records(file)[m]) \in Nat
                 /\ DOMAIN Records(file)[m] = 1 .. Len(Records(file)[m])
           /\ file # NoFile =>
                (Reads(file, columns) <=>
                    \A m \in 1 .. Len(Records(file)) :
                       /\ Len(Records(file)[m]) = Len(columns)
                       /\ \A j \in 1 .. Len(columns) : Parses(Records(file)[m][j], columns[j].type))
<1> DEFINE T == Seq(STRING)
           r == Records(file)
<1>1. r \in Seq(T) /\ ToSet(r) = ToSet(file) \ { <<Blank>> }
  <2>1. file \in Seq(T)
    OBVIOUS
  <2> HIDE DEF T
  <2> QED
    BY <2>1, RecordsFacts
<1>2. Len(r) \in Nat /\ DOMAIN r = 1 .. Len(r) /\ \A m \in 1 .. Len(r) : r[m] \in T
  <2> HIDE DEF T, r
  <2> QED
    BY <1>1, SeqElements
<1> HIDE DEF r
<1>3. ASSUME NEW m \in 1 .. Len(r)
      PROVE  /\ r[m] \in ToSet(file) \ { <<Blank>> }
             /\ Len(r[m]) \in Nat /\ DOMAIN r[m] = 1 .. Len(r[m])
  <2>1. r[m] \in ToSet(r)
    BY <1>2 DEF ToSet
  <2>2. r[m] \in Seq(STRING)
    BY <1>2
  <2> QED
    BY <1>1, <2>1, <2>2, SeqElements
<1>4. \A line : line \in ToSet(file) \ { <<Blank>> } <=> \E m \in 1 .. Len(r) : line = r[m]
  BY <1>1, <1>2 DEF ToSet
<1>5. ASSUME file # NoFile
      PROVE  Reads(file, columns) <=>
                \A m \in 1 .. Len(r) :
                   /\ Len(r[m]) = Len(columns)
                   /\ \A j \in 1 .. Len(columns) : Parses(r[m][j], columns[j].type)
  <2>1. Reads(file, columns) <=>
           \A m \in 1 .. Len(r) :
              /\ Len(r[m]) = Len(columns)
              /\ \A j \in DOMAIN r[m] : Parses(r[m][j], columns[j].type)
    BY <1>4, <1>5 DEF Reads
  <2> QED
    BY <1>3, <2>1
<1> QED
  BY <1>2, <1>3, <1>5 DEF r

LEMMA OpenUnderway ==
    ASSUME NEW file, GoodFile(file), NEW columns, GoodColumns(columns), Open(file, columns)
    PROVE  Underway(file, columns)'
<1>1. cols' = columns /\ row' = <<>> /\ rows' = <<>>
  BY DEF Open
<1>2. CASE file # NoFile /\ Rectangular(file, Len(columns))
  <2>1. records' = Records(file) /\ read' = "reading"
    BY <1>2 DEF Open
  <2>2. Len(Records(file)) \in Nat
    BY <1>2, FileFacts DEF GoodFile
  <2>3. /\ rows' \in Seq(ToSet(rows')) /\ row' \in Seq(ToSet(row'))
        /\ Len(rows') = 0 /\ Len(row') = 0 /\ DOMAIN rows' = {} /\ DOMAIN row' = {}
    BY <1>1, EmptySeq
  <2>4. 0 <= Len(records') /\ 0 <= Len(columns)
    BY <2>1, <2>2 DEF GoodColumns
  <2> QED
    BY <1>1, <1>2, <2>1, <2>3, <2>4 DEF Underway, Rectangular
<1>3. CASE ~(file # NoFile /\ Rectangular(file, Len(columns)))
  <2>1. read' = "failed"
    BY <1>3 DEF Open
  <2>2. ~Reads(file, columns)
    <3>1. CASE file = NoFile
      BY <3>1 DEF Reads
    <3>2. CASE file # NoFile
      <4>1. file \in Seq(Seq(STRING))
        BY <3>2 DEF GoodFile
      <4>2. \E m \in DOMAIN Records(file) : Len(Records(file)[m]) # Len(columns)
        BY <1>3, <3>2 DEF Rectangular
      <4> QED
        BY <3>2, <4>1, <4>2, FileFacts
    <3> QED
      BY <3>1, <3>2
  <2> QED
    BY <1>1, <2>1, <2>2 DEF Underway, Reads
<1> QED
  BY <1>2, <1>3

(* Where the reader is while it reads. *)
LEMMA ReadingFacts ==
    ASSUME NEW file, GoodFile(file), NEW columns, GoodColumns(columns), Underway(file, columns),
           read # "failed"
    PROVE  /\ file \in Seq(Seq(STRING)) /\ file # NoFile
           /\ records = Records(file) /\ cols = columns
           /\ Len(records) \in Nat /\ DOMAIN records = 1 .. Len(records)
           /\ \A m \in 1 .. Len(records) : /\ Len(records[m]) = Len(columns)
                                           /\ DOMAIN records[m] = 1 .. Len(columns)
           /\ Len(rows) \in Nat /\ Len(rows) <= Len(records) /\ DOMAIN rows = 1 .. Len(rows)
           /\ Len(row) \in Nat /\ Len(row) <= Len(columns) /\ DOMAIN row = 1 .. Len(row)
<1>1. /\ file \in Seq(Seq(STRING)) /\ file # NoFile
      /\ records = Records(file) /\ Rectangular(file, Len(columns)) /\ cols = columns
      /\ rows \in Seq(ToSet(rows)) /\ row \in Seq(ToSet(row))
      /\ Len(rows) <= Len(records) /\ Len(row) <= Len(columns)
  BY DEF Underway, GoodFile
<1>2. Len(records) \in Nat /\ DOMAIN records = 1 .. Len(records)
  BY <1>1, FileFacts
<1>3. \A m \in 1 .. Len(records) : /\ Len(records[m]) = Len(columns)
                                   /\ DOMAIN records[m] = 1 .. Len(columns)
  BY <1>1, <1>2, FileFacts DEF Rectangular
<1>4. Len(rows) \in Nat /\ DOMAIN rows = 1 .. Len(rows) /\ Len(row) \in Nat /\ DOMAIN row = 1 .. Len(row)
  <2> DEFINE S == ToSet(rows)
             R == ToSet(row)
  <2>1. rows \in Seq(S) /\ row \in Seq(R)
    BY <1>1
  <2> HIDE DEF S, R
  <2> QED
    BY <2>1, SeqElements
<1> QED
  BY <1>1, <1>2, <1>3, <1>4

(* A step of the reader: a field more, a row more, the end, or a field that
   its column does not take, for which the file is not one of the table. *)
LEMMA ReadUnderway ==
    ASSUME NEW file, GoodFile(file), NEW columns, GoodColumns(columns), Underway(file, columns), Read
    PROVE  Underway(file, columns)'
<1>1. read = "reading" /\ read # "failed" /\ records' = records /\ cols' = cols
  BY DEF Read, TakeField, RefuseField, EndRow, EndRecords, Reading
<1>2. /\ file \in Seq(Seq(STRING)) /\ file # NoFile
      /\ records = Records(file) /\ cols = columns
      /\ Len(records) \in Nat /\ DOMAIN records = 1 .. Len(records)
      /\ \A m \in 1 .. Len(records) : /\ Len(records[m]) = Len(columns)
                                      /\ DOMAIN records[m] = 1 .. Len(columns)
      /\ Len(rows) \in Nat /\ Len(rows) <= Len(records) /\ DOMAIN rows = 1 .. Len(rows)
      /\ Len(row) \in Nat /\ Len(row) <= Len(columns) /\ DOMAIN row = 1 .. Len(row)
      /\ Len(columns) \in Nat /\ DOMAIN columns = 1 .. Len(columns)
  BY <1>1, ReadingFacts DEF GoodColumns
<1>3. /\ Rectangular(file, Len(columns))
      /\ rows \in Seq(ToSet(rows)) /\ row \in Seq(ToSet(row))
      /\ \A m \in 1 .. Len(rows) : /\ rows[m] = RowOf(records[m], columns)
                                   /\ \A j \in DOMAIN columns : Parses(records[m][j], columns[j].type)
      /\ row # <<>> => MoreRecords
      /\ \A j \in 1 .. Len(row) :
            LET field == records[Len(rows) + 1][j]
            IN  row[j] = ParseField(field, columns[j].type) /\ Parses(field, columns[j].type)
  BY <1>1, <1>2 DEF Underway
<1>4. CASE TakeField
  <2> DEFINE v == ParseField(Field, FieldType)
  <2>1. /\ rows' = rows /\ read' = read /\ row' = Append(row, v)
        /\ MoreRecords /\ Len(row) < Len(columns)
        /\ Field = records[Len(rows) + 1][Len(row) + 1] /\ FieldType = columns[Len(row) + 1].type
        /\ v = ParseField(Field, FieldType) /\ Parses(Field, FieldType)
    BY <1>2, <1>4 DEF TakeField, Field, FieldType
  <2> HIDE DEF v
  <2>2. /\ row' \in Seq(ToSet(row')) /\ Len(row') = Len(row) + 1 /\ DOMAIN row' = 1 .. Len(row) + 1
        /\ \A n \in 1 .. Len(row) : row'[n] = row[n]
        /\ row'[Len(row) + 1] = v
    BY <1>3, <2>1, AppendElements
  <2>3. ASSUME NEW j \in 1 .. Len(row')
        PROVE  LET field == records'[Len(rows') + 1][j]
               IN  row'[j] = ParseField(field, columns[j].type) /\ Parses(field, columns[j].type)
    <3>1. CASE j \in 1 .. Len(row)
      BY <1>1, <1>3, <2>1, <2>2, <3>1
    <3>2. CASE j = Len(row) + 1
      BY <1>1, <2>1, <2>2, <3>2
    <3> QED
      BY <1>2, <2>2, <3>1, <3>2
  <2>4. Len(row') <= Len(columns) /\ MoreRecords'
    BY <1>1, <1>2, <2>1, <2>2 DEF MoreRecords
  <2> QED
    BY <1>1, <1>2, <1>3, <2>1, <2>2, <2>3, <2>4 DEF Underway
<1>5. CASE RefuseField
  <2>1. /\ read' = "failed" /\ MoreRecords /\ Len(row) < Len(columns)
        /\ ~Parses(records[Len(rows) + 1][Len(row) + 1], columns[Len(row) + 1].type)
    BY <1>2, <1>5 DEF RefuseField, Field, FieldType
  <2>2. Len(rows) + 1 \in 1 .. Len(records) /\ Len(row) + 1 \in 1 .. Len(columns)
    BY <1>2, <2>1 DEF MoreRecords
  <2>3. ~Reads(file, columns)
    BY <1>2, <2>1, <2>2, FileFacts
  <2> QED
    BY <1>1, <1>2, <2>1, <2>3 DEF Underway, Reads
<1>6. CASE EndRow
  <2> DEFINE n == Len(rows) + 1
  <2>1. rows' = Append(rows, row) /\ row' = <<>> /\ read' = read
        /\ MoreRecords /\ Len(row) = Len(columns)
    BY <1>2, <1>6 DEF EndRow
  <2>2. row = RowOf(records[n], columns)
        /\ \A j \in DOMAIN columns : Parses(records[n][j], columns[j].type)
    <3>1. \A j \in 1 .. Len(columns) :
             row[j] = ParseField(records[n][j], columns[j].type) /\ Parses(records[n][j], columns[j].type)
      BY <1>3, <2>1
    <3>2. row = [j \in 1 .. Len(columns) |-> row[j]]
      <4> DEFINE R == ToSet(row)
      <4>1. row \in Seq(R)
        BY <1>3
      <4> HIDE DEF R
      <4>2. row \in [1 .. Len(row) -> R]
        BY <4>1, SeqIsFunction
      <4> QED
        BY <2>1, <4>2
    <3> QED
      BY <1>2, <3>1, <3>2 DEF RowOf
  <2>3. /\ rows' \in Seq(ToSet(rows')) /\ Len(rows') = n /\ DOMAIN rows' = 1 .. n
        /\ \A m \in 1 .. Len(rows) : rows'[m] = rows[m]
        /\ rows'[n] = row
    BY <1>3, <2>1, AppendElements
  <2>4. Len(rows') <= Len(records')
    BY <1>1, <1>2, <2>1, <2>3 DEF MoreRecords
  <2>5. ASSUME NEW m \in DOMAIN rows'
        PROVE  /\ rows'[m] = RowOf(records'[m], columns)
               /\ \A j \in DOMAIN columns : Parses(records'[m][j], columns[j].type)
    <3>1. CASE m \in 1 .. Len(rows)
      BY <1>1, <1>3, <2>3, <3>1
    <3>2. CASE m = n
      BY <1>1, <2>2, <2>3, <3>2
    <3> QED
      BY <1>2, <2>3, <3>1, <3>2
  <2>6. row' \in Seq(ToSet(row')) /\ Len(row') = 0 /\ DOMAIN row' = {} /\ 0 <= Len(columns)
    BY <1>2, <2>1, EmptySeq
  <2> QED
    BY <1>1, <1>2, <1>3, <2>1, <2>3, <2>4, <2>5, <2>6 DEF Underway
<1>7. CASE EndRecords
  <2>1. read' = "loaded" /\ row' = row /\ rows' = rows /\ ~(Len(rows) < Len(records))
    BY <1>7 DEF EndRecords, MoreRecords
  <2>2. Len(rows) = Len(records)
    <3>1. Len(rows) \in Nat /\ Len(records) \in Nat /\ Len(rows) <= Len(records)
      BY <1>2
    <3> QED
      BY <2>1, <3>1
  <2> QED
    BY <1>1, <1>2, <1>3, <2>1, <2>2 DEF Underway, MoreRecords
<1> QED
  BY <1>4, <1>5, <1>6, <1>7 DEF Read

(* At its end the reader has every record as a row. *)
LEMMA LoadedIsWhole ==
    ASSUME NEW file, GoodFile(file), NEW columns, GoodColumns(columns), Underway(file, columns),
           read = "loaded"
    PROVE  /\ Reads(file, columns)
           /\ rows = [m \in DOMAIN Records(file) |-> RowOf(Records(file)[m], columns)]
<1>1. /\ file \in Seq(Seq(STRING)) /\ file # NoFile /\ records = Records(file)
      /\ \A m \in 1 .. Len(records) : Len(records[m]) = Len(columns)
      /\ DOMAIN records = 1 .. Len(records) /\ DOMAIN rows = 1 .. Len(rows)
      /\ DOMAIN columns = 1 .. Len(columns)
  BY ReadingFacts DEF GoodColumns
<1>2. /\ Len(rows) = Len(records) /\ rows \in Seq(ToSet(rows))
      /\ \A m \in 1 .. Len(records) :
            /\ rows[m] = RowOf(records[m], columns)
            /\ \A j \in DOMAIN columns : Parses(records[m][j], columns[j].type)
  BY <1>1 DEF Underway
<1>3. Reads(file, columns)
  BY <1>1, <1>2, FileFacts
<1>4. rows = [m \in 1 .. Len(records) |-> rows[m]]
  <2> DEFINE R == ToSet(rows)
  <2>1. rows \in Seq(R)
    BY <1>2
  <2> HIDE DEF R
  <2>2. rows \in [1 .. Len(rows) -> R]
    BY <2>1, SeqIsFunction
  <2> QED
    BY <1>2, <2>2
<1> QED
  BY <1>1, <1>2, <1>3, <1>4

-----------------------------------------------------------------------------
(* The session's state. *)
LEMMA StatementFacts ==
    ASSUME SessionTypes
    PROVE  /\ Len(input) \in Nat /\ DOMAIN input = 1 .. Len(input)
           /\ k \in Nat /\ k >= 1
           /\ \A n \in 1 .. Len(input) :
                 /\ input[n].form \in {"blank", "long", "garbage", "select"}
                 /\ input[n].accepted \in BOOLEAN
                 /\ Len(input[n].tables) \in Nat
                 /\ DOMAIN input[n].tables = 1 .. Len(input[n].tables)
<1>1. input \in Seq(StatementLines) /\ k \in 1 .. Len(input) + 1
  BY SessionsAssumption DEF SessionTypes
<1>2. /\ Len(input) \in Nat /\ DOMAIN input = 1 .. Len(input)
      /\ \A n \in 1 .. Len(input) : input[n] \in StatementLines
  BY <1>1, SeqElements
<1>3. ASSUME NEW n \in 1 .. Len(input)
      PROVE  /\ input[n].form \in {"blank", "long", "garbage", "select"}
             /\ input[n].accepted \in BOOLEAN
             /\ Len(input[n].tables) \in Nat
             /\ DOMAIN input[n].tables = 1 .. Len(input[n].tables)
  <2>1. /\ input[n].form \in {"blank", "long", "garbage", "select"}
        /\ input[n].tables \in Seq(STRING)
    BY <1>2 DEF StatementLines
  <2>2. input[n].accepted \in BOOLEAN
    BY <1>2 DEF StatementLines
  <2> QED
    BY <2>1, <2>2, SeqElements
<1>4. k \in Nat /\ k >= 1
  BY <1>1, <1>2
<1> QED
  BY <1>2, <1>3, <1>4

(* The contents a table's file has had. *)
LEMMA FilesFacts ==
    ASSUME SessionTypes, NEW name \in Names
    PROVE  /\ files[name] \in Seq(Contents)
           /\ Len(files[name]) \in Nat \ {0}
           /\ DOMAIN files[name] = 1 .. Len(files[name])
           /\ \A v \in 1 .. Len(files[name]) : GoodFile(files[name][v])
<1>1. files[name] \in Seq(Contents) /\ files[name] # <<>>
  BY DEF SessionTypes
<1>2. /\ Len(files[name]) \in Nat /\ DOMAIN files[name] = 1 .. Len(files[name])
      /\ \A v \in 1 .. Len(files[name]) : files[name][v] \in Contents
  BY <1>1, SeqElements
<1>3. Len(files[name]) # 0
  BY <1>1, EmptySeq
<1>4. \A content \in Contents : GoodFile(content)
  BY SessionsAssumption DEF GoodFile
<1> QED
  BY <1>1, <1>2, <1>3, <1>4

(* The contents and the columns that the n-th read of a statement is about. *)
LEMMA ReadArguments ==
    ASSUME CatalogInv, SessionTypes, NEW a, Fresh(a), NEW n \in DOMAIN a.scans
    PROVE  GoodFile(File(a, n)) /\ GoodColumns(ColumnsOf(a, n))
<1> DEFINE name == input[a.line].tables[n]
           v == a.scans[n].version
<1>1. /\ name \in DOMAIN cat /\ a.begun[name] \in Nat
      /\ v \in a.begun[name] .. Len(files[name]) /\ v >= 1
  BY DEF Fresh
<1>2. name \in Names /\ GoodColumns(ColumnsOf(a, n))
  BY <1>1, CatalogFacts DEF GoodColumns, ColumnsOf
<1> HIDE DEF name, v
<1>3. Len(files[name]) \in Nat /\ \A w \in 1 .. Len(files[name]) : GoodFile(files[name][w])
  BY <1>2, FilesFacts
<1>4. v \in 1 .. Len(files[name])
  BY <1>1, <1>3
<1> QED
  BY <1>2, <1>3, <1>4 DEF File, name, v

\* What all steps but those of the schema leave: the catalog, the lines typed,
\* and every content that a file has had.
FilesKept ==
    /\ DOMAIN files' = Names
    /\ \A name \in Names :
          /\ Len(files'[name]) \in Nat /\ Len(files'[name]) >= Len(files[name])
          /\ \A v \in 1 .. Len(files[name]) : files'[name][v] = files[name][v]

Stays == cat' = cat /\ input' = input /\ FilesKept

LEMMA FilesUnchanged == SessionTypes /\ UNCHANGED <<cat, input, files>> => Stays
<1> SUFFICES ASSUME SessionTypes, UNCHANGED <<cat, input, files>> PROVE Stays
  OBVIOUS
<1>1. \A name \in Names : Len(files[name]) \in Nat
  BY FilesFacts
<1>2. DOMAIN files = Names
  BY DEF SessionTypes
<1> QED
  BY <1>1, <1>2 DEF Stays, FilesKept

(* What was read stays what it was. *)
LEMMA ReadsStay ==
    ASSUME CatalogInv, SessionTypes, Stays, NEW a, Fresh(a)
    PROVE  /\ Fresh(a)'
           /\ \A n \in DOMAIN a.scans : /\ File(a, n)' = File(a, n)
                                        /\ ColumnsOf(a, n)' = ColumnsOf(a, n)
           /\ \A n \in DOMAIN a.scans : Whole(a, n) => Whole(a, n)'
           /\ Succeeds(a)' <=> Succeeds(a)
<1>1. ASSUME NEW n \in DOMAIN a.scans
      PROVE  /\ a.scans[n].version \in a.begun[input[a.line].tables[n]] .. Len(files'[input[a.line].tables[n]])
             /\ File(a, n)' = File(a, n)
  <2> DEFINE name == input[a.line].tables[n]
             v == a.scans[n].version
  <2>1. /\ name \in DOMAIN cat /\ a.begun[name] \in Nat
        /\ v \in a.begun[name] .. Len(files[name]) /\ v >= 1
    BY DEF Fresh
  <2>2. name \in Names
    BY <2>1, CatalogFacts
  <2>3. File(a, n)' = files'[name][v] /\ File(a, n) = files[name][v]
    BY DEF File, Stays
  <2> HIDE DEF name, v
  <2>4. Len(files[name]) \in Nat
    BY <2>2, FilesFacts
  <2>5. v \in 1 .. Len(files[name])
    BY <2>1, <2>4
  <2>6. /\ Len(files'[name]) \in Nat /\ Len(files'[name]) >= Len(files[name])
        /\ files'[name][v] = files[name][v]
    BY <2>2, <2>5 DEF Stays, FilesKept
  <2>7. v \in a.begun[name] .. Len(files'[name])
    BY <2>1, <2>4, <2>6
  <2> QED
    BY <2>3, <2>6, <2>7 DEF name, v
<1>2. \A n \in DOMAIN a.scans : ColumnsOf(a, n)' = ColumnsOf(a, n)
  BY DEF ColumnsOf, Stays
<1>3. Fresh(a)'
  BY <1>1 DEF Fresh, Stays
<1>4. \A n \in DOMAIN a.scans : Whole(a, n) => Whole(a, n)'
  BY <1>1, <1>2 DEF Whole
<1>5. Succeeds(a)' <=> Succeeds(a)
  BY <1>1, <1>2 DEF Succeeds, Stays
<1> QED
  BY <1>1, <1>2, <1>3, <1>4, <1>5

LEMMA AfterStays ==
    ASSUME input' = input, NEW a, NEW b, After(b, a)
    PROVE  After(b, a)'
BY DEF After

-----------------------------------------------------------------------------
(* The answers given so far, of which no step but an answer has a new one. *)
AnswersFresh == \A a \in ToSet(out) : Fresh(a) /\ \A b \in ToSet(out) : a.line < b.line => After(b, a)

AnswersWhole == \A a \in ToSet(out) : /\ a.kind = "table" <=> Succeeds(a)
                                      /\ a.kind = "table" => \A n \in DOMAIN a.scans : Whole(a, n)

RunningFresh == Fresh(Running) /\ \A a \in ToSet(out) : After(Running, a)

LEMMA BegunStays ==
    ASSUME SessionTypes, BegunBefore, Stays, begun' = begun
    PROVE  BegunBefore'
<1>1. ASSUME NEW name \in Names PROVE begun[name] <= Len(files'[name])
  <2>1. begun[name] <= Len(files[name]) /\ begun[name] \in Nat
    BY DEF BegunBefore
  <2>2. Len(files[name]) \in Nat /\ Len(files'[name]) \in Nat /\ Len(files'[name]) >= Len(files[name])
    BY FilesFacts DEF Stays, FilesKept
  <2> QED
    BY <2>1, <2>2
<1> QED
  BY <1>1 DEF BegunBefore

LEMMA AnswersStay ==
    ASSUME IInv, Stays, out' = out
    PROVE  AnswersFresh' /\ AnswersWhole'
<1>1. CatalogInv /\ SessionTypes /\ AnswersFresh /\ AnswersWhole
  BY DEF IInv, Freshness, ScansAreWhole, AnswersFresh, AnswersWhole
<1>2. ASSUME NEW a \in ToSet(out)
      PROVE  /\ Fresh(a)'
             /\ \A n \in DOMAIN a.scans : Whole(a, n) => Whole(a, n)'
             /\ Succeeds(a)' <=> Succeeds(a)
  BY <1>1, ReadsStay DEF AnswersFresh
<1>3. \A a, b \in ToSet(out) : a.line < b.line => After(b, a)'
  BY <1>1, AfterStays DEF AnswersFresh, Stays
<1>4. ToSet(out') = ToSet(out)
  BY DEF ToSet
<1>5. AnswersFresh'
  BY <1>2, <1>3, <1>4 DEF AnswersFresh
<1>6. AnswersWhole'
  BY <1>1, <1>2, <1>4 DEF AnswersWhole
<1> QED
  BY <1>5, <1>6

(* The running statement's reads stay what they were, too. *)
LEMMA RunningStays ==
    ASSUME IInv, Stays, UNCHANGED <<k, begun, scans, out>>, pc \in {"planning", "scanning"}
    PROVE  /\ RunningFresh'
           /\ \A n \in DOMAIN scans : Whole(Running, n) => Whole(Running, n)'
           /\ \A n \in DOMAIN scans : /\ File(Running, n)' = File(Running, n)
                                      /\ ColumnsOf(Running, n)' = ColumnsOf(Running, n)
<1>1. PICK r : r = Running
  OBVIOUS
<1>2. Running' = r /\ r.scans = scans
  BY <1>1 DEF Running
<1>3. CatalogInv /\ SessionTypes /\ Fresh(r) /\ \A a \in ToSet(out) : After(r, a)
  BY <1>1 DEF IInv, Freshness
<1>4. /\ Fresh(r)'
      /\ \A n \in DOMAIN r.scans : /\ File(r, n)' = File(r, n)
                                   /\ ColumnsOf(r, n)' = ColumnsOf(r, n)
      /\ \A n \in DOMAIN r.scans : Whole(r, n) => Whole(r, n)'
  BY <1>3, ReadsStay
<1>5. \A a \in ToSet(out) : After(r, a)'
  BY <1>3, AfterStays DEF Stays
<1>6. RunningFresh'
  <2>1. ToSet(out') = ToSet(out)
    BY DEF ToSet
  <2>2. Fresh(Running)'
    BY <1>2, <1>4 DEF Fresh
  <2>3. \A a \in ToSet(out) : After(Running, a)'
    BY <1>2, <1>5 DEF After
  <2> QED
    BY <2>1, <2>2, <2>3 DEF RunningFresh
<1>7. ASSUME NEW n \in DOMAIN scans
      PROVE  /\ File(Running, n)' = File(Running, n)
             /\ ColumnsOf(Running, n)' = ColumnsOf(Running, n)
             /\ Whole(Running, n) => Whole(Running, n)'
  <2>1. n \in DOMAIN r.scans
    BY <1>2
  <2>2. File(Running, n)' = File(r, n)' /\ ColumnsOf(Running, n)' = ColumnsOf(r, n)'
    BY <1>2 DEF File, ColumnsOf
  <2>3. Whole(Running, n)' <=> Whole(r, n)'
    BY <1>2, <2>2 DEF Whole
  <2> QED
    BY <1>1, <1>4, <2>1, <2>2, <2>3
<1> QED
  BY <1>6, <1>7

(* Where the answers' lines are. *)
LEMMA AnswerLines ==
    ASSUME SessionTypes, AnswersFollowTheLines
    PROVE  /\ Len(out) \in Nat /\ DOMAIN out = 1 .. Len(out)
           /\ \A n \in 1 .. Len(out) : out[n].line \in 1 .. k - 1
           /\ \A a \in ToSet(out) : a.line \in 1 .. k - 1 /\ a.line \in 1 .. Len(input)
                                   /\ input[a.line].form \in {"garbage", "select"}
<1>1. Len(out) \in Nat /\ DOMAIN out = 1 .. Len(out)
  <2> DEFINE S == ToSet(out)
  <2>1. out \in Seq(S)
    BY DEF SessionTypes
  <2> HIDE DEF S
  <2> QED
    BY <2>1, SeqElements
<1>2. \A n \in 1 .. Len(out) : out[n].line \in Answered
  BY <1>1 DEF AnswersFollowTheLines
<1>3. \A n \in Answered : n \in 1 .. k - 1 /\ n \in 1 .. Len(input) /\ input[n].form \in {"garbage", "select"}
  BY StatementFacts DEF Answered, SessionTypes
<1>4. \A a \in ToSet(out) : \E n \in 1 .. Len(out) : a = out[n]
  BY <1>1 DEF ToSet
<1> QED
  BY <1>1, <1>2, <1>3, <1>4

-----------------------------------------------------------------------------
(* The steps that give no answer. *)
LEMMA LinesStay ==
    AnswersFollowTheLines /\ UNCHANGED <<out, k, input>> => AnswersFollowTheLines'
BY DEF AnswersFollowTheLines, Answered

LEMMA InitIInv == Init => IInv
<1> SUFFICES ASSUME Init PROVE IInv
  OBVIOUS
<1>1. CatalogInv
  BY InitCatalog DEF Init
<1>2. /\ out = <<>> /\ scans = <<>> /\ k = 1 /\ pc = "schema" /\ schema = "loading"
      /\ input \in Sessions /\ begun = Versions
      /\ ToSet(out) = {} /\ DOMAIN out = {} /\ out \in Seq(ToSet(out))
      /\ DOMAIN scans = {} /\ scans \in Seq(ToSet(scans))
  BY EmptySeq DEF Init, InitSchema, ToSet
<1>3. Phases
  BY <1>2 DEF Phases
<1>4. ASSUME NEW name \in Names
      PROVE  files[name] \in Seq(Contents) /\ files[name] # <<>> /\ Len(files[name]) = 1
  <2>1. PICK content \in Contents : files[name] = <<content>>
    BY DEF Init
  <2> QED
    BY <2>1
<1>5. SessionTypes
  <2>1. Len(input) \in Nat
    BY <1>2, SessionsAssumption, SeqElements
  <2> QED
    BY <1>2, <1>4, <2>1 DEF SessionTypes, Init
<1>6. AnswersFollowTheLines
  <2>1. Answered = {}
    BY <1>2 DEF Answered
  <2> QED
    BY <1>2, <2>1 DEF AnswersFollowTheLines
<1>7. Freshness
  BY <1>2, <1>4 DEF Freshness, BegunBefore, Versions
<1>8. ScansAreWhole
  BY <1>2 DEF ScansAreWhole
<1> QED
  BY <1>1, <1>3, <1>5, <1>6, <1>7, <1>8 DEF IInv

LEMMA SchemaIInv == IInv /\ Schema => IInv'
<1> SUFFICES ASSUME IInv, Schema PROVE IInv'
  OBVIOUS
<1>1. CatalogInv'
  BY LoadSchemaCatalog DEF IInv, Schema
<1>2. /\ pc = "schema" /\ schema = "loading" /\ out = <<>>
      /\ input' = input /\ k' = k /\ scans' = scans /\ begun' = begun /\ out' = out /\ files' = files
  BY DEF IInv, Phases, Schema, At, sessionVars
<1>3. /\ schema' = "loading" => pc' = "schema"
      /\ schema' = "loaded" => pc' = "ready"
      /\ schema' = "failed" => pc' = "exited"
      /\ schema' \in {"loading", "loaded", "failed"}
  BY <1>1 DEF CatalogInv, Schema
<1>4. Phases'
  BY <1>2, <1>3 DEF Phases
<1>5. SessionTypes'
  BY <1>2 DEF IInv, SessionTypes
<1>6. AnswersFollowTheLines'
  BY <1>2, LinesStay DEF IInv
<1>7. ToSet(out') = {} /\ pc' \notin {"planning", "scanning"}
  BY <1>2, <1>3 DEF ToSet
<1>8. Freshness'
  BY <1>2, <1>7 DEF IInv, Freshness, BegunBefore
<1>9. ScansAreWhole'
  BY <1>7 DEF ScansAreWhole
<1> QED
  BY <1>1, <1>4, <1>5, <1>6, <1>8, <1>9 DEF IInv

LEMMA SkipBlankIInv == IInv /\ SkipBlank => IInv'
<1> SUFFICES ASSUME IInv, SkipBlank PROVE IInv'
  OBVIOUS
<1>1. /\ pc = "ready" /\ pc' = "ready" /\ k <= Len(input) /\ input[k].form = "blank" /\ k' = k + 1
      /\ UNCHANGED <<catalogVars, input, scans, begun, out, files>>
  BY DEF SkipBlank, Has, At, Statement
<1>2. CatalogInv' /\ Stays
  BY <1>1, CatalogStays, FilesUnchanged DEF IInv, catalogVars
<1>3. Len(input) \in Nat /\ k \in Nat /\ k >= 1 /\ k' \in 1 .. Len(input) + 1
  BY <1>1, StatementFacts DEF IInv
<1>4. Phases'
  BY <1>1 DEF IInv, Phases, catalogVars
<1>5. SessionTypes'
  BY <1>1, <1>3 DEF IInv, SessionTypes
<1>6. AnswersFollowTheLines'
  <2>1. Answered' = Answered
    <3>1. \A n : n \in 1 .. k' - 1 <=> n \in 1 .. k - 1 \/ n = k
      BY <1>1, <1>3
    <3> QED
      BY <1>1, <3>1 DEF Answered
  <2> QED
    BY <1>1, <2>1 DEF IInv, AnswersFollowTheLines
<1>7. AnswersFresh' /\ AnswersWhole'
  BY <1>1, <1>2, AnswersStay
<1>8. Freshness'
  BY <1>1, <1>2, <1>7, BegunStays DEF IInv, Freshness, AnswersFresh
<1>9. ScansAreWhole'
  BY <1>1, <1>7 DEF ScansAreWhole, AnswersWhole
<1> QED
  BY <1>2, <1>4, <1>5, <1>6, <1>8, <1>9 DEF IInv

LEMMA EndOfLinesIInv == IInv /\ EndOfLines => IInv'
<1> SUFFICES ASSUME IInv, EndOfLines PROVE IInv'
  OBVIOUS
<1>1. /\ pc = "ready" /\ pc' = "ended"
      /\ UNCHANGED <<catalogVars, input, k, scans, begun, out, files>>
  BY DEF EndOfLines, At, sessionVars
<1>2. CatalogInv' /\ Stays
  BY <1>1, CatalogStays, FilesUnchanged DEF IInv, catalogVars
<1>3. Phases'
  BY <1>1 DEF IInv, Phases, catalogVars
<1>4. SessionTypes' /\ AnswersFollowTheLines'
  BY <1>1, LinesStay DEF IInv, SessionTypes
<1>5. AnswersFresh' /\ AnswersWhole'
  BY <1>1, <1>2, AnswersStay
<1>6. Freshness'
  BY <1>1, <1>2, <1>5, BegunStays DEF IInv, Freshness, AnswersFresh
<1>7. ScansAreWhole'
  BY <1>1, <1>5 DEF ScansAreWhole, AnswersWhole
<1> QED
  BY <1>2, <1>3, <1>4, <1>6, <1>7 DEF IInv

(* A statement begins when all files have their current version. *)
LEMMA BeginIInv == IInv /\ Begin => IInv'
<1> SUFFICES ASSUME IInv, Begin PROVE IInv'
  OBVIOUS
<1>1. /\ pc = "ready" /\ pc' = "planning" /\ k <= Len(input) /\ input[k].form \in {"garbage", "select"}
      /\ scans' = <<>> /\ begun' = Versions
      /\ UNCHANGED <<catalogVars, input, k, out, files>>
  BY DEF Begin, Has, At, Statement
<1>2. CatalogInv' /\ Stays /\ CatalogInv /\ SessionTypes
  BY <1>1, CatalogStays, FilesUnchanged DEF IInv, catalogVars
<1>3. Phases'
  BY <1>1 DEF IInv, Phases, catalogVars, Statement
<1>4. scans' \in Seq(ToSet(scans')) /\ DOMAIN scans' = {} /\ Len(scans') = 0
  BY <1>1, EmptySeq
<1>5. SessionTypes' /\ AnswersFollowTheLines'
  BY <1>1, <1>4, LinesStay DEF IInv, SessionTypes
<1>6. AnswersFresh' /\ AnswersWhole'
  BY <1>1, <1>2, AnswersStay
<1>7. BegunBefore'
  <2>1. \A name \in Names : Len(files[name]) \in Nat
    BY <1>2, FilesFacts
  <2> QED
    BY <1>1, <2>1 DEF Versions, BegunBefore
<1>8. Fresh(Running)'
  <2>1. Running.line' = k /\ Running.scans' = <<>>
    BY <1>1 DEF Running
  <2>2. 0 <= Len(input[k].tables)
    <3>1. k \in 1 .. Len(input)
      BY <1>1, <1>2, StatementFacts
    <3> QED
      BY <1>2, <3>1, StatementFacts
  <2> QED
    BY <1>1, <1>4, <2>1, <2>2 DEF Fresh
<1>9. ASSUME NEW a \in ToSet(out) PROVE After(Running, a)'
  <2>1. Fresh(a)
    BY DEF IInv, Freshness
  <2>2. Running.begun' = Versions
    BY <1>1 DEF Running
  <2>3. ASSUME NEW n \in DOMAIN a.scans
        PROVE  a.scans[n].version <= Versions[input[a.line].tables[n]]
    <3> DEFINE name == input[a.line].tables[n]
    <3>1. /\ name \in DOMAIN cat /\ a.begun[name] \in Nat
          /\ a.scans[n].version \in a.begun[name] .. Len(files[name])
      BY <2>1 DEF Fresh
    <3>2. name \in Names
      BY <1>2, <3>1, CatalogFacts
    <3> HIDE DEF name
    <3>3. Versions[name] = Len(files[name])
      BY <3>2 DEF Versions
    <3>4. Len(files[name]) \in Nat
      BY <1>2, <3>2, FilesFacts
    <3>5. a.scans[n].version <= Versions[name]
      BY <3>1, <3>3, <3>4
    <3> QED
      BY <3>5 DEF name
  <2> QED
    BY <1>1, <2>2, <2>3 DEF After
<1>10. Freshness'
  BY <1>1, <1>6, <1>7, <1>8, <1>9 DEF Freshness, AnswersFresh, ToSet
<1>11. ScansAreWhole'
  BY <1>1, <1>4, <1>6 DEF ScansAreWhole, AnswersWhole
<1> QED
  BY <1>2, <1>3, <1>5, <1>10, <1>11 DEF IInv

-----------------------------------------------------------------------------
(* An answer, of the kind that the statement's reads call for. *)
LEMMA AnswerIInv ==
    ASSUME IInv, pc \in {"planning", "scanning"},
           NEW kind, Answer(kind),
           kind = "table" <=> Succeeds(Running),
           kind = "table" => \A n \in DOMAIN scans : Whole(Running, n)
    PROVE  IInv'
<1>1. PICK r : r = [line |-> k, kind |-> kind, begun |-> begun, scans |-> scans]
  OBVIOUS
<1>2. /\ out' = Append(out, r) /\ k' = k + 1 /\ pc' = "ready"
      /\ UNCHANGED <<catalogVars, input, scans, begun, files>>
      /\ r.line = k /\ r.kind = kind /\ r.begun = begun /\ r.scans = scans
  BY <1>1 DEF Answer
<1>3. /\ CatalogInv /\ SessionTypes /\ CatalogInv' /\ Stays
      /\ AnswersFollowTheLines /\ AnswersFresh /\ AnswersWhole /\ RunningFresh
  BY <1>2, CatalogStays, FilesUnchanged
     DEF IInv, Freshness, ScansAreWhole, AnswersFresh, AnswersWhole, RunningFresh, catalogVars
<1>4. /\ Len(input) \in Nat /\ k \in Nat /\ k >= 1 /\ k <= Len(input)
      /\ input[k].form \in {"garbage", "select"}
  BY <1>3, StatementFacts DEF IInv, Phases, Statement
<1>5. /\ out' \in Seq(ToSet(out')) /\ ToSet(out') = ToSet(out) \cup {r}
      /\ DOMAIN out = 1 .. Len(out) /\ Len(out) \in Nat
      /\ DOMAIN out' = 1 .. Len(out) + 1
      /\ \A n \in 1 .. Len(out) : out'[n] = out[n]
      /\ out'[Len(out) + 1] = r
  BY <1>2, <1>3, AppendElements DEF SessionTypes
<1>6. Phases'
  BY <1>2 DEF IInv, Phases, catalogVars
<1>7. SessionTypes'
  BY <1>2, <1>3, <1>4, <1>5 DEF SessionTypes
<1>8. /\ \A n \in 1 .. Len(out) : out[n].line \in 1 .. k - 1
      /\ \A a \in ToSet(out) : a.line \in 1 .. k - 1
  BY <1>3, AnswerLines
<1>9. AnswersFollowTheLines'
  <2>1. Answered' = Answered \cup {k}
    <3>1. \A n : n \in 1 .. k' - 1 <=> n \in 1 .. k - 1 \/ n = k
      BY <1>2, <1>4
    <3> QED
      BY <1>2, <1>4, <3>1 DEF Answered
  <2>2. {out'[n].line : n \in DOMAIN out'} = {out[n].line : n \in DOMAIN out} \cup {k}
    <3>1. \A n : n \in DOMAIN out' <=> n \in DOMAIN out \/ n = Len(out) + 1
      BY <1>5
    <3> QED
      BY <1>2, <1>5, <3>1
  <2>3. ASSUME NEW m \in DOMAIN out', NEW n \in DOMAIN out', m < n
        PROVE  out'[m].line < out'[n].line
    <3>1. m \in 1 .. Len(out)
      BY <1>5, <2>3
    <3>2. CASE n \in 1 .. Len(out)
      BY <1>3, <1>5, <2>3, <3>1, <3>2 DEF AnswersFollowTheLines
    <3>3. CASE n = Len(out) + 1
      BY <1>2, <1>4, <1>5, <1>8, <3>1, <3>3
    <3> QED
      BY <1>5, <3>2, <3>3
  <2> QED
    BY <1>3, <2>1, <2>2, <2>3 DEF AnswersFollowTheLines
<1>10. ASSUME NEW a \in ToSet(out')
       PROVE  Fresh(a) /\ Fresh(a)' /\ (Succeeds(a)' <=> Succeeds(a))
              /\ \A n \in DOMAIN a.scans : Whole(a, n) => Whole(a, n)'
  <2>1. Fresh(a)
    <3>1. CASE a \in ToSet(out)
      BY <1>3, <3>1 DEF AnswersFresh
    <3>2. CASE a = r
      BY <1>2, <1>3, <3>2 DEF RunningFresh, Fresh, Running
    <3> QED
      BY <1>5, <3>1, <3>2
  <2> QED
    BY <1>3, <2>1, ReadsStay
<1>11. ASSUME NEW a \in ToSet(out'), NEW b \in ToSet(out'), a.line < b.line
       PROVE  After(b, a)'
  <2>1. a \in ToSet(out)
    <3>1. b.line <= k
      BY <1>2, <1>4, <1>5, <1>8
    <3>2. a # r
      BY <1>2, <1>4, <1>5, <1>8, <1>11, <3>1
    <3> QED
      BY <1>5, <3>2
  <2>2. After(b, a)
    <3>1. CASE b \in ToSet(out)
      BY <1>3, <1>11, <2>1, <3>1 DEF AnswersFresh
    <3>2. CASE b = r
      BY <1>2, <1>3, <2>1, <3>2 DEF RunningFresh, After, Running
    <3> QED
      BY <1>5, <3>1, <3>2
  <2> QED
    BY <1>2, <2>2, AfterStays
<1>12. Freshness'
  BY <1>2, <1>3, <1>10, <1>11, BegunStays DEF IInv, Freshness
<1>13. ASSUME NEW a \in ToSet(out')
       PROVE  /\ a.kind = "table" <=> Succeeds(a)
              /\ a.kind = "table" => \A n \in DOMAIN a.scans : Whole(a, n)
  <2>1. CASE a \in ToSet(out)
    BY <1>3, <2>1 DEF AnswersWhole
  <2>2. CASE a = r
    <3>1. /\ Running.line = r.line /\ Running.scans = r.scans
      BY <1>2 DEF Running
    <3>2. \A n : File(r, n) = File(Running, n) /\ ColumnsOf(r, n) = ColumnsOf(Running, n)
      BY <3>1 DEF File, ColumnsOf
    <3>3. Succeeds(r) <=> Succeeds(Running)
      BY <3>1, <3>2 DEF Succeeds
    <3>4. \A n : Whole(r, n) <=> Whole(Running, n)
      BY <3>1, <3>2 DEF Whole
    <3> QED
      BY <1>2, <2>2, <3>3, <3>4
  <2> QED
    BY <1>5, <2>1, <2>2
<1>14. ScansAreWhole'
  BY <1>2, <1>10, <1>13 DEF ScansAreWhole
<1> QED
  BY <1>3, <1>6, <1>7, <1>9, <1>12, <1>14 DEF IInv

(* What the invariant says of the running statement. *)
LEMMA RunningFacts ==
    ASSUME IInv, pc \in {"planning", "scanning"}
    PROVE  /\ CatalogInv /\ SessionTypes /\ RunningFresh
           /\ k \in 1 .. Len(input) /\ Len(input) \in Nat
           /\ Len(Statement.tables) \in Nat
           /\ DOMAIN Statement.tables = 1 .. Len(Statement.tables)
           /\ Statement.accepted \in BOOLEAN
           /\ Len(scans) \in Nat /\ DOMAIN scans = 1 .. Len(scans)
           /\ Len(scans) <= Len(Statement.tables)
           /\ Running.line = k /\ Running.scans = scans /\ Running.begun = begun
<1>1. CatalogInv /\ SessionTypes /\ RunningFresh
  BY DEF IInv, Freshness, RunningFresh
<1>2. Running.line = k /\ Running.scans = scans /\ Running.begun = begun
  BY DEF Running
<1>3. k \in 1 .. Len(input) /\ Len(input) \in Nat
  BY <1>1, StatementFacts DEF IInv, Phases
<1>4. /\ Len(Statement.tables) \in Nat /\ DOMAIN Statement.tables = 1 .. Len(Statement.tables)
      /\ Statement.accepted \in BOOLEAN
  BY <1>1, <1>3, StatementFacts DEF Statement
<1>5. Len(scans) \in Nat /\ DOMAIN scans = 1 .. Len(scans)
  <2> DEFINE S == ToSet(scans)
  <2>1. scans \in Seq(S)
    BY <1>1 DEF SessionTypes
  <2> HIDE DEF S
  <2> QED
    BY <2>1, SeqElements
<1>6. Len(scans) <= Len(Statement.tables)
  BY <1>1, <1>2 DEF RunningFresh, Fresh, Statement
<1> QED
  BY <1>1, <1>2, <1>3, <1>4, <1>5, <1>6

LEMMA RefuseIInv == IInv /\ Refuse => IInv'
<1> SUFFICES ASSUME IInv, Refuse PROVE IInv'
  OBVIOUS
<1>1. pc = "planning" /\ input[k].form = "garbage" /\ Answer("error")
  BY DEF Refuse, At, Statement
<1>2. ~Succeeds(Running)
  BY <1>1, RunningFacts DEF Succeeds
<1> QED
  BY <1>1, <1>2, AnswerIInv

LEMMA UnknownTableIInv == IInv /\ UnknownTable => IInv'
<1> SUFFICES ASSUME IInv, UnknownTable PROVE IInv'
  OBVIOUS
<1>1. /\ pc = "planning" /\ Answer("error") /\ Len(scans) < Len(input[k].tables)
      /\ input[k].tables[Len(scans) + 1] \notin DOMAIN cat
  BY DEF UnknownTable, Planning, At, Statement, Name
<1>2. /\ Len(scans) + 1 \in DOMAIN input[k].tables /\ Running.line = k
  BY <1>1, RunningFacts DEF Statement
<1>3. ~Succeeds(Running)
  BY <1>1, <1>2 DEF Succeeds, ToSet
<1> QED
  BY <1>1, <1>3, AnswerIInv

LEMMA UnreadableIInv == IInv /\ Unreadable => IInv'
<1> SUFFICES ASSUME IInv, Unreadable PROVE IInv'
  OBVIOUS
<1>1. pc = "scanning" /\ read = "failed" /\ Answer("error")
  BY DEF Unreadable, At
<1>2. ~Reads(File(Running, Len(scans)), ColumnsOf(Running, Len(scans)))
  BY <1>1 DEF IInv, ScansAreWhole, Underway
<1>3. Len(scans) \in DOMAIN scans /\ Running.scans = scans
  <2>1. scans # <<>> /\ Len(scans) \in Nat /\ DOMAIN scans = 1 .. Len(scans) /\ scans \in Seq(ToSet(scans))
    BY <1>1, RunningFacts DEF IInv, Phases, SessionTypes
  <2>2. Len(scans) # 0
    BY <2>1, EmptySeq
  <2> QED
    BY <1>1, <2>1, <2>2, RunningFacts
<1>4. ~Succeeds(Running)
  BY <1>2, <1>3 DEF Succeeds
<1> QED
  BY <1>1, <1>4, AnswerIInv

LEMMA FinishIInv == IInv /\ Finish => IInv'
<1> SUFFICES ASSUME IInv, Finish PROVE IInv'
  OBVIOUS
<1> DEFINE kind == IF Statement.accepted THEN "table" ELSE "error"
<1>1. /\ pc = "planning" /\ Statement.form = "select" /\ Len(scans) = Len(Statement.tables)
      /\ Answer(kind)
  BY DEF Finish, Planning, At
<1>2. \A n \in DOMAIN scans : Whole(Running, n)
  BY <1>1 DEF IInv, ScansAreWhole
<1>3. ToSet(Statement.tables) \subseteq DOMAIN cat
  <2>1. \A n \in DOMAIN scans : Statement.tables[n] \in DOMAIN cat
    BY <1>1, RunningFacts DEF RunningFresh, Fresh, Statement
  <2> QED
    BY <1>1, <2>1, RunningFacts DEF ToSet
<1>4. \A n \in DOMAIN scans : Reads(File(Running, n), ColumnsOf(Running, n))
  BY <1>2 DEF Whole
<1>5. Succeeds(Running) <=> Statement.accepted
  BY <1>1, <1>3, <1>4, RunningFacts DEF Succeeds, Statement
<1>6. kind = "table" <=> Succeeds(Running)
  BY <1>1, <1>5, RunningFacts
<1> HIDE DEF kind
<1> QED
  BY <1>1, <1>2, <1>6, AnswerIInv

-----------------------------------------------------------------------------
(* The reads of the running statement. *)
LEMMA ScanTableIInv == IInv /\ ScanTable => IInv'
<1> SUFFICES ASSUME IInv, ScanTable PROVE IInv'
  OBVIOUS
<1>1. PICK name : name = Name
  OBVIOUS
<1>2. PICK e : e = [version |-> Current(name), rows |-> <<>>]
  OBVIOUS
<1>3. PICK file : file = files[name][Current(name)]
  OBVIOUS
<1>4. PICK columns : columns = cat[name]
  OBVIOUS
<1>5. /\ pc = "planning" /\ pc' = "scanning" /\ Statement.form = "select"
      /\ Len(scans) < Len(Statement.tables)
      /\ name = input[k].tables[Len(scans) + 1] /\ name \in DOMAIN cat
      /\ scans' = Append(scans, e)
      /\ UNCHANGED <<catalogVars, input, k, begun, out, files>>
      /\ e.version = Current(name)
  BY <1>1, <1>2 DEF ScanTable, Planning, At, Name, Statement
<1>6. Open(file, columns)
  BY <1>1, <1>3, <1>4 DEF ScanTable, Open
<1>7. /\ CatalogInv /\ SessionTypes /\ CatalogInv' /\ Stays /\ RunningFresh /\ BegunBefore
      /\ k \in 1 .. Len(input) /\ Len(input) \in Nat
      /\ Len(scans) \in Nat /\ DOMAIN scans = 1 .. Len(scans)
      /\ Len(input[k].tables) \in Nat
  BY <1>5, CatalogStays, FilesUnchanged, RunningFacts DEF IInv, Freshness, catalogVars, Statement
<1>8. /\ name \in Names /\ GoodColumns(columns)
      /\ Current(name) = Len(files[name]) /\ Current(name) \in Nat /\ Current(name) >= 1
      /\ begun[name] \in Nat /\ begun[name] <= Current(name)
      /\ GoodFile(file)
  <2>1. name \in Names /\ GoodColumns(columns)
    BY <1>4, <1>5, <1>7, CatalogFacts DEF GoodColumns
  <2>2. Current(name) = Len(files[name])
    BY <2>1 DEF Current, Versions
  <2>3. Current(name) \in Nat /\ Current(name) >= 1 /\ Current(name) \in 1 .. Len(files[name])
    BY <1>7, <2>1, <2>2, FilesFacts
  <2>4. GoodFile(file)
    BY <1>3, <1>7, <2>1, <2>3, FilesFacts
  <2>5. begun[name] \in Nat /\ begun[name] <= Current(name)
    BY <1>7, <2>1, <2>2 DEF BegunBefore
  <2> QED
    BY <2>1, <2>2, <2>3, <2>4, <2>5
<1>9. /\ scans' \in Seq(ToSet(scans')) /\ scans' # <<>>
      /\ Len(scans') = Len(scans) + 1 /\ DOMAIN scans' = 1 .. Len(scans) + 1
      /\ \A n \in 1 .. Len(scans) : scans'[n] = scans[n]
      /\ scans'[Len(scans) + 1] = e
  BY <1>5, <1>7, AppendElements DEF SessionTypes
<1>10. Phases'
  BY <1>5, <1>9 DEF IInv, Phases, Statement, catalogVars
<1>11. SessionTypes' /\ AnswersFollowTheLines'
  <2>1. \A n \in DOMAIN scans' : DOMAIN scans'[n] = {"version", "rows"}
    BY <1>2, <1>7, <1>9 DEF SessionTypes
  <2> QED
    BY <1>5, <1>9, <2>1, LinesStay DEF IInv, SessionTypes
<1>12. AnswersFresh' /\ AnswersWhole'
  BY <1>5, <1>7, AnswersStay
<1>13. Running'.line = k /\ Running'.scans = scans' /\ Running'.begun = begun
  BY <1>5 DEF Running
<1>14. Fresh(Running)'
  <2>1. ASSUME NEW n \in DOMAIN scans'
        PROVE  LET t == input[k].tables[n]
               IN  /\ t \in DOMAIN cat
                   /\ begun[t] \in Nat
                   /\ scans'[n].version \in begun[t] .. Len(files[t])
                   /\ scans'[n].version >= 1
    <3>1. CASE n \in 1 .. Len(scans)
      <4>1. n \in DOMAIN Running.scans /\ scans'[n] = Running.scans[n]
            /\ Running.line = k /\ Running.begun = begun
        BY <1>5, <1>7, <1>9, <3>1, RunningFacts
      <4> QED
        BY <1>7, <4>1 DEF RunningFresh, Fresh
    <3>2. CASE n = Len(scans) + 1
      BY <1>5, <1>8, <1>9, <3>2
    <3> QED
      BY <1>7, <1>9, <3>1, <3>2
  <2>2. Len(scans') <= Len(input[k].tables)
    BY <1>5, <1>7, <1>9 DEF Statement
  <2> QED
    BY <1>5, <1>13, <2>1, <2>2 DEF Fresh, catalogVars
<1>15. \A a \in ToSet(out) : After(Running, a)'
  BY <1>5, <1>7, <1>13, RunningFacts DEF RunningFresh, After
<1>16. Freshness'
  BY <1>5, <1>7, <1>12, <1>14, <1>15, BegunStays DEF Freshness, AnswersFresh, ToSet
<1>17. ASSUME NEW n \in 1 .. Len(scans) PROVE Whole(Running, n)'
  <2>1. PICK r : r = Running
    OBVIOUS
  <2>2. /\ Fresh(r) /\ Whole(r, n) /\ n \in DOMAIN r.scans
        /\ r.line = k /\ r.scans = scans
    BY <1>5, <1>7, <2>1, RunningFacts DEF IInv, ScansAreWhole, RunningFresh
  <2>3. Whole(r, n)'
    BY <1>7, <2>2, ReadsStay
  <2>4. File(Running, n)' = File(r, n)' /\ ColumnsOf(Running, n)' = ColumnsOf(r, n)'
        /\ Running'.scans[n] = r.scans[n]
    BY <1>5, <1>9, <1>13, <2>2 DEF File, ColumnsOf
  <2> QED
    BY <2>3, <2>4 DEF Whole
<1>18. Underway(file, columns)'
  BY <1>6, <1>8, OpenUnderway
<1>19. File(Running, Len(scans))' = file /\ ColumnsOf(Running, Len(scans))' = columns
  BY <1>3, <1>4, <1>5, <1>9, <1>13 DEF File, ColumnsOf, catalogVars
<1>20. Underway(File(Running, Len(scans)), ColumnsOf(Running, Len(scans)))'
  BY <1>18, <1>19 DEF Underway
<1>21. ScansAreWhole'
  <2>1. Len(scans') - 1 = Len(scans)
    BY <1>7, <1>9
  <2> QED
    BY <1>5, <1>12, <1>17, <1>20, <2>1 DEF ScansAreWhole, AnswersWhole
<1> QED
  BY <1>7, <1>10, <1>11, <1>16, <1>21 DEF IInv

LEMMA ReadStepIInv == IInv /\ ReadStep => IInv'
<1> SUFFICES ASSUME IInv, ReadStep PROVE IInv'
  OBVIOUS
<1> DEFINE n == Len(scans)
<1>1. /\ pc = "scanning" /\ pc' = pc /\ Read
      /\ UNCHANGED <<catalogVars, input, k, scans, begun, out, files>>
  BY DEF ReadStep, At, sessionVars
<1>2. CatalogInv /\ SessionTypes /\ CatalogInv' /\ Stays /\ BegunBefore
  BY <1>1, CatalogStays, FilesUnchanged DEF IInv, Freshness, catalogVars
<1>3. Phases'
  BY <1>1 DEF IInv, Phases, Statement, catalogVars
<1>4. SessionTypes' /\ AnswersFollowTheLines'
  BY <1>1, LinesStay DEF IInv, SessionTypes
<1>5. /\ AnswersFresh' /\ AnswersWhole' /\ RunningFresh'
      /\ \A m \in DOMAIN scans : Whole(Running, m) => Whole(Running, m)'
      /\ \A m \in DOMAIN scans : /\ File(Running, m)' = File(Running, m)
                                 /\ ColumnsOf(Running, m)' = ColumnsOf(Running, m)
  BY <1>1, <1>2, AnswersStay, RunningStays
<1>6. Freshness'
  BY <1>1, <1>2, <1>5, BegunStays DEF Freshness, AnswersFresh, RunningFresh
<1>7. /\ n \in DOMAIN scans /\ DOMAIN scans = 1 .. n /\ n \in Nat
      /\ Running.scans = scans /\ RunningFresh
  <2>1. n \in Nat /\ DOMAIN scans = 1 .. n /\ Running.scans = scans /\ RunningFresh
    BY <1>1, RunningFacts
  <2>2. scans # <<>> /\ scans \in Seq(ToSet(scans))
    BY <1>1 DEF IInv, Phases, SessionTypes
  <2>3. n # 0
    BY <2>2, EmptySeq
  <2> QED
    BY <2>1, <2>3
<1>8. PICK file : file = File(Running, n)
  OBVIOUS
<1>9. PICK columns : columns = ColumnsOf(Running, n)
  OBVIOUS
<1>10. GoodFile(file) /\ GoodColumns(columns)
  BY <1>2, <1>7, <1>8, <1>9, ReadArguments DEF RunningFresh
<1>11. Underway(file, columns)
  BY <1>1, <1>8, <1>9 DEF IInv, ScansAreWhole
<1>12. Underway(file, columns)'
  BY <1>1, <1>10, <1>11, ReadUnderway
<1>13. Underway(File(Running, n), ColumnsOf(Running, n))'
  <2>1. File(Running, n)' = file /\ ColumnsOf(Running, n)' = columns
    BY <1>1, <1>5, <1>7, <1>8, <1>9 DEF File, ColumnsOf, Running, catalogVars
  <2> QED
    BY <1>12, <2>1 DEF Underway
<1>14. ScansAreWhole'
  <2>1. \A m \in 1 .. n - 1 : Whole(Running, m)'
    <3>1. \A m \in 1 .. n - 1 : m \in DOMAIN scans /\ Whole(Running, m)
      BY <1>1, <1>7 DEF IInv, ScansAreWhole
    <3> QED
      BY <1>5, <3>1
  <2> QED
    BY <1>1, <1>5, <1>13, <2>1 DEF ScansAreWhole, AnswersWhole
<1> QED
  BY <1>2, <1>3, <1>4, <1>6, <1>14 DEF IInv

(* A read that went through has all the rows of its file. *)
LEMMA ScannedIInv == IInv /\ Scanned => IInv'
<1> SUFFICES ASSUME IInv, Scanned PROVE IInv'
  OBVIOUS
<1> DEFINE n == Len(scans)
<1>1. /\ pc = "scanning" /\ pc' = "planning" /\ read = "loaded"
      /\ scans' = [scans EXCEPT ![n].rows = rows]
      /\ UNCHANGED <<catalogVars, input, k, begun, out, files>>
  BY DEF Scanned, At
<1>2. CatalogInv /\ SessionTypes /\ CatalogInv' /\ Stays /\ BegunBefore
  BY <1>1, CatalogStays, FilesUnchanged DEF IInv, Freshness, catalogVars
<1>3. /\ n \in DOMAIN scans /\ DOMAIN scans = 1 .. n /\ n \in Nat
      /\ Running.scans = scans /\ Running.line = k /\ Running.begun = begun /\ RunningFresh
  <2>1. n \in Nat /\ DOMAIN scans = 1 .. n
        /\ Running.scans = scans /\ Running.line = k /\ Running.begun = begun /\ RunningFresh
    BY <1>1, RunningFacts
  <2>2. scans # <<>> /\ scans \in Seq(ToSet(scans))
    BY <1>1 DEF IInv, Phases, SessionTypes
  <2>3. n # 0
    BY <2>2, EmptySeq
  <2> QED
    BY <2>1, <2>3
<1>4. /\ DOMAIN scans' = 1 .. n
      /\ \A m \in 1 .. n : m # n => scans'[m] = scans[m]
      /\ scans'[n].rows = rows /\ scans'[n].version = scans[n].version
      /\ \A m \in 1 .. n : DOMAIN scans'[m] = {"version", "rows"}
  <2>1. \A m \in 1 .. n : DOMAIN scans[m] = {"version", "rows"}
    BY <1>2, <1>3 DEF SessionTypes
  <2>2. PICK e : e = [scans[n] EXCEPT !.rows = rows]
    OBVIOUS
  <2>3. e.rows = rows /\ e.version = scans[n].version /\ DOMAIN e = {"version", "rows"}
    BY <1>3, <2>1, <2>2
  <2>4. DOMAIN scans' = 1 .. n /\ scans'[n] = e /\ \A m \in 1 .. n : m # n => scans'[m] = scans[m]
    BY <1>1, <1>3, <2>2
  <2> QED
    BY <2>1, <2>3, <2>4
<1>5. scans' \in Seq(ToSet(scans')) /\ Len(scans') = n
  <2> DEFINE S == ToSet(scans')
  <2>1. scans' \in [1 .. n -> S]
    <3>1. scans' = [m \in 1 .. n |-> scans'[m]]
      <4>1. scans = [m \in 1 .. n |-> scans[m]]
        <5> DEFINE T == ToSet(scans)
        <5>1. scans \in Seq(T)
          BY <1>2 DEF SessionTypes
        <5> HIDE DEF T
        <5> QED
          BY <5>1, SeqIsFunction
      <4>2. scans' = [m \in 1 .. n |-> IF m = n THEN [scans[m] EXCEPT !.rows = rows] ELSE scans[m]]
        BY <1>1, <1>3, <4>1
      <4> QED
        BY <4>2
    <3>2. \A m \in 1 .. n : scans'[m] \in S
      BY <1>4 DEF ToSet
    <3> HIDE DEF S
    <3> QED
      BY <3>1, <3>2
  <2> HIDE DEF S
  <2>2. scans' \in Seq(S) /\ Len(scans') = n
    BY <1>3, <2>1, FunctionIsSeq
  <2> QED
    BY <2>2 DEF S
<1>6. Phases'
  BY <1>1 DEF IInv, Phases, Statement, catalogVars
<1>7. SessionTypes' /\ AnswersFollowTheLines'
  BY <1>1, <1>4, <1>5, LinesStay DEF IInv, SessionTypes
<1>8. AnswersFresh' /\ AnswersWhole'
  BY <1>1, <1>2, AnswersStay
<1>9. Running'.line = k /\ Running'.scans = scans' /\ Running'.begun = begun
  BY <1>1 DEF Running
<1>10. \A m \in 1 .. n : scans'[m].version = scans[m].version
  BY <1>4
<1>11. Fresh(Running)'
  BY <1>1, <1>3, <1>4, <1>5, <1>9, <1>10 DEF RunningFresh, Fresh, catalogVars
<1>12. \A a \in ToSet(out) : After(Running, a)'
  BY <1>1, <1>3, <1>9 DEF RunningFresh, After
<1>13. Freshness'
  BY <1>1, <1>2, <1>8, <1>11, <1>12, BegunStays DEF Freshness, AnswersFresh, ToSet
<1>14. PICK r : r = Running
  OBVIOUS
<1>15. \A m \in 1 .. n : File(Running, m)' = File(r, m) /\ ColumnsOf(Running, m)' = ColumnsOf(r, m)
  BY <1>1, <1>3, <1>9, <1>10, <1>14 DEF File, ColumnsOf, catalogVars
<1>16. ASSUME NEW m \in 1 .. n PROVE Whole(Running, m)'
  <2> DEFINE file == File(r, m)
             columns == ColumnsOf(r, m)
  <2>1. /\ Reads(file, columns)
        /\ scans'[m].rows = [j \in DOMAIN Records(file) |-> RowOf(Records(file)[j], columns)]
    <3>1. CASE m = n
      <4>1. Underway(file, columns)
        BY <1>1, <1>14, <3>1 DEF IInv, ScansAreWhole
      <4>2. GoodFile(file) /\ GoodColumns(columns)
        BY <1>2, <1>3, <1>14, ReadArguments DEF RunningFresh
      <4> HIDE DEF file, columns
      <4>3. /\ Reads(file, columns)
            /\ rows = [j \in DOMAIN Records(file) |-> RowOf(Records(file)[j], columns)]
        BY <1>1, <4>1, <4>2, LoadedIsWhole
      <4> QED
        BY <1>4, <3>1, <4>3
    <3>2. CASE m # n
      <4>1. m \in 1 .. n - 1
        BY <1>3, <3>2
      <4>2. Whole(r, m)
        BY <1>1, <1>14, <4>1 DEF IInv, ScansAreWhole
      <4>3. scans'[m].rows = r.scans[m].rows
        BY <1>3, <1>4, <1>14, <3>2
      <4> QED
        BY <4>2, <4>3 DEF Whole
    <3> QED
      BY <3>1, <3>2
  <2>2. /\ File(Running, m)' = file /\ ColumnsOf(Running, m)' = columns
        /\ Running'.scans[m] = scans'[m]
    BY <1>9, <1>15
  <2> QED
    BY <2>1, <2>2 DEF Whole
<1>17. ScansAreWhole'
  BY <1>1, <1>4, <1>8, <1>16 DEF ScansAreWhole, AnswersWhole
<1> QED
  BY <1>2, <1>6, <1>7, <1>13, <1>17 DEF IInv

-----------------------------------------------------------------------------
(* A step that does nothing but add contents to files. *)
LEMMA OnlyFilesIInv ==
    ASSUME IInv, UNCHANGED <<catalogVars, readerVars, sessionVars, pc>>, FilesKept,
           \A name \in Names : files'[name] \in Seq(Contents) /\ files'[name] # <<>>
    PROVE  IInv'
<1>1. /\ UNCHANGED <<catalogVars, readerVars, input, k, scans, begun, out, pc>>
      /\ CatalogInv /\ SessionTypes /\ BegunBefore
  BY DEF sessionVars, IInv, Freshness
<1>3. \A name \in Names : files'[name] \in Seq(Contents) /\ files'[name] # <<>>
  OBVIOUS
<1>4. DOMAIN files' = Names
  BY DEF FilesKept
<1>5. Stays /\ CatalogInv'
  BY <1>1, CatalogStays DEF Stays, catalogVars
<1>6. Phases'
  BY <1>1 DEF IInv, Phases, Statement, catalogVars
<1>7. SessionTypes' /\ AnswersFollowTheLines'
  BY <1>1, <1>3, <1>4, LinesStay DEF IInv, SessionTypes
<1>8. AnswersFresh' /\ AnswersWhole'
  BY <1>1, <1>5, AnswersStay
<1>9. ASSUME pc \in {"planning", "scanning"}
      PROVE  /\ RunningFresh'
             /\ \A m \in DOMAIN scans : Whole(Running, m) => Whole(Running, m)'
             /\ \A m \in DOMAIN scans : /\ File(Running, m)' = File(Running, m)
                                        /\ ColumnsOf(Running, m)' = ColumnsOf(Running, m)
  BY <1>1, <1>5, <1>9, RunningStays
<1>10. Freshness'
  BY <1>1, <1>5, <1>8, <1>9, BegunStays DEF Freshness, AnswersFresh, RunningFresh
<1>11. pc = "planning" => \A m \in DOMAIN scans : Whole(Running, m)'
  BY <1>9 DEF IInv, ScansAreWhole
<1>12. ASSUME pc = "scanning"
       PROVE  /\ \A m \in 1 .. Len(scans) - 1 : Whole(Running, m)'
              /\ Underway(File(Running, Len(scans)), ColumnsOf(Running, Len(scans)))'
  <2>1. Len(scans) \in Nat /\ DOMAIN scans = 1 .. Len(scans)
    BY <1>12, RunningFacts
  <2>2. Len(scans) # 0
    <3>1. scans # <<>> /\ scans \in Seq(ToSet(scans))
      BY <1>12 DEF IInv, Phases, SessionTypes
    <3> QED
      BY <3>1, EmptySeq
  <2>3. Len(scans) \in DOMAIN scans /\ \A m \in 1 .. Len(scans) - 1 : m \in DOMAIN scans
    BY <2>1, <2>2
  <2>4. \A m \in 1 .. Len(scans) - 1 : Whole(Running, m)'
    BY <1>9, <1>12, <2>3 DEF IInv, ScansAreWhole
  <2>5. PICK file : file = File(Running, Len(scans))
    OBVIOUS
  <2>6. PICK columns : columns = ColumnsOf(Running, Len(scans))
    OBVIOUS
  <2>7. Underway(file, columns)
    BY <1>12, <2>5, <2>6 DEF IInv, ScansAreWhole
  <2>8. Underway(file, columns)'
    BY <1>1, <2>7 DEF Underway, readerVars, MoreRecords
  <2>9. \A m \in DOMAIN scans : File(Running, m)' = File(Running, m) /\ ColumnsOf(Running, m)' = ColumnsOf(Running, m)
    BY <1>9, <1>12
  <2>10. File(Running, Len(scans))' = file /\ ColumnsOf(Running, Len(scans))' = columns
    <3>1. PICK n : n = Len(scans)
      OBVIOUS
    <3>2. File(Running, n)' = file /\ ColumnsOf(Running, n)' = columns
      BY <2>3, <2>5, <2>6, <2>9, <3>1
    <3> QED
      BY <1>1, <3>1, <3>2 DEF File, ColumnsOf
  <2> QED
    BY <2>4, <2>8, <2>10 DEF Underway
<1>13. ScansAreWhole'
  BY <1>1, <1>8, <1>11, <1>12 DEF ScansAreWhole, AnswersWhole
<1> QED
  BY <1>5, <1>6, <1>7, <1>10, <1>13 DEF IInv

(* A file is replaced while the program runs. *)
LEMMA ReplaceIInv == IInv /\ Replace => IInv'
<1> SUFFICES ASSUME IInv, Replace PROVE IInv'
  OBVIOUS
<1>1. SessionTypes /\ UNCHANGED <<catalogVars, readerVars, sessionVars, pc>>
  BY DEF Replace, IInv
<1>2. PICK name \in Names, content \in Contents : files' = [files EXCEPT ![name] = Append(@, content)]
  BY DEF Replace
<1>3. ASSUME NEW t \in Names
      PROVE  /\ files'[t] \in Seq(Contents) /\ files'[t] # <<>>
             /\ Len(files'[t]) \in Nat /\ Len(files'[t]) >= Len(files[t])
             /\ \A v \in 1 .. Len(files[t]) : files'[t][v] = files[t][v]
  <2>1. files[t] \in Seq(Contents) /\ files[t] # <<>> /\ Len(files[t]) \in Nat \ {0}
    BY <1>1, FilesFacts DEF SessionTypes
  <2>2. files'[t] = IF t = name THEN Append(files[t], content) ELSE files[t]
    BY <1>1, <1>2 DEF SessionTypes
  <2>3. CASE t = name
    <3> DEFINE f == files[t]
    <3>1. files'[t] = Append(f, content)
      BY <2>2, <2>3
    <3>2. f \in Seq(Contents) /\ Len(f) \in Nat \ {0}
      BY <2>1
    <3> HIDE DEF f
    <3>3. /\ Append(f, content) \in Seq(Contents) /\ Len(Append(f, content)) = Len(f) + 1
          /\ \A v \in 1 .. Len(f) : Append(f, content)[v] = f[v]
      BY <3>2, AppendFacts
    <3>4. Append(f, content) # <<>>
      BY <3>2, <3>3
    <3> QED
      BY <3>1, <3>2, <3>3, <3>4 DEF f
  <2>4. CASE t # name
    BY <2>1, <2>2, <2>4
  <2> QED
    BY <2>3, <2>4
<1>4. DOMAIN files' = Names
  BY <1>1, <1>2 DEF SessionTypes
<1> QED
  BY <1>1, <1>3, <1>4, OnlyFilesIInv DEF FilesKept

LEMMA StutterIInv == IInv /\ UNCHANGED vars => IInv'
<1> SUFFICES ASSUME IInv, UNCHANGED vars PROVE IInv'
  OBVIOUS
<1>1. SessionTypes /\ UNCHANGED <<catalogVars, readerVars, sessionVars, pc, files>>
  BY DEF IInv, vars
<1>2. FilesKept
  BY <1>1, FilesUnchanged DEF Stays, catalogVars, sessionVars
<1>3. \A name \in Names : files'[name] \in Seq(Contents) /\ files'[name] # <<>>
  BY <1>1 DEF SessionTypes
<1> QED
  BY <1>1, <1>2, <1>3, OnlyFilesIInv

(* The invariant is inductive: what the program does and what is done to its
   files keep it. *)
THEOREM NextIInv == IInv /\ [Next]_vars => IInv'
<1> SUFFICES ASSUME IInv, [Next]_vars PROVE IInv'
  OBVIOUS
<1>1. CASE Schema
  BY <1>1, SchemaIInv
<1>2. CASE SkipBlank
  BY <1>2, SkipBlankIInv
<1>3. CASE EndOfLines
  BY <1>3, EndOfLinesIInv
<1>4. CASE Begin
  BY <1>4, BeginIInv
<1>5. CASE Refuse
  BY <1>5, RefuseIInv
<1>6. CASE UnknownTable
  BY <1>6, UnknownTableIInv
<1>7. CASE ScanTable
  BY <1>7, ScanTableIInv
<1>8. CASE ReadStep
  BY <1>8, ReadStepIInv
<1>9. CASE Unreadable
  BY <1>9, UnreadableIInv
<1>10. CASE Scanned
  BY <1>10, ScannedIInv
<1>11. CASE Finish
  BY <1>11, FinishIInv
<1>12. CASE Replace
  BY <1>12, ReplaceIInv
<1>13. CASE UNCHANGED vars
  BY <1>13, StutterIInv
<1> QED
  BY <1>1, <1>2, <1>3, <1>4, <1>5, <1>6, <1>7, <1>8, <1>9, <1>10, <1>11, <1>12, <1>13
     DEF Next, Program

(* The session keeps its invariant. *)
THEOREM SessionInvariant == Spec => []IInv
BY InitIInv, NextIInv, PTL DEF Spec

-----------------------------------------------------------------------------
(* What the invariant is for. *)

(* Every line read so far that is not blank has one answer, in order, whatever
   fails and whatever happens to the files (repl.go:19). *)
THEOREM EveryLineHasItsAnswer == Spec => []AnswersFollowTheLines
<1>1. IInv => AnswersFollowTheLines
  BY DEF IInv
<1> QED
  BY <1>1, SessionInvariant, PTL

(* A statement fails for a reason of its own, never for what an earlier one
   left behind (repl.go:35). *)
THEOREM FailuresAreTheirOwn == Spec => []FailsForItsOwnReason
<1>1. IInv => FailsForItsOwnReason
  BY DEF IInv, ScansAreWhole, FailsForItsOwnReason, Succeeds
<1> QED
  BY <1>1, SessionInvariant, PTL

(* No statement sees a file older than its beginning, nor one older than an
   earlier statement saw (plan.go:155). *)
THEOREM ReadsNeverGoBack == Spec => []ReadsAreFresh
<1>1. ASSUME IInv PROVE ReadsAreFresh
  <2>1. /\ \A a \in ToSet(out) : Fresh(a)
        /\ \A a, b \in ToSet(out) : a.line < b.line => After(b, a)
    BY <1>1 DEF IInv, Freshness
  <2>2. ASSUME NEW a \in ToSet(out), NEW n \in DOMAIN a.scans
        PROVE  /\ a.begun[input[a.line].tables[n]] \in Nat
               /\ a.scans[n].version \in Int
               /\ a.scans[n].version >= a.begun[input[a.line].tables[n]]
    BY <2>1 DEF Fresh
  <2>3. ASSUME NEW a \in ToSet(out), NEW b \in ToSet(out), a.line < b.line,
               NEW n \in DOMAIN a.scans, NEW m \in DOMAIN b.scans,
               input[b.line].tables[m] = input[a.line].tables[n]
        PROVE  b.scans[m].version >= a.scans[n].version
    <3> DEFINE name == input[a.line].tables[n]
    <3>1. a.scans[n].version <= b.begun[name]
      BY <2>1, <2>3 DEF After
    <3>2. b.begun[name] \in Nat /\ b.scans[m].version \in Int /\ b.scans[m].version >= b.begun[name]
      BY <2>2, <2>3
    <3>3. a.scans[n].version \in Int
      BY <2>2
    <3> HIDE DEF name
    <3> QED
      BY <3>1, <3>2, <3>3
  <2> QED
    BY <2>2, <2>3 DEF ReadsAreFresh
<1> QED
  BY <1>1, SessionInvariant, PTL

(* Statements run over the whole schema file or not at all (catalog.go:36). *)
THEOREM SchemaIsWholeOrAbsent == Spec => []SchemaIsWhole
<1>1. ASSUME IInv PROVE SchemaIsWhole
  <2>1. (out # <<>> => schema = "loaded") /\ (schema = "failed" => cat = <<>>)
    BY <1>1 DEF IInv, Phases, CatalogInv
  <2>2. ASSUME schema = "loaded"
        PROVE  /\ \A line \in ToSet(lines) : line.form # "bad" /\ \A part \in ToSet(line.parts) : IsColumn(part)
               /\ DOMAIN cat = {lines[n].name : n \in {m \in DOMAIN lines : lines[m].form = "table"}}
               /\ \A name \in DOMAIN cat :
                     \E n \in DOMAIN lines :
                         /\ Declares(n, name)
                         /\ \A m \in DOMAIN lines : Declares(m, name) => m <= n
                         /\ cat[name] = Columns(lines[n].parts)
    <3>1. /\ lines \in SchemaFiles /\ lines # NoFile /\ ln = Len(lines) + 1 /\ CatalogIsRead
      BY <1>1, <2>2 DEF IInv, CatalogInv
    <3>2. Len(lines) \in Nat /\ DOMAIN lines = 1 .. Len(lines)
      BY <3>1, SchemaLineFacts
    <3>3. 1 .. ln - 1 = DOMAIN lines
      BY <3>1, <3>2
    <3>4. DeclaredBefore(ln) = {m \in DOMAIN lines : lines[m].form = "table"}
      BY <3>3 DEF DeclaredBefore
    <3>5. \A line \in ToSet(lines) : line.form # "bad" /\ \A part \in ToSet(line.parts) : IsColumn(part)
      <4>1. \A line \in ToSet(lines) : \E m \in DOMAIN lines : line = lines[m]
        BY DEF ToSet
      <4> QED
        BY <3>1, <3>3, <4>1 DEF CatalogIsRead
    <3>6. DOMAIN cat = {lines[n].name : n \in {m \in DOMAIN lines : lines[m].form = "table"}}
      BY <3>1, <3>4 DEF CatalogIsRead
    <3>7. ASSUME NEW name \in DOMAIN cat
          PROVE  \E n \in DOMAIN lines :
                     /\ Declares(n, name)
                     /\ \A m \in DOMAIN lines : Declares(m, name) => m <= n
                     /\ cat[name] = Columns(lines[n].parts)
      <4>1. PICK n \in DeclaredBefore(ln) :
              /\ lines[n].name = name
              /\ \A m \in DeclaredBefore(ln) : lines[m].name = name => m <= n
              /\ cat[name] = Columns(lines[n].parts)
        BY <3>1 DEF CatalogIsRead
      <4> QED
        BY <3>4, <4>1 DEF Declares
    <3> QED
      BY <3>5, <3>6, <3>7
  <2> QED
    BY <2>1, <2>2 DEF SchemaIsWhole
<1> QED
  BY <1>1, SessionInvariant, PTL

\* A blank line is no record of any of the tables.
WideTables == \A name \in DOMAIN cat : Len(cat[name]) # 1

(* A field as its column's type. *)
LEMMA FieldFacts ==
    ASSUME NEW field, NEW t \in AllTypes, Parses(field, t)
    PROVE  LET v == ParseField(field, t)
           IN  /\ v.type = t
               /\ IsNull(v) <=> field = Blank
               /\ field # Blank => v = Parsed[v.type][field]
<1>1. CASE field = Blank
  BY <1>1 DEF ParseField, NullOf, IsNull
<1>2. CASE field # Blank
  <2>1. field \in DOMAIN Parsed[t] /\ ParseField(field, t) = Parsed[t][field]
    BY <1>2 DEF Parses, ParseField
  <2>2. Parsed[t][field].type = t /\ ~IsNull(Parsed[t][field])
    BY <2>1, ParsedAssumption DEF AllTypes
  <2> QED
    BY <1>2, <2>1, <2>2
<1> QED
  BY <1>1, <1>2

(* A table is the records of its file, field by field, if it has more than one
   column; a line of one empty field is blank to encoding/csv, and a table of
   one column loses it (README.md:113-116). *)
THEOREM WideTablesLoseNoLine == Spec => [](WideTables => EveryLineIsARow)
<1>1. ASSUME IInv, WideTables PROVE EveryLineIsARow
  <2>1. ASSUME NEW a \in ToSet(out), a.kind = "table", NEW n \in DOMAIN a.scans,
               \A line \in ToSet(File(a, n)) : Len(line) = Len(ColumnsOf(a, n))
        PROVE  /\ Len(a.scans[n].rows) = Len(File(a, n))
               /\ \A m \in DOMAIN File(a, n), j \in DOMAIN ColumnsOf(a, n) :
                     LET v == a.scans[n].rows[m][j]
                     IN  /\ v.type = ColumnsOf(a, n)[j].type
                         /\ IsNull(v) <=> File(a, n)[m][j] = Blank
                         /\ File(a, n)[m][j] # Blank => v = Parsed[v.type][File(a, n)[m][j]]
    <3> DEFINE file == File(a, n)
               columns == ColumnsOf(a, n)
               rs == a.scans[n].rows
    <3>1. /\ Whole(a, n) /\ Fresh(a) /\ CatalogInv /\ SessionTypes
      BY <1>1, <2>1 DEF IInv, ScansAreWhole, Freshness
    <3>2. GoodFile(file) /\ GoodColumns(columns)
      BY <3>1, ReadArguments
    <3>3. Reads(file, columns) /\ rs = [m \in DOMAIN Records(file) |-> RowOf(Records(file)[m], columns)]
      BY <3>1 DEF Whole
    <3>4. Len(columns) # 1
      <4>1. input[a.line].tables[n] \in DOMAIN cat
        BY <3>1 DEF Fresh
      <4> QED
        BY <1>1, <4>1 DEF WideTables, ColumnsOf
    <3>5. \A line \in ToSet(file) : Len(line) = Len(columns)
      BY <2>1
    <3> HIDE DEF file, columns, rs
    <3>6. file # NoFile /\ file \in Seq(Seq(STRING))
      BY <3>2, <3>3 DEF Reads, GoodFile
    <3>7. Records(file) = file
      <4>1. <<Blank>> \notin ToSet(file)
        BY <3>4, <3>5
      <4> DEFINE T == Seq(STRING)
      <4>2. file \in Seq(T)
        BY <3>6
      <4> HIDE DEF T
      <4> QED
        BY <4>1, <4>2, RecordsFacts
    <3>8. /\ Len(file) \in Nat /\ DOMAIN file = 1 .. Len(file)
          /\ \A m \in 1 .. Len(file) : \A j \in 1 .. Len(columns) : Parses(file[m][j], columns[j].type)
      BY <3>2, <3>3, <3>6, <3>7, FileFacts
    <3>9. rs = [m \in 1 .. Len(file) |-> RowOf(file[m], columns)]
      BY <3>3, <3>7, <3>8
    <3>10. Len(rs) = Len(file)
      <4> DEFINE R == {rs[m] : m \in 1 .. Len(file)}
      <4>1. rs \in [1 .. Len(file) -> R]
        BY <3>9
      <4> HIDE DEF R
      <4> QED
        BY <3>8, <4>1, FunctionIsSeq
    <3>11. ASSUME NEW m \in DOMAIN file, NEW j \in DOMAIN columns
           PROVE  LET v == rs[m][j]
                  IN  /\ v.type = columns[j].type
                      /\ IsNull(v) <=> file[m][j] = Blank
                      /\ file[m][j] # Blank => v = Parsed[v.type][file[m][j]]
      <4>1. rs[m][j] = ParseField(file[m][j], columns[j].type)
        BY <3>8, <3>9 DEF RowOf
      <4>2. columns[j].type \in AllTypes /\ Parses(file[m][j], columns[j].type)
        BY <3>2, <3>8 DEF GoodColumns
      <4> QED
        BY <4>1, <4>2, FieldFacts
    <3> QED
      BY <3>10, <3>11 DEF file, columns, rs
  <2> QED
    BY <2>1, Zenon DEF EveryLineIsARow
<1> QED
  BY <1>1, SessionInvariant, PTL
=============================================================================
