------------------------------- MODULE Lexer -------------------------------
(***************************************************************************)
(* Lex (internal/lexer/lexer.go), one step per turn of its loop.  A line   *)
(* is a string of one-byte characters, positions counted from 1.           *)
(***************************************************************************)
EXTENDS Integers, Sequences, FiniteSets, SequencesExt

CONSTANT Lines      \* the inputs

VARIABLES
    input, i,   \* the line and the position in it
    toks,       \* the tokens so far, each [kind, text, pos]
    outcome     \* "lexing", "lexed" or "error"

vars == <<input, i, toks, outcome>>

-----------------------------------------------------------------------------
(* Characters, as strings of one *)

At(s, n) == SubSeq(s, n, n)

Chars(s) == {At(s, n) : n \in 1 .. Len(s)}

Small    == "abcdefghijklmnopqrstuvwxyz"
Capitals == "ABCDEFGHIJKLMNOPQRSTUVWXYZ"

Blanks  == {" ", "\t", "\n", "\r"}
Digits  == Chars("0123456789")
Letters == Chars(Small) \cup Chars(Capitals) \cup {"_"}
OpChars == Chars("=<>+-/")
Quote   == "'"

Singles == ("(" :> "lparen") @@ (")" :> "rparen") @@ ("," :> "comma") @@ ("." :> "dot") @@ ("*" :> "star")

Capital == [c \in Letters |-> IF c \in Chars(Small)
                              THEN At(Capitals, CHOOSE n \in 1 .. 26 : At(Small, n) = c) ELSE c]

\* strings.ToUpper
ToUpper(word) ==
    FoldLeft(LAMBDA s, n : s \o IF At(word, n) \in Letters THEN Capital[At(word, n)] ELSE At(word, n),
             "", [n \in 1 .. Len(word) |-> n])

Keywords == {"SELECT", "FROM", "WHERE", "ORDER", "BY", "LIMIT", "AND", "OR", "NOT", "ASC", "DESC",
             "IS", "NULL", "TRUE", "FALSE", "JOIN", "INNER", "ON", "GROUP", "HAVING"}

-----------------------------------------------------------------------------
Lexing == outcome = "lexing"

More == i <= Len(input)

Char == At(input, i)

Emit(kind, text, next) ==
    /\ toks' = Append(toks, [kind |-> kind, text |-> text, pos |-> i])
    /\ i' = next
    /\ UNCHANGED <<input, outcome>>

\* The error result, at position i.
Error == outcome' = "error" /\ UNCHANGED <<input, i, toks>>

\* Where the characters of the set that begin at i end.
EndOf(set) == CHOOSE n \in i .. Len(input) + 1 :
                  /\ n <= Len(input) => At(input, n) \notin set
                  /\ Chars(SubSeq(input, i, n - 1)) \subseteq set

Text(next) == SubSeq(input, i, next - 1)

Blank ==
    /\ Lexing /\ More /\ Char \in Blanks
    /\ i' = i + 1
    /\ UNCHANGED <<input, toks, outcome>>

Single ==
    /\ Lexing /\ More /\ Char \in DOMAIN Singles
    /\ Emit(Singles[Char], Char, i + 1)

Quotes == {n \in i + 1 .. Len(input) : At(input, n) = Quote}

PastQuote(end) == end + 1

String ==
    /\ Lexing /\ More /\ Char = Quote
    /\ LET end == CHOOSE n \in Quotes : \A m \in Quotes : n <= m
       IN  IF Quotes = {} THEN Error
           ELSE Emit("string", SubSeq(input, i + 1, end - 1), PastQuote(end))

\* Mutant: a number ends at a point.
NumberCharsInt == Digits

NumberChars == Digits \cup {"."}

\* Any number of points: the parser takes what is malformed for 0.
Number ==
    /\ Lexing /\ More /\ Char \in Digits
    /\ LET end == EndOf(NumberChars)
       IN  Emit(IF "." \in Chars(Text(end)) THEN "float" ELSE "int", Text(end), end)

Word ==
    /\ Lexing /\ More /\ Char \in Letters
    /\ LET end == EndOf(Letters \cup Digits)
       IN  IF ToUpper(Text(end)) \in Keywords THEN Emit("keyword", ToUpper(Text(end)), end)
           ELSE Emit("ident", Text(end), end)

\* The operators of two characters.
Pairs == {"<>", "<=", ">="}

Operator ==
    /\ Lexing /\ More /\ Char \in OpChars
    /\ LET end == IF i < Len(input) /\ SubSeq(input, i, i + 1) \in Pairs THEN i + 2 ELSE i + 1
       IN  Emit("op", Text(end), end)

Unexpected ==
    /\ Lexing /\ More
    /\ Char \notin Blanks \cup DOMAIN Singles \cup {Quote} \cup Digits \cup Letters \cup OpChars
    /\ Error

Finish ==
    /\ Lexing /\ ~More
    /\ toks' = Append(toks, [kind |-> "eof", text |-> "", pos |-> i])
    /\ outcome' = "lexed"
    /\ UNCHANGED <<input, i>>

Begin == input \in Lines /\ i = 1 /\ toks = <<>> /\ outcome = "lexing"

Next == Blank \/ Single \/ String \/ Number \/ Word \/ Operator \/ Unexpected \/ Finish

-----------------------------------------------------------------------------
(* What the lexemes are, by the kind of their tokens *)

IsWord(w) == At(w, 1) \in Letters /\ Chars(w) \subseteq Letters \cup Digits

Lexeme(w, kind) ==
    CASE kind = "keyword" -> IsWord(w) /\ ToUpper(w) \in Keywords
      [] kind = "ident"   -> IsWord(w) /\ ToUpper(w) \notin Keywords
      [] kind = "int"     -> Chars(w) \subseteq Digits
      [] kind = "float"   -> /\ At(w, 1) \in Digits /\ "." \in Chars(w)
                             /\ Chars(w) \subseteq Digits \cup {"."}
      [] kind = "string"  -> /\ Len(w) > 1
                             /\ {n \in 1 .. Len(w) : At(w, n) = Quote} = {1, Len(w)}
      [] kind = "op"      -> w \in {"=", "<", ">", "+", "-", "/", "<>", "<=", ">="}
      [] OTHER            -> w \in DOMAIN Singles /\ Singles[w] = kind

Kinds == {"keyword", "ident", "int", "float", "string", "op", "lparen", "rparen", "comma", "dot", "star"}

IsLexeme(w) == \E kind \in Kinds : Lexeme(w, kind)

Written == {n \in DOMAIN toks : toks[n].kind # "eof"}

Width(t) == Len(t.text) + IF t.kind = "string" THEN 2 ELSE 0

Places(t) == t.pos .. t.pos + Width(t) - 1

Source(t) == SubSeq(input, t.pos, t.pos + Width(t) - 1)

(* Each token is the longest lexeme at its place, of its kind and with its
   text: `<=` is never `<` and `=`, a word is never cut at a digit or a
   keyword inside it. *)
TokensAreLongestLexemes ==
    \A n \in Written :
        LET t == toks[n]
        IN  /\ Lexeme(Source(t), t.kind)
            /\ t.text = CASE t.kind = "keyword" -> ToUpper(Source(t))
                          [] t.kind = "string" -> SubSeq(input, t.pos + 1, t.pos + Len(t.text))
                          [] OTHER -> Source(t)
            /\ \A end \in t.pos + Width(t) .. Len(input) : ~IsLexeme(SubSeq(input, t.pos, end))

(* Nothing is skipped or read twice: what the tokens so far do not hold is
   blank, they come in order, and the EOF that the parser relies on is the
   last and only one of a line that was read to its end. *)
CoversTheLine ==
    /\ \A m \in 1 .. i - 1 :
          \/ Cardinality({n \in Written : m \in Places(toks[n])}) = 1
          \/ At(input, m) \in Blanks /\ \A n \in Written : m \notin Places(toks[n])
    /\ \A m, n \in DOMAIN toks : m < n => toks[m].pos < toks[n].pos
    /\ \A n \in DOMAIN toks : toks[n].kind = "eof" <=> outcome = "lexed" /\ n = Len(toks)
    /\ outcome = "lexed" => toks # <<>> /\ i > Len(input)

(* A line is refused only at a character that begins no lexeme. *)
RefusesNoLexeme ==
    outcome = "error" =>
        /\ Char \notin Blanks
        /\ \A end \in i .. Len(input) : ~IsLexeme(SubSeq(input, i, end))
=============================================================================
