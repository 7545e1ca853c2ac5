------------------------------ MODULE Difftest ------------------------------
(***************************************************************************)
(* The engine's side of a differential test (internal/difftest/engine.go): *)
(* a generated statement goes the way of one typed at the prompt.  The     *)
(* generator writes its text in tokens, so the lexer has nothing to do.    *)
(***************************************************************************)
EXTENDS FrontEnd

CONSTANTS Ops, Words, MaxTerms, MaxTokens    \* of the generator

VARIABLES text, scope, from, pred, terms, at

genVars == <<text, scope, from, pred, terms, at>>

G == INSTANCE Generator

Generate ==
    /\ outcome = "generating"
    /\ G!Next
    /\ toks' = IF at' = "done" THEN text' \o << [kind |-> "eof", text |-> ""] >> ELSE <<>>
    /\ outcome' = IF at' = "done" THEN "running" ELSE outcome
    /\ UNCHANGED <<pos, stack, result, st, input, place, plan>>
=============================================================================
