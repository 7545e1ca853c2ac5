------------------------------ MODULE FrontEnd ------------------------------
(***************************************************************************)
(* The way of a line from its text to a plan: the lexer, the parser and    *)
(* the planner one after the other, each on what the one before it has     *)
(* made (runOne, internal/repl/repl.go, and runEngine,                     *)
(* internal/difftest/engine.go, do the same).  An error ends it.           *)
(***************************************************************************)
EXTENDS Parser

CONSTANTS
    Lines,      \* the texts
    Tables,     \* the catalog
    MaxHeight   \* bound on the height of the expressions that are planned

VARIABLES
    input, place,   \* of the lexer, with the tokens and the outcome, which it hands on
    plan            \* None, then the result of plan.Build

frontEndVars == <<vars, input, place, plan>>

L == INSTANCE Lexer WITH i <- place

\* The statement as the planner takes it.
Parsed == [projections |-> st.projections, from |-> st.from,
           join |-> IF st.joins = <<>> THEN None
                    ELSE [kind |-> "join", table |-> st.joins[1].table, on |-> st.joins[1].on],
           where |-> st.where, groupBy |-> st.groupBy, having |-> st.having,
           orderBy |-> [n \in DOMAIN st.orderBy |-> st.orderBy[n].expr]]

P == INSTANCE Planner WITH st <- Parsed, Catalog <- Tables, Statements <- {}

Lex == L!Next /\ UNCHANGED <<pos, stack, result, st, plan>>

\* The parser is made, and called.
Handover ==
    /\ outcome = "lexed"
    /\ outcome' = "running"
    /\ UNCHANGED <<toks, pos, stack, result, st, input, place, plan>>

Parse == Next /\ UNCHANGED <<input, place, plan>>

Plan == outcome = "parsed" /\ UNCHANGED <<vars, input, place>> /\ P!Build
=============================================================================
