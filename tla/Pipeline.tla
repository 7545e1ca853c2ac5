------------------------------ MODULE Pipeline ------------------------------
(***************************************************************************)
(* The operator tree that plan.Build makes of a query without a join or an *)
(* aggregate, pulled by the REPL: a chain of operators, each calling the   *)
(* Next of the one below.  Control is at one operator at a time; it either *)
(* was just called (ret = Called) or has the result of its own call, a row *)
(* or End.  One action per turn of an operator's Next.                     *)
(*                                                                         *)
(* A row is its position in the table.  Sort hands on its rows in the      *)
(* order module Sort establishes: by rank, ties in arrival order.          *)
(***************************************************************************)
EXTENDS Integers, Sequences, FiniteSets, SequencesExt

CONSTANT Queries    \* the statements, with what their expressions evaluate to

Called == 0         \* the operator was called and has no result yet
End    == -1        \* the child's (nil, false)
NoLimit == -1

\* WHERE is TRUE, FALSE or NULL on a row, or fails to evaluate; SELECT's
\* expressions evaluate or fail on every row alike; ORDER BY ranks the rows.
Outcomes == {"true", "false", "null", "error"}

ASSUME QueriesAssumption ==
    \A q \in Queries :
        /\ q.where \in Seq(Outcomes)
        /\ q.rank \in [DOMAIN q.where -> Int]
        /\ q.filtered \in BOOLEAN /\ q.sorted \in BOOLEAN /\ q.projects \in BOOLEAN
        /\ q.limit \in Nat \cup {NoLimit}

VARIABLES
    query,
    at,        \* the operator in control; the consumer is above the last
    ret,       \* Called, End or a row
    scanned,   \* Scan.i
    buffer, loaded, sent,   \* Sort's rows, loaded flag and i
    seen,      \* Limit.seen
    out, done  \* rows the consumer took; it has seen the end

vars == <<query, at, ret, scanned, buffer, loaded, sent, seen, out, done>>

Limited == query.limit # NoLimit

\* Build's order: filter, sort, project, limit, the others on demand.
Operators == {"scan", "project", "consumer"}
             \cup (IF query.filtered THEN {"filter"} ELSE {})
             \cup (IF query.sorted THEN {"sort"} ELSE {})
             \cup (IF Limited THEN {"limit"} ELSE {})

AboveFilter == IF query.sorted THEN "sort" ELSE "project"
BelowSort   == IF query.filtered THEN "filter" ELSE "scan"

Parent(kind) == CASE kind = "scan" -> IF query.filtered THEN "filter" ELSE AboveFilter
                  [] kind = "filter" -> AboveFilter
                  [] kind = "sort" -> "project"
                  [] kind = "project" -> IF Limited THEN "limit" ELSE "consumer"
                  [] kind = "limit" -> "consumer"

Child(kind) == CASE kind = "consumer" -> IF Limited THEN "limit" ELSE "project"
                 [] kind = "limit" -> "project"
                 [] kind = "project" -> IF query.sorted THEN "sort" ELSE BelowSort
                 [] kind = "sort" -> BelowSort
                 [] kind = "filter" -> "scan"

Running(kind) == at = kind

HasRow == ret \notin {Called, End}

TableSize == Len(query.where)

Init == /\ query \in Queries
        /\ at = "consumer"
        /\ ret = Called
        /\ scanned = 0
        /\ buffer = <<>> /\ loaded = FALSE /\ sent = 0
        /\ seen = 0
        /\ out = <<>> /\ done = FALSE

\* Control moves down with a call, and up with a result.
CallChild   == at' = Child(at) /\ ret' = Called
Return(res) == at' = Parent(at) /\ ret' = res

scanVars  == scanned
sortVars  == <<buffer, loaded, sent>>
userVars  == <<out, done>>

-----------------------------------------------------------------------------
ScanNext ==
    /\ Running("scan")
    /\ IF scanned < TableSize
       THEN scanned' = scanned + 1 /\ Return(scanned + 1)
       ELSE UNCHANGED scanned /\ Return(End)
    /\ UNCHANGED <<query, sortVars, seen, userVars>>

\* The filter's loop asks for rows until one satisfies WHERE.
FilterPull ==
    /\ Running("filter")
    /\ \/ ret = Called
       \/ HasRow /\ query.where[ret] # "true"
    /\ CallChild
    /\ UNCHANGED <<query, scanVars, sortVars, seen, userVars>>

\* Mutant: unknown is good enough for WHERE.
FilterReturnUnknown ==
    /\ Running("filter")
    /\ ret = End \/ (HasRow /\ query.where[ret] # "false")
    /\ Return(ret)
    /\ UNCHANGED <<query, scanVars, sortVars, seen, userVars>>

FilterReturn ==
    /\ Running("filter")
    /\ ret = End \/ (HasRow /\ query.where[ret] = "true")
    /\ Return(ret)
    /\ UNCHANGED <<query, scanVars, sortVars, seen, userVars>>

-----------------------------------------------------------------------------
\* load: the first call drains the child ...
SortPull ==
    /\ Running("sort") /\ ~loaded
    /\ ret # End
    /\ buffer' = IF ret = Called THEN buffer ELSE Append(buffer, ret)
    /\ CallChild
    /\ UNCHANGED <<query, scanVars, loaded, sent, seen, userVars>>

\* ... and sorts what came.
Before(q, r, s) == \/ q.sorted /\ q.rank[r] < q.rank[s]
                   \/ (q.sorted => q.rank[r] = q.rank[s]) /\ r < s

InOrder(q, rows) == \A m, n \in DOMAIN rows : m < n => Before(q, rows[m], rows[n])

\* Mutant: the loaded flag is not set.
SortLoadedUnset ==
    /\ Running("sort") /\ ~loaded
    /\ ret = End
    /\ ret' = Called
    /\ UNCHANGED <<query, at, scanVars, sortVars, seen, userVars>>

SortLoaded ==
    /\ Running("sort") /\ ~loaded
    /\ ret = End
    /\ loaded' = TRUE
    /\ buffer' \in {s \in [DOMAIN buffer -> ToSet(buffer)] :
                       ToSet(s) = ToSet(buffer) /\ InOrder(query, s)}
    /\ ret' = Called
    /\ UNCHANGED <<query, at, scanVars, sent, seen, userVars>>

SortNext ==
    /\ Running("sort") /\ loaded
    /\ IF sent < Len(buffer)
       THEN sent' = sent + 1 /\ Return(buffer[sent + 1])
       ELSE UNCHANGED sent /\ Return(End)
    /\ UNCHANGED <<query, scanVars, buffer, loaded, seen, userVars>>

-----------------------------------------------------------------------------
ProjectPull ==
    /\ Running("project") /\ ret = Called
    /\ CallChild
    /\ UNCHANGED <<query, scanVars, sortVars, seen, userVars>>

\* A row whose expressions fail is reported as the end.
ProjectReturn ==
    /\ Running("project") /\ ret # Called
    /\ Return(IF query.projects THEN ret ELSE End)
    /\ UNCHANGED <<query, scanVars, sortVars, seen, userVars>>

-----------------------------------------------------------------------------
\* The cap is reached: the child is not asked.
LimitStop ==
    /\ Running("limit") /\ ret = Called
    /\ seen >= query.limit
    /\ Return(End)
    /\ UNCHANGED <<query, scanVars, sortVars, seen, userVars>>

\* Mutant: the child is asked once more after the cap.
LimitPullOnceMore ==
    /\ Running("limit") /\ ret = Called
    /\ seen <= query.limit
    /\ CallChild
    /\ UNCHANGED <<query, scanVars, sortVars, seen, userVars>>

LimitPull ==
    /\ Running("limit") /\ ret = Called
    /\ seen < query.limit
    /\ CallChild
    /\ UNCHANGED <<query, scanVars, sortVars, seen, userVars>>

LimitReturn ==
    /\ Running("limit") /\ ret # Called
    /\ seen' = IF ret = End THEN seen ELSE seen + 1
    /\ Return(ret)
    /\ UNCHANGED <<query, scanVars, sortVars, userVars>>

-----------------------------------------------------------------------------
\* printTable keeps every row and asks for the next, until the first end.
Pull ==
    /\ Running("consumer") /\ ret # End
    /\ out' = IF ret = Called THEN out ELSE Append(out, ret)
    /\ CallChild
    /\ UNCHANGED <<query, scanVars, sortVars, seen, done>>

Stop ==
    /\ Running("consumer") /\ ret = End /\ ~done
    /\ done' = TRUE
    /\ UNCHANGED <<query, at, ret, scanVars, sortVars, seen, out>>

Filter  == FilterPull \/ FilterReturn
Sort    == SortPull \/ SortLoaded \/ SortNext
Project == ProjectPull \/ ProjectReturn
Limit   == LimitStop \/ LimitPull \/ LimitReturn
Next    == ScanNext \/ Filter \/ Sort \/ Project \/ Limit \/ Pull \/ Stop

(* One goroutine runs the query to its end. *)
Spec == Init /\ [][Next]_vars /\ WF_vars(Next)

-----------------------------------------------------------------------------
(* Properties *)

TypeOK ==
    /\ at \in Operators
    /\ ret \in {Called, End} \cup 1 .. TableSize
    /\ scanned \in 0 .. TableSize
    /\ buffer \in Seq(1 .. TableSize)
    /\ loaded \in BOOLEAN /\ sent \in 0 .. Len(buffer)
    /\ seen \in Nat
    /\ out \in Seq(1 .. TableSize) /\ done \in BOOLEAN

\* The rows among the first n that the statement selects.
Passes(q, r)  == q.filtered => q.where[r] = "true"
Passing(q, n) == {r \in 1 .. n : Passes(q, r)}

Full == Limited /\ Len(out) >= query.limit

(* What the consumer has is always the beginning of the answer: selected rows
   in the order asked for, none skipped, no more than LIMIT.  It is the whole
   answer when the statement ends, LIMIT applied after WHERE and ORDER BY.
   Only a failing projection cuts it short. *)
AnswerIsRight ==
    /\ ToSet(out) \subseteq Passing(query, TableSize)
    /\ InOrder(query, out)
    /\ \A r \in Passing(query, TableSize), s \in ToSet(out) : Before(query, r, s) => r \in ToSet(out)
    /\ Limited => Len(out) <= query.limit
    /\ done /\ query.projects => Full \/ ToSet(out) = Passing(query, TableSize)

(* LIMIT stops the scan (README.md:18): a plan without ORDER BY reads no row
   once it has read as many selected ones as LIMIT asks for, and LIMIT 0 reads
   none under any plan.  Every operator's state keeps its type. *)
LimitStopsTheScan ==
    /\ TypeOK
    /\ Limited /\ ~query.sorted /\ scanned > 0 => Cardinality(Passing(query, scanned - 1)) < query.limit
    /\ query.limit = 0 => scanned = 0

(* Every statement comes to its end. *)
Terminates == <>done

-----------------------------------------------------------------------------
(* The inductive invariant *)

\* The row on its way up.
Coming(r) == HasRow /\ ret = r

\* A plan without Sort: what was read and passes is with the consumer, on its
\* way, or lost in a projection that failed.
StreamInv ==
    ~query.sorted =>
        /\ HasRow => ret = scanned /\ (at # "filter" => Passes(query, ret))
        /\ ToSet(out) \subseteq Passing(query, IF HasRow THEN scanned - 1 ELSE scanned)
        /\ \A r \in Passing(query, scanned) :
              \/ r \in ToSet(out) \/ Coming(r)
              \/ ~query.projects /\ ret = End /\ at \in {"limit", "consumer"}
        /\ InOrder(query, out)
        /\ query.projects /\ ret = End => scanned = TableSize \/ (at = "consumer" /\ Full)

\* Sort, until its child is drained ...
LoadInv ==
    query.sorted /\ ~loaded =>
        /\ out = <<>> /\ sent = 0
        /\ HasRow => ret = scanned /\ at \in {"filter", "sort"} /\ (at = "sort" => Passes(query, ret))
        /\ ToSet(buffer) \subseteq Passing(query, scanned)
        /\ \A r \in Passing(query, scanned) : r \in ToSet(buffer) \/ Coming(r)
        /\ ret = End => \/ at \in {"filter", "sort"} /\ scanned = TableSize
                        \/ at = "consumer" /\ Full

\* ... and then: what was sent is with the consumer or on its way.
SentInv ==
    query.sorted /\ loaded =>
        /\ at \notin {"scan", "filter"} /\ (at = "sort" => ret = Called)
        /\ ToSet(buffer) = Passing(query, TableSize) /\ InOrder(query, buffer)
        /\ HasRow => sent > 0 /\ ret = buffer[sent]
        /\ query.projects => Len(out) = IF HasRow THEN sent - 1 ELSE sent
        /\ \A n \in DOMAIN out : n <= sent /\ out[n] = buffer[n]
        /\ query.projects /\ ret = End => sent = Len(buffer) \/ (at = "consumer" /\ Full)

\* Limit has counted the rows that passed it.
SeenInv ==
    Limited =>
        /\ seen = Len(out) + IF at = "consumer" /\ HasRow THEN 1 ELSE 0
        /\ seen <= query.limit
        /\ at \notin {"limit", "consumer"} \/ (at = "limit" /\ ret # Called) => seen < query.limit

ControlInv ==
    /\ at = "scan" => ret = Called
    /\ ~query.projects => out = <<>> /\ (HasRow => at \in {"filter", "sort", "project"})
    /\ done => at = "consumer" /\ ret = End

IInv == query \in Queries /\ LimitStopsTheScan /\ StreamInv /\ LoadInv /\ SentInv /\ SeenInv /\ ControlInv
=============================================================================
