\* Tables of up to three rows.  A statement ends: the chain stops then.
SPECIFICATION Spec
CONSTANTS
    MaxRows = 3
    Queries <- MCQueries
INVARIANTS
    AnswerIsRight
    LimitStopsTheScan
PROPERTIES
    Terminates
CHECK_DEADLOCK FALSE
