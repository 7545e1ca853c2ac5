\* A one-column table with a NULL.
SPECIFICATION Spec
CONSTANTS
    IntCutoff = 16
    FloatExact = 8
    Floats <- SmallFloats
    Texts <- SmallTexts
    SchemaFiles <- OneColumn
    NoFile = NoFile
    Capitals <- UpperTypes
    Blank = ""
    Parsed <- Fields
    Sessions <- AllSessions
    Names = {"t", "u"}
    Contents <- ThreeNumbers
    MaxVersions = 1
    MaxLines = 1
    LongLines = FALSE
INVARIANTS
    EveryLineIsARow
CHECK_DEADLOCK FALSE
