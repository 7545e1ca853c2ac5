\* Lines longer than the buffer.
SPECIFICATION Spec
CONSTANTS
    IntCutoff = 16
    FloatExact = 8
    Floats <- SmallFloats
    Texts <- SmallTexts
    SchemaFiles <- OneColumn
    NoFile = NoFile
    Capitals <- UpperTypes
    Blank = ""
    Parsed <- Fields
    Sessions <- AllSessions
    Names = {"t", "u"}
    Contents <- ThreeNumbers
    MaxVersions = 1
    MaxLines = 2
    LongLines = TRUE
INVARIANTS
    EveryLineIsAnswered
CHECK_DEADLOCK FALSE
