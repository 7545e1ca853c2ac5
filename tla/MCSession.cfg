\* Every session of two lines, each file replaced once at most.
SPECIFICATION Spec
CONSTANTS
    IntCutoff = 16
    FloatExact = 8
    Floats <- SmallFloats
    Texts <- SmallTexts
    SchemaFiles <- TwoTables
    NoFile = NoFile
    Capitals <- UpperTypes
    Blank = ""
    Parsed <- Fields
    Sessions <- AllSessions
    Names = {"t", "u"}
    Contents <- TwoColumns
    MaxVersions = 2
    MaxLines = 2
    LongLines = FALSE
INVARIANTS
    AnswersFollowTheLines
    FailsForItsOwnReason
    EveryLineIsARow
    ReadsAreFresh
    SchemaIsWhole
PROPERTY
    Ends
CHECK_DEADLOCK FALSE
