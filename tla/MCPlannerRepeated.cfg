\* Tables whose schema line names a column twice.
SPECIFICATION EvaluationSpec
CONSTANTS
    IntCutoff = 16
    FloatExact = 8
    Floats <- SmallFloats
    Texts <- SmallTexts
    Catalog <- RepeatingTables
    Statements <- NamingStatements
    MaxHeight = 4
    Ids <- CallIds
    Samples <- OneOfEach
    Results <- Numbered
    SigDigits = 1
    MaxDepth = 1
    Subjects = {"statements"}
INVARIANT
    AcceptedPlansNeverFail
CHECK_DEADLOCK FALSE
