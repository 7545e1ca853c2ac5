\* Every line of four characters, every label of three levels, every sequence
\* of six operator or five call tokens, of clauses with one mark, and every
\* generated statement of 22 tokens.
SPECIFICATION FrontEndSpec
CONSTANTS
    IntCutoff = 16
    FloatExact = 8
    Floats <- SmallFloats
    Texts <- SmallTexts
    Inputs = {}
    Lines <- ShortLines
    Upper <- UpperNames
    Spelled <- Spellings
    Spelling <- TextSpelling
    Eprec = 1
    Tables <- TablesWithBool
    Ops = {"<"}
    Words <- SomeWords
    MaxTerms = 2
    MaxTokens = 22
    Families = {"lines", "labels", "operators", "calls", "clauses", "generated"}
    MaxHeight = 4
    MaxLine = 4
    MaxDepth = 3
    MaxOperators = 7
    MaxCalls = 6
    MaxMarks = 1
INVARIANTS
    CursorInRange
    DepthBounded
    ParsesTheGrammar
    LabelsReadBack
    LexesTheLine
    GeneratedStatementsAreAccepted
PROPERTY
    Terminates
CHECK_DEADLOCK FALSE
