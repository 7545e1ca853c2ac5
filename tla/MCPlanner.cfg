\* Every pair of values and of rows of corner cases; expressions of up to three
\* levels; joins with every pair of operands and selects with every mix of clauses.
SPECIFICATION EvaluationSpec
CONSTANTS
    IntCutoff = 16
    FloatExact = 8
    Floats <- SmallFloats
    Texts <- SmallTexts
    MaxHeight = 4
    Ids <- CallIds
    Samples <- OneOfEach
    Results <- Numbered
    SigDigits = 1
    MaxDepth = 3
    Catalog <- Tables
    Statements <- AllStatements
    Subjects = {"values", "expressions", "statements"}
INVARIANTS
    CompareIsExact
    JoinKeyAgreesWithCompare
    GroupKeyIdentifiesRows
    LogicIsThreeValued
    
    InferredTypeIsRuntimeType
    ConditionsPartitionRows
    IntArithmeticIsExact
    AcceptedPlansNeverFail
    JoinKeysAreTheCondition
    LoweringKeepsMeaning
CHECK_DEADLOCK FALSE
