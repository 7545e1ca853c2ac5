\* Two columns of up to three rows: matches, duplicates, NULL, NaN, -0.
SPECIFICATION Spec
CONSTANTS
    IntCutoff = 16
    FloatExact = 8
    Floats <- SmallFloats
    Texts <- SmallTexts
    MaxRows = 3
    LeftInputs <- SmallColumns
    RightInputs <- SmallColumns
INVARIANTS
    EmittedPairsCompareEqual
    LeftIsStreamed
    IInv
    NoMatchMissed
PROPERTIES
    NestedLoop
    ExhaustionIsFinal
