\* INT keys beyond the integers float64 holds exactly.
SPECIFICATION Spec
CONSTANTS
    IntCutoff = 16
    FloatExact = 8
    Floats <- SmallFloats
    Texts <- SmallTexts
    MaxRows = 2
    LeftInputs <- BigIntColumns
    RightInputs <- BigIntColumns
INVARIANTS
    EmittedPairsCompareEqual
