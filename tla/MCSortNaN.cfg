\* A FLOAT key that holds NaN among numbers.
SPECIFICATION Spec
CONSTANTS
    IntCutoff = 16
    FloatExact = 8
    Floats <- SmallFloats
    Texts <- SmallTexts
    BlockSize = 20
    MaxRows = 3
    Queries <- NaNQueries
INVARIANTS
    SortedOutput
