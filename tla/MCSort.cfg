\* Up to four rows with one key, up to three with two keys.
SPECIFICATION Spec
CONSTANTS
    IntCutoff = 16
    FloatExact = 8
    Floats <- SmallFloats
    Texts <- SmallTexts
    BlockSize = 20
    MaxRows = 4
    Queries <- MixedQueries
INVARIANTS
    StablySorted
    NoRowLost
    NullsTogether
