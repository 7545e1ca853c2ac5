\* Up to three rows in up to three groups; up to four rows without GROUP BY.
SPECIFICATION Spec
CONSTANTS
    IntCutoff = 8
    FloatExact = 4
    Floats <- SmallFloats
    Texts <- SmallTexts
    MaxRows = 3
    Queries <- MCQueries
INVARIANTS
    GroupsAreClasses
    ResultsMatch
    OutputIsComplete
PROPERTIES
    FailureIsFinal
