CONSTANTS
    Values <- MCValues
    FloatOrder <- MCFloatOrder
    NaN <- MCNaN
    Depth <- MCDepth
SPECIFICATION Comparing
INVARIANTS
    TotalOrder
    EqualMeansSame
    HashContract
