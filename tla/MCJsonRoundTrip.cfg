CONSTANTS
    NotFinite = NotFinite
    Values <- MCValues
    Texts <- MCTexts
    Fifteen <- MCFifteen
    MaxSafe = 4
    MaxNesting = 2
    Levels = 4
    Char <- MCChar
    Depth <- MCDepth
SPECIFICATION Spec
INVARIANT RoundTripGuarantee
CHECK_DEADLOCK FALSE
