CONSTANTS
    Texts <- MCTexts
    Letters = {"n", "i", "l", "t", "r", "u", "e", "f", "a", "s"}
    MaxInt = 12
    MaxDigits = 5
    MaxName = 6
    Room = 2
    MaxLen = 3
    MaxDeep = 5
SPECIFICATION ReadFairSpec
INVARIANTS
    TokensAreText
    FaultsAreFound
    BuffersFit
    ReadOnlyIfNested
    FaultsPointAtBrackets
PROPERTIES
    ReadingEnds
CHECK_DEADLOCK FALSE
