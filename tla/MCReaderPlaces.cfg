CONSTANTS
    Texts <- MCTexts
    Letters = {"n", "i", "l", "t", "r", "u", "e", "f", "a", "s"}
    MaxInt = 12
    MaxDigits = 5
    MaxName = 6
    Room = 2
    MaxLen = 2
    MaxDeep = 3
SPECIFICATION ReadSpec
INVARIANT ErrorsArePlaced
CHECK_DEADLOCK FALSE
