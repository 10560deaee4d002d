CONSTANTS
    MaxItems = 2
    MaxFrames = 3
SPECIFICATION Spec
INVARIANTS
    BorrowedIsOwned
    OnlyRecurKeeps
