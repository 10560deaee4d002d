CONSTANTS
    Atoms <- MCAtoms
    Texts <- MCTexts
    MaxLen = 5
    MaxRepair = 2
SPECIFICATION Spec
INVARIANTS
    AnswersTheReading
    ErrorsAreAtTheFault
    NothingLeaks
CHECK_DEADLOCK FALSE
