CONSTANTS
    Names <- MCNames
    Aborts = {2}
    MaxTests = 2
    MaxCommands = 2
    MaxEdits = 1
SPECIFICATION Spec
INVARIANT PassesRan
CHECK_DEADLOCK FALSE
