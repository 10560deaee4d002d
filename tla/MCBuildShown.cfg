CONSTANTS
    Names <- MCNames
    Aborts = {2}
    MaxTests = 2
    MaxCommands = 2
    MaxEdits = 1
SPECIFICATION Spec
INVARIANT FailuresAreShown
CHECK_DEADLOCK FALSE
