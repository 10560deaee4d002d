CONSTANTS
    Names <- MCNames
    Aborts = {2}
    MaxTests = 2
    MaxCommands = 2
    MaxEdits = 1
SPECIFICATION FairSpec
INVARIANTS
    RunsWhatWasFound
    VerdictsAreRight
PROPERTIES
    ExitSaysAll
    CommandsEnd
CHECK_DEADLOCK FALSE
