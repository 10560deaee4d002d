CONSTANTS
    k1 = k1
    k2 = k2
    k3 = k3
    k4 = k4
    k5 = k5
    Key <- MCKey
    Value = {1, 2, 3, 4, 5}
    Hash <- MCHash
    MinCap = 8
    MaxPairs = 5
    Inputs <- MCInputs
    NULL = NULL
    Empty = Empty
SPECIFICATION FairSpec
INVARIANTS
    TypeOK
    ProbeBound
    GetIsLastWrite
    EntriesExact
PROPERTIES
    Terminates
    ImplementsMap
