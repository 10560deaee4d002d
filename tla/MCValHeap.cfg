CONSTANTS
    Addr = {v1, v2, v3, v4}
    Hole = Hole
    MaxKids = 2
    MaxPairs = 2
    MaxHeld = 3
SPECIFICATION Spec
INVARIANTS
    CountsAreReferences
    NothingDangles
    NothingLeaks
SYMMETRY Symmetry
