CONSTANTS
    MaxItems = 2
    MaxFrames = 3
SPECIFICATION Spec
INVARIANT NothingKept
