CONSTANTS
    None = None
    NULL = None
    Name <- MCName
    Val <- MCVal
    Programs <- MCPrograms
    Global <- MCGlobal
    BuiltinFn <- MCBuiltinFn
    Effect <- MCEffect
    Answers <- MCAnswers
    MaxSteps = 60
    Depth <- MCDepth
SPECIFICATION FairSpec
INVARIANT ScopesAreLexical
