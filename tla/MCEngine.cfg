SPECIFICATION Spec
CONSTANTS
    None = None
    Name = {n1, n2}
    Content <- MCContent
    Flaw <- MCFlaw
    Template = {t1, t2}
    FunctionName = {f1, f2}
    Value = {v1, v2}
    Callable = {v1}
    MaxFunctions = 3
    MaxEdits = 1
    MaxDepth = 2
SYMMETRY MCSymmetry
INVARIANTS
    CodeAlive
    NoEngineLeaks
    CacheIsVerified
    RendersTheFileUnlessEdited
    DeletedOnceUntilThrow
    CallbacksCounted
CHECK_DEADLOCK FALSE
