SPECIFICATION Spec
CONSTANTS
    MaxValues = 4
    MaxOperands = 2
    MaxDepth = 2
INVARIANTS
    CountsReferences
    NoDoubleFree
    TemporariesLive
    DestroyedWhereCreated
    NothingLeaks
