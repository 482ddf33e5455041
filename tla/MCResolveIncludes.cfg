SPECIFICATION Spec
CONSTANTS
    File = {"main", "a", "b"}
    Root = "main"
    Programs <- MCPrograms
    None = None
INVARIANTS
    Ownership
    DeletedOnceUnlessMissing
    NothingLeaks
    NormalForm
    ResolvedIsInlining
PROPERTY
    Terminates
CHECK_DEADLOCK FALSE
