SPECIFICATION Spec
CONSTANTS
    p1 = p1
    p2 = p2
    None = None
    Parser <- MCParser
    File <- MCFile
    MaxParses = 4
INVARIANTS
    SuccessCleansScanner
    AsFreshUnlessSoiled
PROPERTIES
    EveryParseEnds
CHECK_DEADLOCK FALSE
