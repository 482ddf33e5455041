SPECIFICATION Spec
CONSTANTS
    MaxValues = 4
    MaxOperands = 2
    MaxDepth = 1
INVARIANT
    PrintedKeepTables
