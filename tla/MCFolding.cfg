SPECIFICATION Spec
CONSTANTS
    Width = 4
    Precision = 2
    Leaves <- MCLeaves
    Replacements <- MCReplacements
    Inputs <- MCInputs
    MaxOperands = 2
    MaxOperations = 2
INVARIANTS
    FoldKeepsTypes
    FoldPreservesValue
    FoldThrowsOnlyAtUndefined
    FoldIsStable
    FoldReadsItsOperandsIfWellTyped
CHECK_DEADLOCK FALSE
