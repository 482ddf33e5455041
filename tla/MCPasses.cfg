SPECIFICATION Spec
CONSTANTS
    Width = 8
    Precision = 7
    StreamDigits = 2
    PhpDigits = 3
    Templates <- MCTemplates
    Inputs <- MCInputs
    Counts = {0, 2}
INVARIANTS
    
    NothingUndone
    Flat
CHECK_DEADLOCK FALSE
