SPECIFICATION Spec
CONSTANTS
    Name = {a, b}
    None = None
    Null = Null
    MaxDepth = 2
    MaxNodes = 4
INVARIANTS
    RestoresShadows
    PrintsAsTemplateButZeros
PROPERTIES
    ImplementsScoping
SYMMETRY MCSymmetry
CHECK_DEADLOCK FALSE
