SPECIFICATION Spec
CONSTANTS
    Name = {a, b}
    None = None
    Null = Null
    MaxDepth = 2
    MaxNodes = 4
INVARIANT PrintsAsTemplate
SYMMETRY MCSymmetry
CHECK_DEADLOCK FALSE
