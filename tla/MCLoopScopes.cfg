SPECIFICATION Spec
CONSTANTS
    Name = {"x", "y"}
    None = None
    Null = Null
    MaxDepth = 3
    MaxLoops = 3
INVARIANTS
    RestoresWhatItFound
    NothingOverriddenUntilFailure
    AdvancesItsOwnLoop
PROPERTY
    ImplementsScoping
