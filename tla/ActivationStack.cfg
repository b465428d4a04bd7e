SPECIFICATION Spec
CONSTANTS
    Envs = {e1, e2, e3, e4}
    Vars = {v}
    System = System
    Condabin = Condabin
    User = User
    None = None
    Unset = Unset
    Marked = FALSE
    MaxDepth = 5
INVARIANTS
    PathShowsStack
    OwnValues
PROPERTIES
    StackSpec
    RoundTrip
    PromptFollows
SYMMETRY Interchangeable
