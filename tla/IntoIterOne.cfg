CONSTANTS
    None = None
    Iters = {i1}
    Roots = {i1}
    N = 4
    MaxSkip = 5
SPECIFICATION Spec
INVARIANTS IInv
PROPERTIES ImplementsDeque
