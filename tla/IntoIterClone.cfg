CONSTANTS
    None = None
    Iters = {i1, i2}
    Roots = {i1}
    N = 2
    MaxSkip = 1
SPECIFICATION Spec
INVARIANTS ReleasedOnce AliveOwned NoLeak
PROPERTIES ImplementsDeque CallsEnd
