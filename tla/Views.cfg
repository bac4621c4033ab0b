CONSTANTS
    Overflow = Overflow
    Modulus = 5
    Wrapping = FALSE
    None = None
    MaxViews = 3
    MaxDoubted = 2
    Universe <- MCUniverse
SPECIFICATION Spec
INVARIANTS InBounds LentOnce NeverPanics
CHECK_DEADLOCK FALSE
