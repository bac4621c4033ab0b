CONSTANTS
    Overflow = Overflow
    Modulus = 5
    Wrapping = FALSE
    None = None
    Handles = {h1, h2, h3}
    Universe <- MCUniverse
SYMMETRY MCSymmetry
SPECIFICATION Spec
INVARIANTS OwnedOnce Sized
PROPERTIES KeepsOrder
CHECK_DEADLOCK FALSE
