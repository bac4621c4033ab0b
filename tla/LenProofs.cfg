CONSTANTS
    Overflow = Overflow
    Modulus = 4
    Wrapping = FALSE
    X = 2
    Y = 3
    Z = 0
    MaxBasic = 2
    MaxProofs = 4
    Universe <- MCUniverse
SPECIFICATION Spec
INVARIANTS SameLenSound AtMostSound ProofsOfMath
CHECK_DEADLOCK FALSE
