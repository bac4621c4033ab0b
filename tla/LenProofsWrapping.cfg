CONSTANTS
    Overflow = Overflow
    Modulus = 4
    Wrapping = TRUE
    X = 2
    Y = 3
    Z = 0
    MaxBasic = 2
    MaxProofs = 3
    Universe <- MCUniverse
SPECIFICATION Spec
INVARIANTS SameLenSoundAlone
CHECK_DEADLOCK FALSE
