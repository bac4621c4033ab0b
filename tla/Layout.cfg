CONSTANTS
    Overflow = Overflow
    Modulus = 16
    Wrapping = FALSE
    Lengths = {0, 2, 3, 8}
    MaxFormed = 5
    Values <- MCValues
SPECIFICATION LayoutSpec
INVARIANTS LaidOut LayoutOK OnlyEmptyOverflows
CHECK_DEADLOCK FALSE
