CONSTANTS
    Modulus = 65536
    Wrapping = FALSE
    Overflow = Overflow
    Outputs <- MCOutputs
    Requests <- MCRequests
SPECIFICATION HkdfSpec
INVARIANTS MatchesRfc RefusesTooLong KeysDisjoint
CHECK_DEADLOCK FALSE
