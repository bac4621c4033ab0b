CONSTANTS
    None = None
    N = 8
SPECIFICATION Spec
INVARIANTS ReleasedOnce AllOrNothing CallsInOrder
CHECK_DEADLOCK FALSE
