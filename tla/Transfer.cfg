CONSTANTS
    None = None
    Fill = Fill
    N = 5
SPECIFICATION Spec
INVARIANTS TypeOK ItemsUsedOnce ArrayKeptOrDropped InOrder ExactLength AdvancedAtMost ZipReturns
PROPERTIES Ends
CHECK_DEADLOCK FALSE
