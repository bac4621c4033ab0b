CONSTANTS
    N = 3
    MaxCalls = 3
SPECIFICATION Spec
INVARIANTS OwnsItsElements UpdatesPrefix
CHECK_DEADLOCK FALSE
