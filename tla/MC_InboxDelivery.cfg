SPECIFICATION Spec
CONSTANTS
    Messages = 4
    MaxRetries = 1
INVARIANTS
    InOrderExactlyOnce
    NothingLostOrStuck
CHECK_DEADLOCK FALSE
