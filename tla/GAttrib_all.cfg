SPECIFICATION Spec
CONSTANTS
    MaxCb = 3
    MaxRef = 2
    MaxDepth = 3
INVARIANTS
    FreedUntouched
    Cancellable
    DestroyOnce
CHECK_DEADLOCK FALSE
