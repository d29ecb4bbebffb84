SPECIFICATION Spec
CONSTANTS
    Messages <- MCMessages
    Buffers = {23, 26}
    Room = 21
    Handles = {1, 258, 65535}
    Lengths = {0, 1, 8, 9, 16, 18, 19, 20, 21, 22, 23}
INVARIANTS
    OwnKindOnly
    NeverMisread
    RoundTrip
CHECK_DEADLOCK FALSE
