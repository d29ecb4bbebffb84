SPECIFICATION Spec
CONSTANT
    MaxSig = 3
INVARIANT
    LoopOutlivesRun
PROPERTY
    StopsWhenTold
CHECK_DEADLOCK FALSE
