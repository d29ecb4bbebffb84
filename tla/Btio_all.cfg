SPECIFICATION Spec
CONSTANTS
    MaxConn = 2
    MaxSet = 1
    OldKernel = TRUE
    OptLists <- MCOptLists
    GetOpts <- MCGetOpts
INVARIANTS
    NoOrphan
    AsAsked
    ToldOwnFate
CHECK_DEADLOCK FALSE
