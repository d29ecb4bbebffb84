SPECIFICATION FairSpec
CONSTANTS
    MaxHandle = 4
    Procs = {"primary", "char", "desc"}
    RogueProcs = {"primary", "char", "desc"}
    PerRsp = 2
    RoguePerRsp = 1
INVARIANTS
    DiscoveryComplete
    EndsOnce
PROPERTIES
    ForwardOnly
    DiscoveryTerminates
CHECK_DEADLOCK FALSE
