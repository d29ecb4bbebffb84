SPECIFICATION FairSpec
CONSTANTS
    MaxHandle = 4
    Procs = {"char"}
    RogueProcs = {"char"}
    PerRsp = 2
    RoguePerRsp = 1
PROPERTY
    CharSearchStops
CHECK_DEADLOCK FALSE
