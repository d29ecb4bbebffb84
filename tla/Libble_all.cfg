SPECIFICATION FairSpec
CONSTANTS
    Kinds = {"read", "write"}
    MaxConn = 2
    MaxReq = 1
    MaxDepth = 2
INVARIANTS
    HandleConsistent
    DisconnectBreaksLink
    ToldState
PROPERTIES
    ConnectEnds
    RequestEnds
    OrphanCloses
CHECK_DEADLOCK FALSE
