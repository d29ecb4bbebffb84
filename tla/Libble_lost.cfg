SPECIFICATION FairSpec
CONSTANTS
    Kinds = {"read", "write"}
    MaxConn = 1
    MaxReq = 1
    MaxDepth = 2
PROPERTIES
    LostLinkNoticed
CHECK_DEADLOCK FALSE
