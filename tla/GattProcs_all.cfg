SPECIFICATION FairSpec
CONSTANTS
    Readers = {"r"}
    Writers = {"w1", "w2"}
    Finders = {"f"}
    Pairs = {{"r", "w1"}, {"w1", "w2"}, {"r", "f"}, {"w1", "f"}}
    Mtu = 7
    ServerMtu = 9
    ValueLen = 14
    WriteLens = {4, 5, 8}
    Decls <- MCDecls
    EndHandle = 5
    MaxList = 2
INVARIANTS
    ReadExact
    RefusedStaysPrepared
    IncludedComplete
PROPERTIES
    WriteApplied
    ProcedureEnds
CHECK_DEADLOCK FALSE
