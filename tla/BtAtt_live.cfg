SPECIFICATION FairSpec
CONSTANTS
    c1 = c1
    c2 = c2
    Chan = {c1}
    NoChan = NoChan
    Original = c1
    Opcode = {"read"}
    NoOpcode = "none"
    DefaultMtu = 23
    Mtus = {23}
    ClientTypes = {"REQ", "IND"}
    PeerTypes = {}
    Lens = {20}
    Errors = {"authentication", "other", "malformed"}
    ClientLevels = {}
    Rogue = FALSE
    MaxOp = 2
    MaxSetMtu = 0
INVARIANTS
    OwnedOnce
PROPERTIES
    KeepsPromise
    EveryOpEnds
CHECK_DEADLOCK FALSE
