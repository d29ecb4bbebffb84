SPECIFICATION Spec
CONSTANTS
    c1 = c1
    c2 = c2
    Chan = {c1, c2}
    NoChan = NoChan
    Original = c1
    Opcode = {"read"}
    NoOpcode = "none"
    DefaultMtu = 23
    Mtus = {23}
    ClientTypes = {"REQ"}
    PeerTypes = {}
    Lens = {20}
    Errors = {"encryption", "other"}
    ClientLevels = {}
    Rogue = FALSE
    MaxOp = 2
    MaxSetMtu = 0
INVARIANTS
    OwnedOnce
    NoLostWakeup
    OwedIsPending
    OkMeansServed
CHECK_DEADLOCK FALSE
