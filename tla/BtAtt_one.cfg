SPECIFICATION Spec
CONSTANTS
    c1 = c1
    c2 = c2
    Chan = {c1}
    NoChan = NoChan
    Original = c1
    Opcode = {"read"}
    NoOpcode = "none"
    DefaultMtu = 23
    Mtus = {23, 64}
    ClientTypes = {"REQ", "CMD"}
    PeerTypes = {"REQ", "NFY", "CMD"}
    Lens = {60}
    Errors = {"encryption", "authentication", "other", "malformed"}
    ClientLevels = {2}
    Rogue = TRUE
    MaxOp = 2
    MaxSetMtu = 1
INVARIANTS
    TypeOK
    OwnedOnce
    CallbackOnce
    TimerIffPending
    NoLostWakeup
PROPERTIES
    CancelIsFinal
    KeepsPromise
CHECK_DEADLOCK FALSE
