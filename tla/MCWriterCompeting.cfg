SPECIFICATION Spec
CONSTANTS
    Message = {"m1", "m2"}
    Worker = {w1, w2}
    Id = {"m1", "m2"}
    signal <- MCSignal
    idOf <- MCReplayIds
    Malformed = {}
    Poison = {}
    BatchMax = 2
    DedupWindow = 2
INVARIANTS
    AckedIsStored
    TailedIsStored
    DuplicateNeedsRegrouping
PROPERTIES
    ImplementsAtLeastOnce
CHECK_DEADLOCK FALSE
