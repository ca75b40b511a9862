SPECIFICATION FairSpec
CONSTANTS
    Message = {"m1", "m2", "m3"}
    Worker = {w1}
    Id = {"m1", "m2", "m3"}
    signal <- MCStraySignal
    idOf <- MCIds
    Malformed = {}
    Poison = {"m2"}
    BatchMax = 2
    DedupWindow = 1
INVARIANTS
    TypeOK
PROPERTIES
    OfferedIsStored
CHECK_DEADLOCK FALSE
