SPECIFICATION IngestSpec
CONSTANTS
    Message = {"m1"}
    Worker = {}
    Id = {"m1"}
    signal <- MCSignal
    idOf <- MCIds
    Malformed = {}
    Poison = {}
    BatchMax = 2
    DedupWindow = 2
    Gateway = {g1}
    Input = {"i1"}
    inputOf <- MCInputOf
    Invalid = {}
    DropRecord = {}
    trace <- MCTrace
    Notable = {}
    Sampled = {}
    MaxRequest = 2
INVARIANTS
    EverySignalCaptured
CHECK_DEADLOCK FALSE
