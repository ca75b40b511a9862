SPECIFICATION GatewaySpec
CONSTANTS
    Replica = {r1, r2}
    Limit = 1
    WindowSecs = 2
    MaxDelay = 1
    MaxTime = 3
    MaxRequests = 3
    AuthGateway = {g1, g2}
    AuthRequest = {a1, a2}
    Key = {k1}
    Ingests = {k1}
    AuthCacheTTL = 2
    MaxLookup = 1
    MaxInstant = 3
    MaxVersions = 1
    Message = {"m1", "m2", "m3"}
    Worker = {w1}
    Id = {"m1", "m2", "m3"}
    signal <- MCSignal
    idOf <- MCIds
    Malformed = {}
    Poison = {}
    BatchMax = 2
    DedupWindow = 2
    Gateway = {g1}
    Input = {"i1", "i2"}
    inputOf <- MCInputOf
    Invalid = {}
    DropRecord = {"i2"}
    trace <- MCTrace
    Notable = {}
    Sampled = {}
    MaxRequest = 2
INVARIANTS
    CapPerWindow
    StragglersBounded
    RetryAfterReachesNextWindow
    RevocationBounded
    ConfigStalenessBounded
    AcceptedIsDurable
    LogsCaptured
CHECK_DEADLOCK FALSE
