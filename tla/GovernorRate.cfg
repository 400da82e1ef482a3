CONSTANTS
    k1 = k1
    u1 = u1
    n1 = n1
    n2 = n2
    r1 = r1
    r2 = r2
    Nodes = {n1}
    StaticIds = {k1}
    Subjects = {u1}
    Requests = {r1}
    RPM <- TwoAndOne
    MaxTokens <- NoLimit
    Costs = {0}
    MaxCost = 0
    Streaming = TRUE
    ReadFaults = TRUE
    SaveFaults = FALSE
    NoSave = NoSave
    Steps = {20, 25}
    MaxClock = 90
    MaxUsage = 0
    MaxCrashes = 1
SPECIFICATION Spec
INVARIANT WindowBounded
PROPERTY PollingIsFree
