CONSTANTS
    k1 = k1
    u1 = u1
    n1 = n1
    n2 = n2
    r1 = r1
    r2 = r2
    Nodes = {n1}
    StaticIds = {k1}
    Subjects = {u1}
    Requests = {r1, r2}
    RPM <- NoLimit
    MaxTokens <- ThreeAndOne
    Costs = {2}
    MaxCost = 2
    Streaming = FALSE
    ReadFaults = TRUE
    SaveFaults = TRUE
    NoSave = NoSave
    Steps = {}
    MaxClock = 0
    MaxUsage = 14
    MaxCrashes = 1
SPECIFICATION FairSpec
INVARIANTS OvershootBounded UsageBounded NeverOvercharged
PROPERTIES DurableSpendGrows EventuallyDurable
