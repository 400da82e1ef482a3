SPECIFICATION FairSpec
CONSTANTS
    m1 = m1  m2 = m2  m3 = m3
    p1 = p1  p2 = p2  p3 = p3
    ask = ask  again = again  far = far  long = long  digest = digest
    image = image  use = use  Empty = Empty  Nothing = Nothing
    Handlers = {r1, r2}
    Providers = {p1, p2}
    Models = {m1, m2, m3}
    Route <- Chains
    Requests <- SomeRequests
    Strategy = "summary"
    MaxPromptTokens = 12
    KeepRecentTurns = 1
    Texts <- Said
    Extras <- Carried
    Length <- Bytes
    Neat <- Collapsed
    Summaries = {digest}
    NoSummary = NoSummary
    Normal <- LowerCase
    Sim <- Alike
    Threshold = 9
    TTL = 1
    MaxEntries = 1
    MCPEnabled = TRUE
    MaxIter = 2
    None = None
    CallCounts = {0, 2}
    MaxRequests = 2
    MaxClock = 2
INVARIANTS TypeOK CacheConsistent HitAnswersRequest MetricsBalance FallbackInOrder ToolCallsAnswered
PROPERTY EveryRequestAnswered
CHECK_DEADLOCK FALSE
