SPECIFICATION TradingFairSpec
CONSTANTS
    s1 = s1
    t1 = t1
    Strategies = {s1}
    Tenants = {t1}
    TenantOf <- OneTenant
    Platform = Platform
    MaxKill = 1
    MaxNow = 2
    Proposals = {p1}
    OwnerOf <- OneStrategy
    Unset = Unset
    Documents <- ManyDocuments
    Limits <- SomeLimits
    RateWindow = 1
    ApprovalTimeout = 1
    Tiers <- SomeTiers
    TierMoves <- SomeMoves
    Posts = {h1}
    Humans = {u1, u2}
    MaxGap = 1
    MaxMove = 1
    MaxStop = 1
    NoOrder = NoOrder
    Entries <- SomeEntries
    Marks = {12, 36}
    Slip = 6
    Fee = 1
    Allocated = 100
    Gate <- SomeGate
    Submissions = {1, 2}
    MaxOrder = 5
    MaxDay = 2
    MaxPaperFault = 1
    MaxReload = 1
    Absent = Absent
    Analysts = {a1}
    MaxRounds = 1
    MaxAttempts = 2
    MaxTick = 0
    MaxCut = 1
    MaxMiss = 1
    VenueOrders = {o1, o2}
    Strays = {o2}
    Deferring = {o1}
    MaxTrade = 2
    MaxEpoch = 1
    MaxOutage = 1
    Payers = {"t1", "t2"}
    Clients = {"c1", "c2"}
    PayerOf <- PayerOfClient
    Calls = {}
    NoCall = NoCall
    AgentRuns = {}
    EnvelopesOf <- SomeEnvelopes
    ClientOf <- ClientOfRun
    Exports = {}
    Unknown = Unknown
    MaxMonth = 1
    MaxClose = 0
    MaxAudit = 0
CONSTRAINT TradingLiveScenario
PROPERTIES PendingEventuallyDecided QueuedExitServed TickConcludes TradeEventuallyBooked
CHECK_DEADLOCK FALSE
