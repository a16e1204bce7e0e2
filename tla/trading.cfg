SPECIFICATION TradingSpec
CONSTANTS
    s1 = s1
    t1 = t1
    Strategies = {s1}
    Tenants = {t1}
    TenantOf <- OneTenant
    Platform = Platform
    MaxKill = 1
    MaxNow = 3
    Proposals = {p1, p2, p3}
    OwnerOf <- OneStrategy
    Unset = Unset
    Documents <- ManyDocuments
    Limits <- SomeLimits
    RateWindow = 1
    ApprovalTimeout = 1
    Tiers <- SomeTiers
    TierMoves <- SomeMoves
    Posts = {h1, h2}
    Humans = {u1, u2}
    MaxGap = 1
    MaxMove = 1
    MaxStop = 1
    NoOrder = NoOrder
    Entries <- SomeEntries
    Marks = {12, 36}
    Slip = 6
    Fee = 1
    Allocated = 100
    Gate <- SomeGate
    Submissions = {1, 2, 3}
    MaxOrder = 7
    MaxDay = 2
    MaxPaperFault = 1
    MaxReload = 1
    Absent = Absent
    Analysts = {a1, a2}
    MaxRounds = 1
    MaxAttempts = 2
    MaxTick = 1
    MaxCut = 1
    MaxMiss = 1
    VenueOrders = {o1, o2}
    Strays = {o2}
    Deferring = {o1}
    MaxTrade = 3
    MaxEpoch = 1
    MaxOutage = 1
    Payers = {"t1", "t2"}
    Clients = {"c1", "c2"}
    PayerOf <- PayerOfClient
    Calls = {"k1", "k2"}
    NoCall = NoCall
    AgentRuns = {"r1", "r2", "r3"}
    EnvelopesOf <- SomeEnvelopes
    ClientOf <- ClientOfRun
    Exports <- SomeExports
    Unknown = Unknown
    MaxMonth = 2
    MaxClose = 3
    MaxAudit = 2
SYMMETRY Symmetric
CONSTRAINT TradingScenario
INVARIANTS TradingTypeOK TicksAccounted OrdersAllowed  GateHonest FillsAccounted BilledOnce
PROPERTIES PaperBooks SpendAccounted
CHECK_DEADLOCK FALSE
