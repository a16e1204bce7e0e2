SPECIFICATION AlertingSpec
CONSTANTS
    s1 = s1
    t1 = t1
    Strategies = {s1}
    Tenants = {t1}
    TenantOf <- OneTenant
    Platform = Platform
    MaxKill = 2
    MaxNow = 4
    QuietLimit = 0
    KillLimit = 1
    StallLimit = 1
    DayLength = 3
    MaxBreaker = 2
    MaxWriteFault = 1
    MaxRestart = 1
    NumSources = 2
    MaxPerTick = 2
    PoisonAfter = 2
    DegradeAfter = 2
    MaxSerial = 2
    MaxDrop = 1
    MaxDown = 2
    Deliveries = {d1}
    SilenceAfter = 1
    RejectCap = 1
    MaxClock = 4
    MaxTorn = 1
    MaxReboot = 2
    MaxReject = 3
    e1 = e1
    e2 = e2
    e3 = e3
    e4 = e4
    EntryOrders = {e1, e2, e3, e4}
    Units <- SizesOf
    WithTarget = {e1}
    MinQty = 1
    MaxExit = 4
    MaxAlarm = 2
    MaxClose = 1
    MaxGuardFault = 1
CONSTRAINT AlertingScenario
INVARIANTS AlertingTypeOK EffectsOnce NoneBelowMarkLost AcceptedInOrder
PROPERTIES ActsOnFreshEvidence SkipOnlyAfterRefusals ReceiverHonest GuardSafe
CHECK_DEADLOCK FALSE
