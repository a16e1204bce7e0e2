SPECIFICATION FairSpec
CONSTANTS
    s1 = s1
    s2 = s2
    t1 = t1
    Platform = Platform
    Strategies = {s1, s2}
    Tenants = {t1}
    TenantOf <- OneTenant
    MaxKill = 1
    MaxNow = 2
    Requests <- OnlyLive
    Callers <- AdminOnly
    GateDays = 0
    MaxRow = 2
    MaxEntry = 0
    MaxCrash = 1
CONSTRAINT TenantOrPlatform
INVARIANTS ServedKillIsLocked
PROPERTIES KillEventuallyBinds
CHECK_DEADLOCK FALSE
