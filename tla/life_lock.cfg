SPECIFICATION Spec
CONSTANTS
    s1 = s1
    s2 = s2
    t1 = t1
    Platform = Platform
    Strategies = {s1}
    Tenants = {t1}
    TenantOf <- OneTenant
    MaxKill = 1
    MaxNow = 2
    Requests <- L1Only
    Callers <- AdminOnly
    GateDays = 0
    MaxRow = 7
    MaxEntry = 1
    MaxCrash = 0
CONSTRAINT StrategyScope
INVARIANTS IInv LiveAfterLockPassesPaper WindowIsLC16
CHECK_DEADLOCK FALSE
