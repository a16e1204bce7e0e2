SPECIFICATION Spec
CONSTANTS
    s1 = s1
    s2 = s2
    t1 = t1
    Platform = Platform
    Strategies = {s1}
    Tenants = {t1}
    TenantOf <- OneTenant
    MaxKill = 2
    MaxNow = 3
    Requests <- AllTargets
    Callers <- AnyRole
    GateDays = 1
    MaxRow = 5
    MaxEntry = 1
    MaxCrash = 0
CONSTRAINT NoDriver
INVARIANTS PromotedOnFreshRecord
CHECK_DEADLOCK FALSE
