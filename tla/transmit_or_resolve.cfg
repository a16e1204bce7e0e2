CONSTANTS
    Lots = 2
    e1 = e1
    p1 = p1
    Orders <- OneEntry
    Entries <- OneEntry
    MaxAttempt = 0
    QueryTries = 1
    MaxKill = 0
    MaxFault = 0
    MaxCrash = 0
    MaxSweep = 0
    MaxReset = 0
SPECIFICATION Spec
PROPERTIES
    TransmitExcludesResolveAbsent
