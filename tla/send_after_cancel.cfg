CONSTANTS
    Lots = 2
    e1 = e1
    p1 = p1
    Orders <- OneEntry
    Entries <- OneEntry
    MaxAttempt = 1
    QueryTries = 1
    MaxKill = 0
    MaxFault = 1
    MaxCrash = 0
    MaxSweep = 1
    MaxReset = 0
SPECIFICATION Spec
PROPERTIES
    SendNeverFollowsCancel
