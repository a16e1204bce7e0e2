CONSTANTS
    e1 = e1
    p1 = p1
    Orders <- OneEntry
    Entries <- OneEntry
    MaxAttempt = 1
    Lots = 2
    QueryTries = 2
    MaxKill = 0
    MaxFault = 1
    MaxCrash = 1
    MaxSweep = 0
    MaxReset = 1
SPECIFICATION FairSpec
CONSTRAINT LossOrRestart
PROPERTIES
    PendingEventuallyResolved
    OrphanEventuallyGone
    OpenFollowsVenue
