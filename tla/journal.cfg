CONSTANTS
    e1 = e1
    p1 = p1
    Orders <- EntryAndLeg
    Entries <- OneEntry
    MaxAttempt = 1
    Lots = 2
    QueryTries = 1
    MaxKill = 1
    MaxFault = 1
    MaxCrash = 1
    MaxSweep = 1
    MaxReset = 0
SPECIFICATION Spec
CONSTRAINT SafetyScenario
INVARIANTS
    IInv
    RowsTrueOfVenue
PROPERTIES
    ImplementsLedger
    KillBindsSend
    RevokedNeverSent
