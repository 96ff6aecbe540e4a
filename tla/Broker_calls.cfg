CONSTANTS
    MaxCalls = 3
    Sessions = {s1, s2}
    Files <- AllFiles
    Scenarios <- AllScenes
SPECIFICATION FairSpec
INVARIANTS TypeOK EffectLicensed AuditTrail
PROPERTIES StaleWriteRefused OwnWritesSerialized EveryCallReturns
CHECK_DEADLOCK FALSE
