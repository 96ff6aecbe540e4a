SPECIFICATION Spec
CONSTANTS
    MaxTurns = 3
    MaxResumes = 1
    Retain = 1
INVARIANTS
    TypeOK
    ProjectionSound
    MemoryHoldsLog
    EvictedWasAnswered
    OverwriteKnowsRows
    LogCutValid
CHECK_DEADLOCK FALSE
