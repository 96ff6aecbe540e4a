CONSTANTS
    MaxTurns = 1
    MaxRounds = 1
    MaxBatch = 2
    MaxShells = 1
SPECIFICATION FairSpec
PROPERTIES CancellingEnds
CHECK_DEADLOCK FALSE
