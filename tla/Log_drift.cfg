SPECIFICATION Spec
CONSTANTS
    MaxTurns = 3
    MaxResumes = 0
    Retain = 1
INVARIANT MaintainedTogether
CHECK_DEADLOCK FALSE
