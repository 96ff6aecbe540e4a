SPECIFICATION Spec
CONSTANTS
    MaxModelCalls = 2
    MaxTools = 2
    Modes = {"stream", "run"}
INVARIANTS
    TypeOK
    CompletedTurnRecorded
    CancelledTurnShape
CHECK_DEADLOCK FALSE
PROPERTIES
    RepeatsOnlyForgotten
    TurnEnds
