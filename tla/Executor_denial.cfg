SPECIFICATION Spec
CONSTANTS
    MaxModelCalls = 2
    MaxTools = 2
    Modes = {"stream"}
INVARIANT CutStaysValid
CHECK_DEADLOCK FALSE
