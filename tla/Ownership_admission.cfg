SPECIFICATION FairSpec
CONSTANTS
    p1 = p1
    p2 = p2
    p3 = p3
    h1 = h1
    h2 = h2
    NoHost = NoHost
    None = None
    Procs <- TwoSlots
    PidOf <- OwnPid
    Sessions = {s1, s2, s3}
    HostOf <- OneHost
    MaxLog = 0
    MaxTodo = 0
    MaxLaunches = 3
PROPERTIES
    NobodyWaitsOnAnotherPrompt
CHECK_DEADLOCK FALSE
