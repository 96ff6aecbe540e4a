SPECIFICATION Spec
CONSTANTS
    p1 = p1
    p2 = p2
    h1 = h1
    NoHost = NoHost
    None = None
    Procs <- Slots
    PidOf <- OwnPid
    Sessions = {s1, s2}
    HostOf <- OneHost
    MaxLog = 2
    MaxTodo = 1
    MaxLaunches = 3
PROPERTIES
    ImplementsLifecycle
CHECK_DEADLOCK FALSE
