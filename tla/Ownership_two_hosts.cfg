SPECIFICATION Spec
CONSTANTS
    p1 = p1
    p2 = p2
    p3 = p3
    h1 = h1
    h2 = h2
    NoHost = NoHost
    None = None
    Procs <- Slots
    PidOf <- OwnPid
    Sessions = {s1, s2}
    HostOf <- TwoHosts
    MaxLog = 2
    MaxTodo = 0
    MaxLaunches = 3
SYMMETRY SessionSymmetry
INVARIANTS
    TypeOK
    LiveOwnerKeepsItsClaim
    OneLiveOwner
    CheckpointCoversLog
    DriverSeesWholeLog
    TerminalRowsAgree
    Inv
CHECK_DEADLOCK FALSE
