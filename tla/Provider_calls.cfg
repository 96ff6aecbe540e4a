CONSTANTS
    MaxCalls = 2
    MaxChunks = 1
    FirstKinds = {"async_stream", "vision"}
    LaterKinds = {"task"}
    Modes = {"tui", "plain"}
SPECIFICATION FairSpec
INVARIANTS TypeOK ClosedMeansFinished NoHiddenWorker
PROPERTIES BoundaryStaysClosed LateResultIgnored CancelledStreamEnds
