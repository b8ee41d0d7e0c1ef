\* Node 2 is one that the dispatch of a configuration refuses; an NMT command
\* and an event of Lely interfere with the calls.
CONSTANTS
    p1 = p1
    can = can
    Posters = {p1}
    CanCallbacks = {can}
    TimerCallbacks = {}
    MasterConfigured = TRUE
    QueueDepth = 1
    MaxRuns = 2
    DrainBeforeRestart = TRUE
    c1 = c1
    Callers = {c1}
    Nodes = {1, 2}
    Sources = {1}
    Unsupported = {2}
    None = None
    Automatic = Automatic
    CommandDepth = 1
    MaxCalls = 2
    MaxCommands = 1
    MaxAuto = 1
SPECIFICATION MCSpec
PROPERTIES
    StopCompletes
    AcceptedAnswered
    CallReturns
