CONSTANTS
    p1 = p1
    Posters = {p1}
    CanCallbacks = {}
    TimerCallbacks = {}
    MasterConfigured = TRUE
    QueueDepth = 1
    MaxRuns = 2
    DrainBeforeRestart = FALSE
SPECIFICATION Spec
INVARIANT RefsCountPosters
