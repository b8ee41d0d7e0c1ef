CONSTANTS
    p1 = p1
    p2 = p2
    can = can
    tmr = tmr
    Posters = {p1, p2}
    CanCallbacks = {can}
    TimerCallbacks = {tmr}
    MasterConfigured = TRUE
    QueueDepth = 1
    MaxRuns = 2
    DrainBeforeRestart = TRUE
SPECIFICATION Spec
SYMMETRY PosterSymmetry
INVARIANTS
    QueuePinned
    CallbackLifetime
    ExitBarrier
    StartVerdict
    AcceptedResolved
