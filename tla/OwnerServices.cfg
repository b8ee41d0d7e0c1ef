\* Deadline: two wraps of the tick counter, deadlines up to twice as far as the RT
\* timer reaches. Snapshots: one reader of lower or higher priority, a counter
\* that wraps at the third publication.
CONSTANTS
    r1 = r1
    Readers = {r1}
    SeqMod = 6
    MaxPublications = 3
    MaxStarts = 2
    DrainReaders = TRUE
    TickRange = 12
    IntMax = 100
    TicksPerSec = 3
    Nano = 10
    Milli = 5
    PollMs = 12
    Phases = {0, 5}
    MaxLatency = 1
    Ingress = TRUE
    MaxAhead = 22
    Horizon = 26
    TimerFails = TRUE
SPECIFICATION MCSpec
INVARIANTS
    ReadStable
    TimerExact
PROPERTIES
    ReadReturns
    DeadlineServed
