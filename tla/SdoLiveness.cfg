CONSTANTS
    r1 = r1
    r2 = r2
    Requests = {r1, r2}
    None = None
    QueueDepth = 1
    FifoDepth = 1
    Cancelers = {r1}
    MaxCancels = 1
SPECIFICATION FairSpec
PROPERTIES
    StopDrains
    PostedCompletes
