\* Three requests fill the client and the FIFO; one of them is canceled.
CONSTANTS
    r1 = r1
    r2 = r2
    r3 = r3
    Requests = {r1, r2, r3}
    None = None
    QueueDepth = 2
    FifoDepth = 1
    Cancelers = {r1}
    MaxCancels = 1
SPECIFICATION Spec
SYMMETRY RequestSymmetry
INVARIANTS
    NoDanglingRequest
    CancelKeepsRuntime
    NeverLost
    CancelHonored
