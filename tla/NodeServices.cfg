\* EMCY: two slots; the fifth event wraps both the event sequence and the guard
\* of the first slot. Remote nodes: n1 is mandatory and supervised, n2 neither.
\* PDO: an acyclic and a cyclic synchronous type, both event-driven ones, and an
\* unsupported one; a start that may fail, as the interface says. CAN: three
\* frames against a batch and a ring of two; two sent at once against a ring of
\* one.
CONSTANTS
    r1 = r1
    e1 = e1
    e2 = e2
    AnyNode = AnyNode
    Readers = {r1}
    Producers = {e1, e2}
    Depth = 2
    SequenceMod = 5
    GuardMod = 6
    MaxEvents = 5
    MaxRuns = 2
    n1 = n1
    n2 = n2
    Nodes = {n1, n2}
    Mandatory = {n1}
    Heartbeat = {n1}
    ResetAll = TRUE
    p1 = p1
    t1 = t1
    Pdos = {p1, t1}
    Tpdos = {t1}
    Types = {0, 240, 241, 254, 255}
    HasSync = TRUE
    StartMayFail = TRUE
    RxFrames = {"other"}
    TxFrames = {"other"}
    RxBatch = 2
    RxLen = 2
    TxLen = 1
    FifoLen = 3
    DeviceTx = 1
    Statuses <- MCStatuses
    StatusIndication = TRUE
    CommandIngress = TRUE
    MaxRx = 3
    MaxTx = 2
    MaxStatus = 1
SPECIFICATION MCSpec
SYMMETRY Symmetry
INVARIANTS
    EventNewest
    ResultFresh
    LastConfirmed
    GateClosed
    BootExclusive
    SetEffective
    NoCrossing
    NothingStranded
    StateTold
PROPERTIES
    StateBeforeResult
    DrainTerminates
