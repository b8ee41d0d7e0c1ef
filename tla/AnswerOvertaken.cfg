\* One request; its answer and another frame.
CONSTANTS
    RxFrames = {"answer", "other"}
    TxFrames = {"other"}
    RxBatch = 2
    RxLen = 2
    TxLen = 2
    FifoLen = 2
    DeviceTx = 1
    Statuses <- MCStatuses
    StatusIndication = TRUE
    CommandIngress = TRUE
    MaxRx = 2
    MaxTx = 2
    MaxStatus = 0
SPECIFICATION CanSpec
PROPERTY
    AnswerNotOvertaken
