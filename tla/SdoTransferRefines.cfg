SPECIFICATION Spec
CONSTANTS
  o1 = o1
  o2 = o2
  ro = ro
  gone = gone
  NoIdx = NoIdx
  NoReq = NoReq
  Objects = {o1, o2, ro}
  Writable = {o1, o2}
  CO_SDO_MAX_SEQNO = 127
  CO_SSDO_MAX_SEQNO = 2
  InitialSize <- MCInitialSize
  Requests <- MCRequests
  MaxRequests = 2
  MaxFaults = 1
CHECK_DEADLOCK FALSE
INVARIANTS UndisturbedSucceeds TimerHasHandler
PROPERTIES Implements RequestConfirmed
