\* Log ids and transaction ids are taken at different moments.
SPECIFICATION Spec
CONSTANTS
  Requests <- LogRequests
  Req <- LogReq
  Equivalent <- NoPairs
  Protected <- NoBoards
  Consumers = {"appview"}
  Scope <- LogScope
  PageLimit = 2
  ScanBatch = 2
  FirstXid = 1
  XidModulus = 100
INVARIANT NoGapSkipped
CHECK_DEADLOCK FALSE
