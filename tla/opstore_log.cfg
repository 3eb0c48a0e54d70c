\* Concurrent edits of one thread, read by a public consumer and a member of a protected board.
SPECIFICATION Spec
CONSTANTS
  Requests <- EditRequests
  Req <- EditReq
  Equivalent <- EditEquivalent
  Protected <- LogProtected
  Consumers = {"appview", "member"}
  Scope <- LogScope
  PageLimit = 1
  ScanBatch = 2
  FirstXid = 1
  XidModulus = 100
INVARIANTS TypeOK GapOnlyByInversion NoLostUpdate MutationByCreator
CHECK_DEADLOCK FALSE
