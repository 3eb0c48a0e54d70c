\* Contending edits and a repeated call, with fairness.
SPECIFICATION FairSpec
CONSTANTS
  Requests <- ProgressRequests
  Req <- ProgressReq
  Equivalent <- NoPairs
  Protected <- LogProtected
  Consumers = {"appview"}
  Scope <- LogScope
  PageLimit = 1
  ScanBatch = 2
  FirstXid = 1
  XidModulus = 100
INVARIANTS OpIdUnique ReactionReplacedOnlyAfterDelete
PROPERTIES  ConsumersCatchUp
CHECK_DEADLOCK FALSE
