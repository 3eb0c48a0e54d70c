\* One DID, two concurrent clients and the promotion job.
SPECIFICATION Spec
CONSTANTS
  Clients = {phone, laptop}
  Crons = {cron}
  Keys = {k1, k2}
  Codes = {c1}
  NoKey = NoKey
  NoCode = NoCode
  Legacy = TRUE
  MaxAnchors = 3
  MaxCrashes = 1
SYMMETRY Symmetry
INVARIANTS TypeOK OneActive CodeUsedOnce
PROPERTIES ChainKept FreezeHolds
CHECK_DEADLOCK FALSE
