\* A rotation inside the grace window of a recovery.
SPECIFICATION Spec
CONSTANTS
  Clients = {phone, laptop}
  Crons = {cron}
  Keys = {k1, k2}
  Codes = {c1}
  NoKey = NoKey
  NoCode = NoCode
  Legacy = TRUE
  MaxAnchors = 3
  MaxCrashes = 0
SYMMETRY Symmetry
INVARIANT ChainServed
CHECK_DEADLOCK FALSE
