\* The poller, and rebuilds between its drains, with fairness and a crash.
SPECIFICATION CarefulSpec
CONSTANTS
  Entities = {"e1"}
  Keys = {"k1"}
  PageLimit = 2
  MaxLog = 3
  MaxCrashes = 1
INVARIANTS TypeOK NoOpLost DeleteInLaterPageHides GraphMatchesLog
 
CHECK_DEADLOCK FALSE
