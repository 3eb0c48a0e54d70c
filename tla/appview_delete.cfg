\* Content and its delete in one page.
SPECIFICATION ServiceSpec
CONSTANTS
  Entities = {"e1"}
  Keys = {"k1"}
  PageLimit = 2
  MaxLog = 4
  MaxCrashes = 0
INVARIANT DeleteHides
CHECK_DEADLOCK FALSE
