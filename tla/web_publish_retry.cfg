\* A confirmation repeated after an answer of the proxy.
SPECIFICATION Spec
CONSTANTS
  Ops = {"o1", "o2"}
  Drafts = {"d1", "d2"}
  PollDrafts = {"d2"}
  Dids = {"alice"}
  None = "nil"
  Base = "r0"
INVARIANT NoSecondSignature
CHECK_DEADLOCK FALSE
