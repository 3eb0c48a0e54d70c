\* Two operations from two drafts, an account that signs out and in, every answer unreliable.
SPECIFICATION FairSpec
CONSTANTS
  Ops = {"o1", "o2"}
  Drafts = {"d1", "d2"}
  PollDrafts = {"d2"}
  Dids = {"alice"}
  None = "nil"
  Base = "r0"
INVARIANTS TypeOK  OneEditPerRevision TwiceOnlyByFault
PROPERTIES ImplementsPublication  
CHECK_DEADLOCK FALSE
