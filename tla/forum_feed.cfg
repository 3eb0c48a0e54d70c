\* One thread with two replies and a reaction, written from the app and from the web.
SPECIFICATION Spec
CONSTANTS
  Threads = {t1}
  Posts = {p1, p2}
  Reactions = {r1}
  Dids = {me, you}
  Me = me
  None = None
  Limit = 3
  MaxReadIds = 1
  MaxEvents = 5
SYMMETRY Symmetry
INVARIANTS TypeOK PageMatchesLog  DeletesEitherSide   AppThreadOpens
PROPERTY ReadSticks
CHECK_DEADLOCK FALSE
