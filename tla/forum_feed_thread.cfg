\* Threads made in the app and on the web, opened from the board page.
SPECIFICATION Spec
CONSTANTS
  Threads = {t1}
  Posts = {p1, p2}
  Reactions = {r1}
  Dids = {me, you}
  Me = me
  None = None
  Limit = 3
  MaxReadIds = 1
  MaxEvents = 5
SYMMETRY Symmetry
INVARIANT LinkedThreadOpens
CHECK_DEADLOCK FALSE
