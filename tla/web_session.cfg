\* One tab, two challenges and sessions, two handlers at once.
SPECIFICATION Spec
CONSTANTS
  ChallengeIds = {ch1, ch2}
  Tokens = {s1, s2}
  Dids = {alice, bob}
  Devices = {phone}
  None = None
  Calls = {k1, k2}
  MaxActive = 2
  MaxApprovals = 1
  ApprovalWindow = 1
  Retention = 1
  ChallengeTTL = 1
  MaxSessionTTL = 1
  MaxTime = 2
  MaxClicks = 4
SYMMETRY Symmetry
INVARIANTS TypeOK ApprovalCooldown OneSessionPerChallenge  
CHECK_DEADLOCK FALSE
