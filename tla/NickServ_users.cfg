SPECIFICATION FairSpec
CONSTANTS
  u1 = u1
  u2 = u2
  a = a
  b = b
  Users <- TwoUsers
  Nicks <- TwoNicks
  NULL = NULL
  Registrable = {a}
  KillModes = {"quick", "immed"}
  Secure = FALSE
  NSForceNickChange = FALSE
  NSRegMail = TRUE
  CollideQuick = 1
  CollideSlow = 2
  NSReleaseTimeout = 1
  TimeoutCheck = 1
  MaxTime = 0
  MaxTimeouts = 2
INVARIANTS
  TemporaryNeedsUser
  RealNiFollowsNick
  SuspendedNotIdentified
PROPERTIES
  HoldEnds
  ImplementsSession
CHECK_DEADLOCK FALSE
