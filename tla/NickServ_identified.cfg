SPECIFICATION Spec
CONSTANTS
  u1 = u1
  u2 = u2
  a = a
  b = b
  Users <- OneUser
  Nicks <- OneNick
  NULL = NULL
  Registrable = {a}
  KillModes = {"quick"}
  Secure = FALSE
  NSForceNickChange = FALSE
  NSRegMail = TRUE
  CollideQuick = 1
  CollideSlow = 2
  NSReleaseTimeout = 1
  TimeoutCheck = 1
  MaxTime = 0
  MaxTimeouts = 1
PROPERTY IdentifiedNotCollided
CHECK_DEADLOCK FALSE
