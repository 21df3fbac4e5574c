SPECIFICATION Spec
CONSTANTS
  root = root
  nick = nick
  None = None
  Nicks <- TwoNicks
  Chans = {chan}
  ServicesRoots <- Root
  a1 = a1
  a2 = a2
  Addrs <- TwoAddrs
  Focus <- Lists3
  MaxRounds = 2
  chan = chan
  MAX_SERVADMINS = 1
  MAX_SERVDEVELS = 2
  MAX_SERVOPERS = 3
  MAX_SERVPATROCINAS = 3
INVARIANTS
  StaffRegistered
  FlagsOfStaff
PROPERTIES
  RankFromAbove
SYMMETRY Swap
