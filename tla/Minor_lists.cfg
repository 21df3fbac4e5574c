SPECIFICATION Spec
CONSTANTS
  Parts <- AllParts
  MaxTime = 3
  MaxRounds = 1
  Masks = {m1, m2}
  Spans <- EndOrNever
  Dotime <- Durations
  FullAkills = 2
  AChans = {c1, c2}
  AMasks = {k1, k2}
  CSAutokickMax = 2
  FullAkicks = 3
  MaxRegs = 3
  LChans = {l1, l2}
  LNicks = {n1, n2}
  Greeting = 2
  Tramo1 = 3
  Tramo2 = 4
  Tramo3 = 5
  Incr1 = 1
  Incr2 = 2
  Incr3 = 3
  MaxUsers = 5
  MaxWaiting = 3
  Types <- TwoTypes
  FullItems = 3
  MaxNum = 4
  VNicks = {v1}
  Hosts = {h1}
  NoHost = NoHost
  SixHours = 2
  Senders = {s1, s2}
  Postmasters = {s2}
  Readers = {s1}
  Channel = Channel
  MSMaxMemos = 2
  MaxNumber = 4
  MaxListed = 3
  MaxMemos = 3
INVARIANTS
  GlinesListed
  AkicksOwn
  LimitLeavesRoom
  NewcomersWait
  NoTwins
  HostsOfNicks
PROPERTIES
  SixHoursApart
  CancelOwn
