SPECIFICATION Spec
CONSTANTS
  u1 = u1
  a1 = a1
  a2 = a2
  n1 = n1
  n2 = n2
  n3 = n3
  m1 = m1
  m2 = m2
  m3 = m3
  c1 = c1
  NULL = NULL
  Users <- OneUser
  Addrs <- TwoAddrs
  Names <- ThreeNames
  Mails <- ThreeMails
  Chans <- OneChan
  CregApoyos = 2
SYMMETRY Symmetry
INVARIANTS
  RegisteredIsAccepted
  VotesCounted
PROPERTIES
  ImplementsFounding
