SPECIFICATION Spec
CONSTANTS
  u1 = u1
  n1 = n1
  n2 = n2
  c1 = c1
  c2 = c2
  NULL = NULL
  Users <- OneUser
  Opers = {}
  Nicks <- TwoNicks
  Infos <- TwoInfos
  ChannelMax = 2
SYMMETRY Symmetry
PROPERTIES
  FounderOnly
