SPECIFICATION Spec
CONSTANTS
  u1 = u1
  u2 = u2
  c1 = c1
  Users <- TwoUsers
  Chans <- OneChan
  MaxEntries = 2
SYMMETRY Symmetry
INVARIANTS
  ListsAgree
  NobodyUnseen
  GhostsFromKicks
  OpsAreUsers
