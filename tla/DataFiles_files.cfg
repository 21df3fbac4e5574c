SPECIFICATION FairSpec
CONSTANTS
  c1 = c1
  c2 = c2
  DBs <- TwoKinds
  Changes = {c1, c2}
  Written <- TwoAndOne
  FaultSets <- Together
INVARIANTS
  SavedKept
  RestoredWhole
  ExitSaved
PROPERTIES
  StopsWhenTold
