SPECIFICATION Spec
CONSTANTS
  u1 = u1
  u2 = u2
  oper = oper
  n1 = n1
  n2 = n2
  NULL = NULL
  Users <- TwoUsers
  Opers <- OneOper
  Nicks <- TwoNicks
  CSAccessMax = 2
  Words <- Words3
  LevelWords <- Zero
  Tuned <- TwoLevels
  Flags <- AllFlags
INVARIANTS
  OneEntry
  SuspendedOps
PROPERTIES
  PeersUntouched
  SecureMarks
CONSTRAINTS OneOff Bystander
VIEW View
SYMMETRY Symmetry
