\* A prepared scan is executed in a later transaction.
CONSTANTS
  t1 = t1
  t2 = t2
  main = main
  other = other
  Connections <- MCThreads
  MaxId = 3
  MaxVersion = 2
  Fixed = FALSE
  NoId = NoId
  None = None
  NoThread = NoThread
  Names <- MCNames
  Main = main
  Kinds <- MCKinds
  Marked = {}
  MaxChanges = 1
  Histories <- MCHistories
  Lower <- MCLower
  Unused = Unused
SPECIFICATION PartsSpec
SYMMETRY MCSymmetry
CHECK_DEADLOCK FALSE
INVARIANTS
  RequestsCarryOwnIdentifier
