\* Two connections, three identifiers; versions change once, schemas twice; loads of contents end.
CONSTANTS
  t1 = t1
  t2 = t2
  main = main
  other = other
  Connections <- MCThreads
  MaxId = 3
  MaxVersion = 2
  Fixed = FALSE
  NoId = NoId
  None = None
  NoThread = NoThread
  Names <- MCNames
  Main = main
  Kinds <- MCKinds
  Marked = {}
  MaxChanges = 2
  Histories <- MCHistories
  Lower <- MCLower
  Unused = Unused
SPECIFICATION PartsSpec
SYMMETRY MCSymmetry
ACTION_CONSTRAINT MCTornLoses
CHECK_DEADLOCK FALSE
INVARIANTS
  TransactionInv
  NoBorrowedTransaction
  VersionNotOld
  LookupSeesServer
  ContentsAsListed
