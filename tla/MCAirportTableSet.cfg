\* Two connections, two tables, one new version of a table besides the first; drops do not count.
CONSTANTS
  t1 = t1
  t2 = t2
  a = a
  b = b
  o1 = o1
  o2 = o2
  o3 = o3
  Threads <- MCThreads
  Names <- MCNames
  Objects <- MCObjects
  NoThread = NoThread
  NoObject = NoObject
  MaxVersion = 2
SPECIFICATION Spec
SYMMETRY MCSymmetry
INVARIANTS
  EntriesSafe
  EntriesMatchServer
