\* Five chunks, two messages under way in each direction; two threads evaluate the scalar
\* function; statements end.
CONSTANTS
  t1 = t1
  t2 = t2
  c1 = c1
  c2 = c2
  c3 = c3
  c4 = c4
  c5 = c5
  Threads <- MCThreads
  Chunks <- MCChunks
  NoThread = NoThread
  NoChunk = NoChunk
  Final = Final
  Capacity = 2
  MaxRows = 2
  MaxVectors = 1
  Parameters <- MCParameters
  ArgumentTypes <- MCArgumentTypes
  AnyType <- MCAnyType
  Garbage = Garbage
  Unused = Unused
SPECIFICATION PartsSpec
CHECK_DEADLOCK FALSE
INVARIANTS
  ExchangeInv
  SuccessIsComplete
  ResultsMatchRows
PROPERTIES
  WaitsEnd
