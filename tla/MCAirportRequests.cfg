\* The code's five retries; calls, statements and scans end.
CONSTANTS
  MaxRetries = 5
  MaxResults = 2
  Kinds <- MCKinds
  Texts <- MCTexts
  Flights <- MCFlights
  MaxFlights = 5
  VectorSize = 2
  NumEndpoints = 3
  Full = 2
  Unused = Unused
SPECIFICATION PartsSpec
CHECK_DEADLOCK FALSE
INVARIANTS
  RpcInv
  ReturnMeansExecuted
  NoRequestAfterInterrupt
  CompleteIsComplete
  ListingReadsBack
  BarNotAhead
PROPERTIES
  PartsEnd
