\* Two threads that share the exchange, or one that has it alone.
CONSTANTS
  t1 = t1
  t2 = t2
  Threads <- MCThreads
  NumInputs = 3
  Reply <- LongReply
  FinalReply <- LongFinal
  VectorSize = 2
SPECIFICATION LiveSpec
INVARIANTS
  InOutInv
  ContinuingMeansMoreOutput
  EachInputSentOnce
PROPERTIES
  OutputBelongsToInput
  ExchangeEnds
