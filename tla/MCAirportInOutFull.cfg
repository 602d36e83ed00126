\* Answers that end with a batch of whole vectors.
CONSTANTS
  t1 = t1
  t2 = t2
  Threads <- MCThreads
  NumInputs = 2
  Reply <- FullReply
  FinalReply <- ShortFinal
  VectorSize = 2
SPECIFICATION Spec
INVARIANTS
  ContinuingMeansMoreOutput
