\* Two threads, three endpoints, and a server that may stop answering at any read.
CONSTANTS
  t1 = t1
  t2 = t2
  t3 = t3
  Threads <- MCThreads2
  NumEndpoints = 3
  Kind <- MCKindLive
  Batches <- MCBatchesLive
  VectorSize = 2
SPECIFICATION Spec
PROPERTIES
  ScanTerminates
  InterruptStops
