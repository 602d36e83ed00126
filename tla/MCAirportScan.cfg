\* Three threads over five endpoints of all kinds.
CONSTANTS
  t1 = t1
  t2 = t2
  t3 = t3
  Threads <- MCThreads3
  NumEndpoints = 5
  Kind <- MCKind
  Batches <- MCBatches
  VectorSize = 2
SPECIFICATION Spec
SYMMETRY ThreadSymmetry
INVARIANTS
  ScanInv
  NothingLostOnSuccess
  BlockedReadIsCancellable
PROPERTIES
  RowsInStreamOrder
  DeliverySpec
