SPECIFICATION FairSpec
CONSTANTS
  HeadLen = 2
  BlockLen = 3
  Overhead = 1
  MaxSize = 14
  Unflushed = 1
  FaultKinds <- AllFaultKinds
INVARIANTS TypeOK ErrorMeansFault FileIsPrefix NilMeansComplete
PROPERTIES WorkRunsOut EverythingEnds FileTransferSpec
CHECK_DEADLOCK FALSE
