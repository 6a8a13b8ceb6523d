SPECIFICATION FairSpec
CONSTANTS
  MaxEntries = 2
  FaultKinds <- ReadFaults
INVARIANTS NilMeansAllFiles
CHECK_DEADLOCK FALSE
