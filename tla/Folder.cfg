SPECIFICATION FairSpec
CONSTANTS
  MaxEntries = 4
  FaultKinds <- AllFaultKinds
INVARIANTS TypeOK ErrorHasReason NilAfterAll FolderIsPrefix
PROPERTIES NilIsFinal 
CHECK_DEADLOCK FALSE
