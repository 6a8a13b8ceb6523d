SPECIFICATION Spec
CONSTANTS
  MaxVersion = 2
  Registries <- HubAndMirror
  NoImage = NoImage
  Misbuilt <- MirrorMisbuilt
  Sgx2 = TRUE
  FaultKinds <- AllFaultKinds
  MaxFaults = 2
  Approved <- AllVersions
  ManualVersion = 2
  NoVersion = NoVersion
  PollLimit = 1
  ErrLimit = 0
  Cli <- OneCli
  origin = origin
  mirror = mirror
  c1 = c1
  c2 = c2
INVARIANTS TypeOK KeyReachable KeyInv
PROPERTIES RemovedOnlyForNewer
