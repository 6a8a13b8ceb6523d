SPECIFICATION FairSpec
CONSTANTS
  MaxVersion = 1
  Registries <- Hub
  NoImage = NoImage
  Misbuilt <- NoneMisbuilt
  Sgx2 = TRUE
  FaultKinds <- DaemonFaults
  MaxFaults = 1
  Approved <- AllVersions
  ManualVersion = NoVersion
  NoVersion = NoVersion
  PollLimit = 1
  ErrLimit = 0
  Cli <- OneCli
  origin = origin
  mirror = mirror
  c1 = c1
  c2 = c2
PROPERTIES NodeKeptUp
