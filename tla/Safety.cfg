SPECIFICATION Spec
CONSTANTS
  MaxVersion = 2
  Registries <- Hub
  NoImage = NoImage
  Misbuilt <- NoneMisbuilt
  Sgx2 = TRUE
  FaultKinds <- ProcessFaults
  MaxFaults = 1
  Approved <- AllVersions
  ManualVersion = NoVersion
  NoVersion = NoVersion
  PollLimit = 1
  ErrLimit = 0
  Cli <- TwoClis
  origin = origin
  mirror = mirror
  c1 = c1
  c2 = c2
SYMMETRY CliSymmetry
INVARIANTS  SealedInv
PROPERTIES KeyCustodySpec
