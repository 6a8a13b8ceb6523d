SPECIFICATION Spec
CONSTANTS
  Proc <- TwoProcs
  Image <- TwoImages
  Args <- TwoModes
  Modes <- TwoModes
  enable = enable
  disable = disable
  Field <- Fields
  Value <- AllValues
  Blank = Blank
  Default <- Defaults
  Name = "name"
  Names <- OneName
  ChainImage = i1
  Keys <- OneKey
  NodeImages <- NewNode
  NoData = NoData
  MaxInvocations = 3
  MaxFaults = 1
  p1 = p1
  p2 = p2
  i1 = i1
  i2 = i2
  k1 = k1
  n1 = n1
  n2 = n2
  s1 = s1
  s2 = s2
INVARIANTS TypeOK AcceptedKept StartsPrevail ModeAsConfigured ChainDataMatches
PROPERTIES SuccessMeansRunning
SYMMETRY Symmetry
CHECK_DEADLOCK FALSE
