SPECIFICATION MCSpec
CONSTANTS
  Name <- MCName
  Units <- MCUnits
  DirUnits = 3
  NDIR = 1
  PPB = 2
  BlocksCount = 5
  BlocksPerGroup = 4
  InodesPerGroup = 2
  CacheSize = 2
  Value = {0, 1}
  Transfers <- MCTransfers
  Fd = {f1}
  Proc = {p1, p2}
  Paths <- MCPaths
  MaxTokens = 3
SYMMETRY MCProcs
CONSTRAINT OneCause
CHECK_DEADLOCK FALSE
INVARIANTS
  
  
  FilesAgree
