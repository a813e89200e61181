SPECIFICATION Spec
CONSTANTS
  W = 8
  Bytes <- MCBytes
  Sources <- MCSources
  Weights = {0, 1, 2, 3}
  Columns = {0, 1, 2, 3, 4}
  Cpus <- MCCpus
  Tokens = 2
  OutF = 2
  NBlocks = 3
  MaxM = 9
  MaxN = 17
INVARIANTS
  MatmulIsReference
  NearestNumbers
  GemmCoversC
CHECK_DEADLOCK FALSE
