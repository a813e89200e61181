CONSTANTS
  Num <- Ring
  Zero = 0
  One = 1
  add <- Plus
  sub <- Minus
  mul <- Times
  exp <- Exp
  KHd = 2
  VHd = 1
  CHUNK_SIZE = 3
  MaxBatch = 4
  Inputs <- MCInputs
SPECIFICATION HeadSpec
INVARIANTS
  ChunkedStateIsRecurrent
  ChunkedOutputIsRecurrent
