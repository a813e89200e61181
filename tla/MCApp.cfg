CONSTANTS
  Size = {1, 2}
  KnownSize <- MCKnownSize
  MaxWrites = 1
  MaxTurns = 2
  MaxClears = 1
  MaxRelaunches = 1
  MaxChunks = 3
SPECIFICATION Spec
INVARIANTS
  ResumedOnce
  LoadsWhatWasExpected
  OneUserOfContext
  ChipsTellTheFraming
  AnswerArrives
  StopIsHeard
PROPERTY
  Settles
CHECK_DEADLOCK FALSE
