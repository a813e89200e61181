CONSTANTS
  SystemLen = 2
  TurnLen = 2
  ResultLen = 2
  MaxNew = 3
  MaxPosition = 12
  MaxAttempts = 2
  MaxTurns = 2
SPECIFICATION Spec
INVARIANTS
  PositionsInStep
  HistoryOfPass
  
  RefusedTextStops
  CallsAreAnswered
PROPERTY
  UsesHistory
CHECK_DEADLOCK FALSE
