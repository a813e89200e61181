CONSTANTS
  Bytes = {"x", "<", "/", "t", "c", "L", "C"}
  Tag <- MCTag
  HoldSize = 5
  Lead = {"L"}
  Cont = {"C"}
  Texts <- MCTexts
  MaxPiece = 4
  MaxUnits = 4
  MaxBroken = 6
SPECIFICATION Spec
INVARIANTS
  ShowsWhatIsMeant
  NothingIsLost
  WholeCharacters
PROPERTY
  PushEnds
CHECK_DEADLOCK FALSE
