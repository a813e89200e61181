CONSTANTS
  Blocks <- blocks
  MaxBlocks = 3
  MaxOut = 2
  MaxParams = 2
  Escape <- escape
  BadEscapes <- badEscapes
  Numerals <- numerals
SPECIFICATION Spec
INVARIANTS CallsAreRead ToolsAskedAsMeant
PROPERTY ParseEnds
CHECK_DEADLOCK FALSE
