CONSTANTS
  Blocks <- broken
  MaxBlocks = 2
  MaxOut = 2
  MaxParams = 2
  Escape <- escape
  BadEscapes <- badEscapes
  Numerals <- numerals
SPECIFICATION Spec
PROPERTY docs_ValueReturns
CHECK_DEADLOCK FALSE
