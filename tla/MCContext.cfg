CONSTANTS
  NLayers = 3
  SsmLayers <- MCSsmLayers
  MaxPosition = 4
  ConvKernel = 3
  Token = {a, b}
  Zero = Zero
  Rng = {r1, r2}
  Slot = {s1}
  MaxIds = 2
SPECIFICATION Spec
INVARIANTS
  CachesAgree
  SnapsAgree
  LogitsOfOneHistory
PROPERTY
  KeepsHistory
