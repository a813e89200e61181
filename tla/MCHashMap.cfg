CONSTANTS
  Keys = {a, b, c, d, e}
  Hashes = {0, 3, 4}
  FirstCapacity = 4
  MaxPuts = 5
  MaxCapacity = 8
SYMMETRY perms
SPECIFICATION Spec
INVARIANTS GetsWhatWasPut ProbesEnd ValuesFreedOnce
PROPERTY IsDictionary
CHECK_DEADLOCK FALSE
