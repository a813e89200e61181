SPECIFICATION Spec
CONSTANTS
  Runtime = runtime
  Tests = tests
  Capacity = 2
  MaxLines = 2
  Overlap = TRUE
  MaxCalls = 4
INVARIANTS MessagesOwned
