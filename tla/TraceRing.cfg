SPECIFICATION Spec
CONSTANTS
  Runtime = runtime
  Tests = tests
  Capacity = 2
  MaxLines = 2
  Overlap = FALSE
  MaxCalls = 4
INVARIANTS MessagesOwned LogIsTheTrace ReadsWhatItAsked
