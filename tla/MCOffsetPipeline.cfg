CONSTANTS
  w1 = w1
  w2 = w2
  Workers = {w1, w2}
  LogEnd = 2
  MaxAttempts = 1
  PropagateError = FALSE
  MaxSessions = 2
  MaxCrashes = 1
SPECIFICATION Spec
INVARIANTS
  NothingSkipped
  ListNotEmpty
  LateInsertsAreAbove
PROPERTIES
  ImplementsAtLeastOnce
  EverythingCommitted
  CloseCompletes
