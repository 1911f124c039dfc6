SPECIFICATION Safety
CONSTANTS
  Entities = {e1, e2, e3}
  Workers = {w1, w2}
  MaxAttempts = 2
  BatchSize = 2
  Trailers = TRUE
  Patient = TRUE
  MaxStarts = 3
  FaultBudget <- BreakingFaults
INVARIANTS
  TypeOK
  AttemptsBounded
  OneChain
  CompleteMeansNothingLeft
PROPERTIES
  SuccessKept
SYMMETRY Symmetry
CHECK_DEADLOCK FALSE
