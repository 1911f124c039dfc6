SPECIFICATION Safety
CONSTANTS
  Entities = {e1, e2}
  Workers = {w1, w2}
  MaxAttempts = 3
  BatchSize = 2
  Trailers = FALSE
  Patient = FALSE
  MaxStarts = 2
  FaultBudget <- NoFaults
PROPERTIES
  SuccessKept
SYMMETRY Symmetry
CHECK_DEADLOCK FALSE
