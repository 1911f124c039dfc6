SPECIFICATION Spec
CONSTANTS
  Entities = {e1, e2}
  Workers = {w1, w2}
  MaxAttempts = 2
  BatchSize = 1
  Trailers = FALSE
  Patient = FALSE
  MaxStarts = 2
  FaultBudget <- OneHostDeath
PROPERTIES
  ChainsFinish
CHECK_DEADLOCK FALSE
