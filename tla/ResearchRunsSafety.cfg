SPECIFICATION Safety
CONSTANTS
  Runs = {r1, r2, r3, r4}
  Movies = {m1}
  QueueKey = qk
  DiscoveryKeys = {dk}
  ScheduledKeys = {sk}
  BareKeys = {sk}
  Callers = {c1, c2}
  Workers = {w1, w2}
  NoRun = NoRun
  NoKey = NoKey
  Enabled = {"movie", "queue", "request", "scheduled", "discovery"}
  MaxRetries <- RetryOnce
  MaxStarts = 2
  FaultBudget <- LossFaults
SYMMETRY Symmetry
INVARIANTS
  TypeOK
  MutualExclusion
  WorkUnderLock
  UnlockedIffOver
PROPERTIES
  CompleteStaysComplete
  ImplementsLock
CHECK_DEADLOCK FALSE
