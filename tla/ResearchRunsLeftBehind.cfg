SPECIFICATION Safety
CONSTANTS
  Runs = {r1, r2, r3}
  Movies = {m1}
  QueueKey = qk
  DiscoveryKeys = {dk}
  ScheduledKeys = {sk}
  BareKeys = {sk}
  Callers = {c1, c2}
  Workers = {w1, w2}
  NoRun = NoRun
  NoKey = NoKey
  Enabled = {"queue"}
  MaxRetries <- RetryOnce
  MaxStarts = 3
  FaultBudget <- NoFaults
INVARIANT
  NoLockLeftBehind
CHECK_DEADLOCK FALSE
