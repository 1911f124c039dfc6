SPECIFICATION Spec
CONSTANTS
  Runs = {r1, r2}
  Movies = {m1}
  QueueKey = qk
  DiscoveryKeys = {dk}
  ScheduledKeys = {sk}
  BareKeys = {sk}
  Callers = {c1}
  Workers = {w1, w2}
  NoRun = NoRun
  NoKey = NoKey
  Enabled = {"movie", "discovery"}
  MaxRetries <- RetryTwice
  MaxStarts = 1
  FaultBudget <- AllTaskFaults
PROPERTIES
  LocksReturned
CHECK_DEADLOCK FALSE
