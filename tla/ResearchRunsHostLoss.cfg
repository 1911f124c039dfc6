SPECIFICATION Safety
CONSTANTS
  Runs = {r1, r2, r3}
  Movies = {m1}
  QueueKey = qk
  DiscoveryKeys = {dk}
  ScheduledKeys = {sk}
  BareKeys = {sk}
  Callers = {c1, c2}
  Workers = {w1, w2}
  NoRun = NoRun
  NoKey = NoKey
  Enabled = {"movie"}
  MaxRetries <- RetryOnce
  MaxStarts = 3
  FaultBudget <- OneHostFault
INVARIANT
  NoConcurrentRuns
CHECK_DEADLOCK FALSE
