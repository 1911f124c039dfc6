\* Two batches and two movies: the budget of the month ends between the check and
\* the search of one of them.
CONSTANTS
  m1 = m1
  m2 = m2
  beat = beat
  orchestrator = orchestrator
  Movies <- TwoMovies
  Workers <- TwoWorkers
  MaxRows = 2
  MaxSessions = 1
  MaxDay = 0
  DaysPerMonth = 1
  DailyLimit = 3
  MonthlyBudget = 2
  MaxQueries = 1
  MaxResults = 1
  Phases <- AlwaysOpen
  Verdicts <- SomeVerdicts
SPECIFICATION BatchesSpec
PROPERTIES
  QuotaIsNotNotFound
CHECK_DEADLOCK FALSE
