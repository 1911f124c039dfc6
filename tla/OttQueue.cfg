\* Two batches over one movie with one queue row and one slot a day, on two days
\* of a month whose budget is two queries.
CONSTANTS
  m1 = m1
  m2 = m2
  beat = beat
  orchestrator = orchestrator
  Movies <- OneMovie
  Workers <- TwoWorkers
  MaxRows = 1
  MaxSessions = 1
  MaxDay = 1
  DaysPerMonth = 2
  DailyLimit = 1
  MonthlyBudget = 2
  MaxQueries = 2
  MaxResults = 1
  Phases <- OpenOrNot
  Verdicts <- SomeVerdicts
SPECIFICATION LiveSpec
INVARIANTS
  TypeOK
  BudgetKept
PROPERTIES
  FailureIsNotNotFound
  IneligibleLeavesQueue
  DueIsSelectable
CHECK_DEADLOCK FALSE
