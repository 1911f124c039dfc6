\* Two processes over one request, two scans over two titles and a movie of
\* others, two enrichers and two importers over two movies, three evidence
\* rows over two offers, three callers of a provider, two sessions over one
\* poster, two workers over one notice, two chains of repairs and a periodic
\* scan over two movies.
CONSTANTS
  w1 = w1
  w2 = w2
  w3 = w3
  i1 = i1
  i2 = i2
  email = email
  ml = ml
  t1 = t1
  t2 = t2
  t3 = t3
  b1 = b1
  f1 = f1
  f2 = f2
  o1 = o1
  o2 = o2
  Processes = {w1, w2}
  MaxRequests = 1
  Movies = {"m"}
  About <- OneRequest
  From <- OneRequester
  MaxFaults = 1
  MaxActs = 2
  Scans = {w1, w2}
  Languages = {ml}
  Titles = {t1, t2}
  Others = {t3}
  LanguageOf <- AllMalayalam
  ShelfOf <- OneYear
  FilmOf <- SameFilm
  MatchWindow = 1
  Releases = {}
  Films = {f1, f2}
  ImdbOf <- SameImdb
  Blocks = {b1}
  Pages <- OnePage
  Newest <- NewestFirst
  Enrichers = {w1, w2}
  Importers = {i1, i2}
  EnrichBatch = 2
  MaxImports = 2
  Offers = {o1, o2}
  Kinds <- EightKinds
  MaxEvidence = 3
  MaxDate = 1
  Callers = {w1, w2, w3}
  Wanted = {"m"}
  DailyLimit = 2
  MonthlyLimit = 3
  FailureThreshold = 2
  MaxDays = 1
  MaxCalls = 5
  NoCaller = none
  Album <- OnePoster
  People <- Nobody
  Fallbacks <- ThePoster
  ImageBatch = 1
  Curators = {w1, w2}
  MaxMishaps = 1
  Workers = {w1, w2}
  Channels = {email}
  MaxOpen = 1
  SlaBatch = 1
  MaxLostWorkers = 1
  Runners = {w1, w2}
  Scanners = {w3}
  Catalogued = 2
  ScanBatch = 1
  Backfills = 2
  MaxRepairStarts = 2
  MaxRepairFaults = 1
SPECIFICATION PartsSpec
INVARIANTS
  PartsTypeOK
  MailOnce
  RejectionRespected
  DismissalStands
  FilmImportedOnce
  CheckpointsTrailWork
  CreditOnce
  DisputeHidden
  ProviderBudgetKept
  FewStrays
  LossReported
  NoticeOnce
  StagesInSequence
  HealthPassWhole
PROPERTIES
  DatesEarned
  LockHolds
SYMMETRY Symmetry
CHECK_DEADLOCK FALSE
