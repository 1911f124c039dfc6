\* Two workers over one item and over three ratings, one over two open requests
\* and over two pictures.
CONSTANTS
  w1 = w1
  w2 = w2
  email = email
  f1 = f1
  Syncs = {w1, w2}
  Items = 1
  Films = {f1}
  Candidate <- ByTitle
  Film <- OneFilm
  MaxSyncDeaths = 1
  MaxStarts = 1
  None = none
  Workers = {w1}
  Channels = {email}
  MaxOpen = 2
  SlaBatch = 1
  MaxLostWorkers = 1
  Ranked <- ThreeRanked
  Poisoned <- FirstTwoPoisoned
  Raters = {w1, w2}
  RatingBatch = 2
  RecoveryWindow = 1
  LongWait = 4
  MaxOutages = 1
  Album <- TwoPictures
  People <- OnePerson
  Fallbacks <- NoPictures
  ImageBatch = 1
  Curators = {w1}
  MaxMishaps = 1
SPECIFICATION ProgressSpec
INVARIANTS
  ProgressTypeOK
  DismissalKept
PROPERTIES
  SourceRecovers
  Escalated
  EveryDueAnswered
  EveryPictureScanned
CHECK_DEADLOCK FALSE
