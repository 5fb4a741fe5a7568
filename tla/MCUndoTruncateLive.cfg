CONSTANTS
  Rseg = {r1, r2}
  Trx = {t1}
  t1 = t1
  t2 = t2
  View = {}
  Table = {ta}
  ta = ta
  Seg = {s1, s2, s3}
  r1 = r1
  r2 = r2
  s1 = s1
  s2 = s2
  s3 = s3
  SegRseg <- MCSegRseg
  MaxTrxId = 5
  MaxRecs = 2
  RecsPerPage = 1
  BatchSize = 2
  NPurgeThreads = 1
  UndoTruncation = TRUE
  MaxPurgeLag = 0
  MaxPurgeLagDelay = 0
  NUndoSpaces = 2
  RsegSpace <- MCRsegSpace
  PrepareOutcomes = {TRUE}
  NULL = NULL
SPECIFICATION FairSpecU
PROPERTY SkipCleared
