CONSTANTS
  Rseg = {r1}
  Trx = {t1, t2}
  t1 = t1
  t2 = t2
  View = {}
  Table = {ta, tb}
  ta = ta
  tb = tb
  Seg = {s1, s2}
  r1 = r1
  r2 = r2
  s1 = s1
  s2 = s2
  s3 = s3
  SegRseg <- MCSegRseg1
  MaxTrxId = 5
  MaxRecs = 2
  RecsPerPage = 1
  BatchSize = 2
  NPurgeThreads = 2
  UndoTruncation = FALSE
  MaxPurgeLag = 1
  MaxPurgeLagDelay = 20000
  NULL = NULL
SPECIFICATION Spec
INVARIANTS TypeOK TableAffinity
SYMMETRY TrxTableSymmetry
