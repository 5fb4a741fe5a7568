CONSTANTS
  Name = {n1, n2}
  n1 = n1
  n2 = n2
  DdlName = {n1}
  ColName = {ca, cb}
  ca = ca
  cb = cb
  MaxTableId = 2
  MaxCols = 2
  MaxIndexId = 4
  MaxIdx = 2
  MaxFields = 1
  MaxDdl = 3
SPECIFICATION Spec
INVARIANT LoadConsistent LoadOnIdConsistent
SYMMETRY ColSymmetry
\* The dictionary is idle once the bounded DDL transactions are done and
\* purge has nothing left to remove.
CHECK_DEADLOCK FALSE
