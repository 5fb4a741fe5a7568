CONSTANTS
  Row = {1, 2, 3, 4}
  Pos <- MCPos
  Query = {0, 11}
  MaxLayer = 2
SPECIFICATION Spec
INVARIANT ScanExact
