CONSTANTS
  MaxHist = 12
  Lags = {0, 1, 2, 3, 5}
  MaxDelays = {0, 3000, 12345, 1000000}
SPECIFICATION Spec
INVARIANTS DelayShape TypeDecode
