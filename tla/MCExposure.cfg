SPECIFICATION Spec
CONSTANTS
  Txs = {1, 2, 3}
  Amount <- MCAmount
  Unassigned = {}
  MinDeposit = 2
  FastCreditCap = 3
  CreditDepth = 1
  FinalityDepth = 2
  ScanWindow = 3
  MaxReorg = 1
  MaxRewind = 1
  MaxHeight = 2
  MaxReorgs = 0
  MaxFaults = 0
INVARIANTS
  ExposureIsCapped
CHECK_DEADLOCK FALSE
