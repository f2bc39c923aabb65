SPECIFICATION Spec
CONSTANTS
  Txs = {1, 2}
  Amount <- MCAmount
  Unassigned = {}
  MinDeposit = 1
  FastCreditCap = 1
  CreditDepth = 1
  FinalityDepth = 2
  ScanWindow = 3
  MaxReorg = 1
  MaxRewind = 2
  MaxHeight = 3
  MaxReorgs = 1
  MaxFaults = 1
INVARIANTS
  OneLiveCredit
  MatureIsFinal
  WindowCoversPending
  NoneLeftBehind
