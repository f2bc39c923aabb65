SPECIFICATION Spec
CONSTANTS
  Txs = {1}
  Amount <- MCAmount
  Unassigned = {}
  MinDeposit = 1
  FastCreditCap = 1
  CreditDepth = 1
  FinalityDepth = 2
  ScanWindow = 3
  MaxReorg = 1
  MaxRewind = 3
  MaxHeight = 4
  MaxReorgs = 1
  MaxFaults = 1
INVARIANTS
  WindowCoversPending
