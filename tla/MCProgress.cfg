SPECIFICATION SpecProgress
CONSTANTS
  Txs = {1, 2}
  Withdrawals = {w1}
  MaxReorg = 1
  MaxRewind = 1
  MaxBatch = 2
  FinalityDepth = 2
  ExpiryDelta = 2
  ExpiryReorgs = FALSE
  MaxReorgs = 1
  MaxFaults = 1
PROPERTIES
  EveryRequestResolved
  DepositsResolve
