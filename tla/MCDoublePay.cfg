SPECIFICATION Spec
CONSTANTS
  Txs = {t1}
  Withdrawals = {w1}
  MaxReorg = 1
  MaxRewind = 1
  MaxBatch = 1
  FinalityDepth = 2
  ExpiryDelta = 1
  ExpiryReorgs = TRUE
  MaxReorgs = 1
  MaxFaults = 0
INVARIANTS
  NeverPaidTwice
