SPECIFICATION Spec
CONSTANTS
  Txs = {t1, t2}
  Withdrawals = {w1, w2}
  MaxReorg = 1
  MaxRewind = 0
  MaxBatch = 1
  FinalityDepth = 2
  ExpiryDelta = 2
  ExpiryReorgs = FALSE
  MaxReorgs = 1
  MaxFaults = 1
SYMMETRY Symmetry
INVARIANTS
  SentIsRecorded
  NeverPaidTwice
  SettledIsPaid
PROPERTIES
  ImplementsPayout
