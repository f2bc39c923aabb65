SPECIFICATION FailingSpec
CONSTANTS
  Commands = {c1, c2, c3}
INVARIANTS
  RejectedNeverHappens
CHECK_DEADLOCK FALSE
