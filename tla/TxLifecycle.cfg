CONSTANTS
  Retries = 5
  MaxReorgs = 2
  MaxForeign = 1
SPECIFICATION FairSpec
CHECK_DEADLOCK FALSE
INVARIANTS ExecutedAtMostOnce SuccessIsReal FailureIsReal
PROPERTIES Returns
