SPECIFICATION SessionSpec
CHECK_DEADLOCK FALSE
INVARIANTS
  RetryIsSecondPass
