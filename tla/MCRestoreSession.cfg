SPECIFICATION SessionSpec
CHECK_DEADLOCK FALSE
INVARIANTS
  SessionTypeOK
  OkMeansRestored
PROPERTIES
  ExcludedPreserves
