CONSTANTS
  Attempts <- Tries
  MaxFaults = 4
SPECIFICATION Spec
CHECK_DEADLOCK FALSE
INVARIANTS
  TypeOK
  NoFalseReport
  Converges
