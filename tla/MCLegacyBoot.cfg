CONSTANTS
  Size <- Sizes
  Gap = 2
  MaxQueue = 2
SPECIFICATION BootSpec
CHECK_DEADLOCK FALSE
INVARIANTS
  BootTypeOK
  BootsWhole
