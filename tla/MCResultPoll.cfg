CONSTANTS
  Polls <- Window
  Watchdog <- Alarm
  Boot = 30
  Finish = 10
  Reset = 15
  Misses = 3
  Slow = 2
SPECIFICATION Spec
CHECK_DEADLOCK FALSE
INVARIANTS
  TypeOK
  SuccessIsSeen
