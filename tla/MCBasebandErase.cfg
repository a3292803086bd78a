CONSTANTS
  CommandAttempts = 2
  ErasePolls = 2
  ProcessTimeout = 14
  StartupSeconds = 1
  MaxInFlight = 2
SPECIFICATION Spec
INVARIANTS
  TypeOK
  NoFalseErase
  RecoveryOnlyAfterErase
  WatchdogSparesWork
PROPERTIES
  Ends
  ImplementsPayload
\* The process exits or resets the phone.
CHECK_DEADLOCK FALSE
