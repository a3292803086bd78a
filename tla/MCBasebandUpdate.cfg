SPECIFICATION Spec
INVARIANTS
  TypeOK
  NoFalseUpdate
PROPERTIES
  Ends
  ImplementsPayload
\* The process ends in a reset of the phone.
CHECK_DEADLOCK FALSE
