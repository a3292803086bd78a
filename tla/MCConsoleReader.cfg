CONSTANTS
  Sizes = {12, 48}
  Attempts = 28
  Polls = 8
  Chunk = 2
  Banner <- Start
  MaxFailures = 2
SPECIFICATION Spec
CHECK_DEADLOCK FALSE
INVARIANTS
  TypeOK
  FitsBuffer
  SeesSoon
