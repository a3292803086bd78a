CONSTANTS
  Pid = {p1, p2, p3, p4}
  NoPid = NoPid
  Attempts = 3
SPECIFICATION Spec
INVARIANTS
  TypeOK
  AtMostOneMux
  NoMuxLeftBehind
PROPERTIES
  RunEnds
