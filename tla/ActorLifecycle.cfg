SPECIFICATION Safety
CONSTANTS
  Actor = {a1, a2}
  None = None
  MaxCalls = 2
SYMMETRY Symmetry
INVARIANTS
  TypeOK
  TreeConsistent
  StoppedDetached
  NoOrphanForgotten
  SupervisorHears
CHECK_DEADLOCK FALSE
