SPECIFICATION TreeSafety
CONSTANTS
  Actor = {a1, a2, a3}
  None = None
  MaxCalls = 0
SYMMETRY Symmetry
INVARIANTS
  TreeConsistent
  NoOrphanForgotten
  SupervisorHears
CHECK_DEADLOCK FALSE
