SPECIFICATION Safety
CONSTANTS
  Actor = {a1, a2}
  None = None
  MaxCalls = 1
INVARIANTS
  SparedAreStopping
CHECK_DEADLOCK FALSE
