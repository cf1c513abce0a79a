SPECIFICATION Spec
CONSTANTS
  Actor = {a1, a2}
  None = None
  MaxCalls = 1
PROPERTIES
  KilledStops
  OrphansEnd
  OrphansStop
CHECK_DEADLOCK FALSE
