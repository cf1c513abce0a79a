CONSTANTS
  Thread = {t1, t2}
  Msg = {m1, m2}
  Serialized = {m2}
  Drain = Drain
  None = None
SPECIFICATION Spec
PROPERTIES
  DrainTerminates
CHECK_DEADLOCK FALSE
