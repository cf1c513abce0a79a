CONSTANTS
  Thread = {t1}
  Msg = {m1}
  Serialized = {}
  Drain = Drain
  None = None
SPECIFICATION Safety
INVARIANTS
  DrainProcessesTheQueue
CHECK_DEADLOCK FALSE
