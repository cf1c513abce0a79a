CONSTANTS
  Thread = {t1, t2, t3}
  Msg = {m1, m2, m3}
  Serialized = {m3}
  Drain = Drain
  None = None
SPECIFICATION Safety
SYMMETRY Symmetry
INVARIANTS
  TypeOK
  DrainLosesNothing
  LateSendsRejected
  CountIsAdmitted
  MarkerNotForgotten
PROPERTIES
  ImplementsDrainingMailbox
CHECK_DEADLOCK FALSE
