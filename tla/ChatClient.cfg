SPECIFICATION Spec
CONSTANTS
  Convs = {c1}
  Messages = {m1, m2, m3, m4}
  Limit = 2
  MaxPages = 1
  MaxLoads = 1
  MaxStops = 1
  None = None
SYMMETRY NameSymmetry
INVARIANTS
  TypeOK
  SentOnce
  IdleQueueDrained
  OvertakenOnlyWatching
