SPECIFICATION Spec
CONSTANTS
  Convs = {c1}
  Messages = {m1, m2}
  Limit = 2
  MaxPages = 1
  MaxLoads = 1
  MaxStops = 1
  None = None
INVARIANTS
  QueuedNotRefused
