SPECIFICATION FairSpec
CONSTANTS
  Convs = {c1, c2}
  Messages = {m1, m2}
  Limit = 1
  MaxPages = 2
  MaxLoads = 1
  MaxStops = 3
  None = None
INVARIANTS
  SingleRun
PROPERTIES
  SendingEnds
  QueueMoves
  ImplementsTurns
