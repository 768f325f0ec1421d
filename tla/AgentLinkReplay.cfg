SPECIFICATION Spec
CONSTANTS
  Tokens = {t1}
  Nodes = {n1}
  Joins = {j1}
  Heartbeats = {h1}
  Calls = {q1}
  Window = 1
  TTL = 2
  MaxTime = 4
  Skews <- MCSkews
  MaxTaken = 2
  None = None
INVARIANTS
  AcceptedOnce
