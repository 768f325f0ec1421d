SPECIFICATION Spec
CONSTANTS
  Tokens = {t1, t2}
  Nodes = {n1, n2}
  Joins = {j1, j2}
  Heartbeats = {h1}
  Calls = {q1}
  Window = 1
  TTL = 2
  MaxTime = 3
  Skews <- MCSkews
  MaxTaken = 4
  None = None
SYMMETRY IdSymmetry
INVARIANTS
  OneIdentityPerToken
  Accounted
  RepeatedOnlyAfterWindow
