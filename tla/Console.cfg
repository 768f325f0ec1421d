SPECIFICATION FairSpec
CONSTANTS
  Nodes = {n1}
  Convs = {c1, c2}
  Kinds = {"key"}
  MaxLoads = 2
  MaxOther = 1
  None = None
INVARIANTS
  SentWhereShown
PROPERTIES
  RowsCatchUp
