SPECIFICATION FairSpec
CONSTANTS
  Convs = {c1}
  Posts = {p1, p2}
  Nodes = {n1, n2}
  DefaultNode = n1
  MaxChunks = 2
  None = None
INVARIANTS
  TypeOK
  ActiveExact
  StoredIsStreamed
  RecordMeaning
  UpstreamReleased
PROPERTIES
  FinalWhenIdle
  StopEnds
  ImplementsTurns
