SPECIFICATION Spec
CONSTANTS
  Inference = {j1, j2, j3}
  Others = {o1}
  parallelLimit = 2
  WantsMetrics = {}
  AgentMode = TRUE
SYMMETRY JobSymmetry
INVARIANTS
  SlotsExact
  RecordTruthful
  ProxiedRecorded
