SPECIFICATION FairSpec
CONSTANTS
  Inference = {j1, j2, j3}
  Others = {}
  parallelLimit = 1
  WantsMetrics = {j1, j2}
  AgentMode = FALSE
INVARIANTS
  TypeOK
  SlotsBacked
  QueueSound
  RecordedOnce
  OnlyAbortLeavesOpen
  MetricsOnlyAtEnd
PROPERTIES
  ImplementsSlots
  EveryJobSettles
