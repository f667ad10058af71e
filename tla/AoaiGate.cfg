SPECIFICATION Spec
CONSTANTS
  Callers = {c1, c2, c3}
  Streaming = {c1, c2}
  MinCapacity = 1
  InitialCapacity = 2
  MaxCapacity = 2
  HealthyToGrow = 2
  MaxRetries = 1
  MaxAdjustments = 1
  Features = {f1}
  Lacking = {f1}
  MaxCalls = 1
  MaxTrouble = 2
SYMMETRY GateSymmetry
INVARIANTS
  TypeOK
  NoSleeperBesideFreeSlot
  LoopNeverRunsOut
PROPERTIES
  GrowthIsEarned
CHECK_DEADLOCK FALSE
