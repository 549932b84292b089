CONSTANTS
  MaxSweeps = 3
  MaxSteps = 3
  Configs <- MatchedConfigs
SPECIFICATION Spec
INVARIANTS
  RefluxMatchesUpdate
  FluxIsTrapezoidal
  ReactionCountedOnce
