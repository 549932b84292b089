CONSTANTS
  MaxSweeps = 3
  MaxSteps = 3
  Configs <- AllConfigs
SPECIFICATION Spec
INVARIANTS
  RefluxMatchesUpdate
  SdcQuadrature
  StartsFromPreviousRate
