CONSTANTS
  Settings <- Runs
  n_factor <- Factors
  InitDivisor = 2
  ChangeMax = 2
  MaxSteps = 16
  MaxCrashes = 2
SPECIFICATION Spec
INVARIANTS
  LandsOnStopTime
  EveryLevelWithinLimit
  RestartTransparent
PROPERTIES
  Terminates
  ImplementsPromise
