CONSTANTS
  MaxLevel = 2
  NCycles <- ThreeLevelCycles
  MaxSteps = 2
  MaxRegrids = 2
  Fluxes = {0, 1}
SPECIFICATION Spec
INVARIANTS
  Conserved
  CoarseIsAverageOfFine
  FillPatcherFresh
