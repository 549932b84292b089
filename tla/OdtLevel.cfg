CONSTANTS
  Layouts <- AllLayouts
  Moments = {0, 1}
  NewCalls = 1
  MaxSteps = 2
SPECIFICATION Spec
INVARIANTS
  LinesFollowLes
  EveryOwnerHasLine
  ConservativeReturn
CHECK_DEADLOCK FALSE
