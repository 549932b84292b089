CONSTANTS
  Steps = {0, 1, 4}
  Sizes = {2, 3, 9}
  Tol = 1
  MinSize = 2
  MaxIter = 4
SPECIFICATION Spec
INVARIANTS
  TimeLedger
  ParcelsKept
PROPERTIES
  ImplementsContract
CHECK_DEADLOCK FALSE
