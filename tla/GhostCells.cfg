SPECIFICATION Spec
CONSTANT Configurations <- SufficientOptions
INVARIANTS AccessesAllocated ResultsComplete
