SPECIFICATION Spec
CONSTANTS
    Problems <- SomeProblems
    UniformDensity = 1
INVARIANTS
    CtuMovesTheCorner
    ContactKeepsComposition
