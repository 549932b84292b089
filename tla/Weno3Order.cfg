CONSTANTS
  Values = {0, 1, 2, 5}
  Coefficients <- SmallPolynomials
  Slopes <- SmallSlopes
  MaxSlopes = 1
  Velocities <- SmallVelocities
  Places <- OnAndOffAxis
  Spins <- StillOrTurning
  Internals <- SmallInternals
  Totals <- SmallTotals
  Formations <- SmallFormations
  Limits <- AllLimits
  Normals <- SmallNormals
  Halves <- AllHalves
  Blocked <- NoneOrSome
  Partials <- SmallPartials
  Gases <- SomeGases
  StarSpeeds = {1, 2}
SPECIFICATION PointwiseSpec
INVARIANT Weno3ThirdOrder
CHECK_DEADLOCK FALSE
