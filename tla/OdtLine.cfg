CONSTANTS
    HostCells <- FewCells
    Supports <- AllSupports
    Nsub = 3
    Halvings = 2
    Crossings <- FewCrossings
    Speeds = {1, 2, 4}
    MaxEvents = 3
    MaxCalls = 1
    Densities = {1, 2}
    Momenta <- FewMomenta
    Viscosities = {0, 1, 3}
SPECIFICATION LineSpec
INVARIANT OwnerMeanIsLes
INVARIANT RecoveryFailsLate
INVARIANT DiffusionSound
INVARIANT MomentRealizable
CHECK_DEADLOCK FALSE
