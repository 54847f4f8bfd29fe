CONSTANTS
    Min = 1
    Max = 3
    MaxDGSs = 2
    Templates <- TwoShapes
    None = None
    MaxFaults = 3
SPECIFICATION Spec
INVARIANTS OthersAreExclusive RingIsWhole CanStartAgain
CHECK_DEADLOCK FALSE
