CONSTANTS
    Min = 1
    Max = 3
    MaxDGSs = 3
    Templates <- OnePort
    None = None
    MaxFaults = 1
SPECIFICATION Spec
INVARIANTS ExposedPortsAreOpen
CHECK_DEADLOCK FALSE
