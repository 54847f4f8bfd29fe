CONSTANTS
    Min = 1
    Max = 3
    MaxDGSs = 3
    Templates <- OnePort
    None = None
    MaxFaults = 0
SPECIFICATION Spec
INVARIANTS HostPortsAreExclusive
CHECK_DEADLOCK FALSE
