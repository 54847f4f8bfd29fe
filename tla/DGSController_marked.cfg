CONSTANTS
    Pods = {p1}
    Handlers = {h1}
    Settings <- PlayersAndMark
    Retries = 2
    MaxRequests = 2
    MaxFaults = 0
    MaxVersions = 6
    MaxLag = 2
    MaxPodLag = 1
    None = None
SPECIFICATION Spec
INVARIANTS QuietLeavesNoMarked
CHECK_DEADLOCK FALSE
