CONSTANTS
    Pods = {p1}
    Handlers = {h1}
    Settings <- PlayersOnly
    Retries = 2
    MaxRequests = 2
    MaxFaults = 1
    MaxVersions = 14
    MaxLag = 2
    MaxPodLag = 1
    None = None
SPECIFICATION FairSpec
INVARIANTS TypeOK QuietStatusIsTrue
PROPERTIES NoLostUpdate SettlesDown ScaledInIsDeleted
CHECK_DEADLOCK FALSE
