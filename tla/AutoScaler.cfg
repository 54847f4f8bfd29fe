CONSTANTS
    Names = {d1, d2}
    Replicas = 1
    ReplicaChoices = {2}
    PlayerCounts = {1, 2}
    MinimumReplicas = 1
    MaximumReplicas = 2
    ScaleInThreshold = 30
    ScaleOutThreshold = 40
    MaxPlayersPerServer = 2
    CoolDown = 1
    Never = Never
    None = None
    MaxTime = 2
    MaxDisturbances = 1
    MaxVersions = 6
    MaxLag = 1
SPECIFICATION FairSpec
INVARIANTS TypeOK
PROPERTIES CoolDownIsKept DecisionIsCurrent HighLoadIsAnswered
CHECK_DEADLOCK FALSE
