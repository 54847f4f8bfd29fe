CONSTANTS
    Names = {d1, d2, d3}
    Existing = {d1, d2}
    Replicas = 2
    ReplicaChoices = {1}
    FailBehaviors = {"Remove", "Delete"}
    DGSMaxFailures = 1
    MaxPosts = 2
    MaxChanges = 1
    MaxFaults = 1
    MaxLag = 1
    None = None
SPECIFICATION FairSpec
INVARIANTS TypeOK NeverOvercounted QuietHealthIsTrue
PROPERTIES OnlyFailedAreLetGo InterventionIsSticky Converges
CHECK_DEADLOCK FALSE
