CONSTANTS
    Names = {d1, d2, d3, d4}
    Existing = {d1, d2}
    Replicas = 2
    ReplicaChoices = {}
    FailBehaviors = {"Remove", "Delete"}
    DGSMaxFailures = 1
    MaxPosts = 2
    MaxChanges = 0
    MaxFaults = 0
    MaxLag = 1
    None = None
SPECIFICATION Spec
INVARIANTS FailuresAreBounded
CHECK_DEADLOCK FALSE
