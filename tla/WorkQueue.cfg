CONSTANTS
    Keys = {k1, k2}
    Workers = {w1, w2}
    NoKey = NoKey
    ChanCap = 2
    MaxFailures = 1
SPECIFICATION FairSpec
INVARIANTS TypeOK DirtyIsScheduled OneSyncPerKey
PROPERTIES ImplementsRequests RequestsAreServed
