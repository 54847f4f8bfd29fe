CONSTANTS
    Clients = {c1, c2}
    Names = {1}
    Collections = {1}
    Fields <- MCFields
    Values <- MCValues
    InitialStatus <- MCInitialStatus
    Templates <- MCTemplates
    Calls <- MCCalls
    ListingAuth = FALSE
    Steps = 2
    None = None
    MaxFaults = 1
SPECIFICATION FairSpec
INVARIANTS TypeOK StoredAreAdmitted
PROPERTIES ShutdownIsGraceful ShutdownEnds ImplementsStatusBoard
