CONSTANTS
    Min = 1
    Max = 4
    Clients = {c1, c2, c3}
    ChanCap = 2
    Existing <- OneServer
SPECIFICATION FairSpec
INVARIANTS TypeOK GrantsAreExclusive BooksBalance OneAnswerPerCall
PROPERTIES CallsReturn ImplementsPool
