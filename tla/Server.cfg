SPECIFICATION FairSpec
CONSTANTS
    a = a
    b = b
    x = x
    y = y
    Clients <- TwoClients
    Names <- TwoNames
    NoName = NoName
    Kinds <- AllKinds
    MaxRequests = 2
    HangUps = TRUE
    Coalesce = 1
INVARIANTS TypeOK DirectoryConsistent
PROPERTIES ImplementsService RepliesCome
CHECK_DEADLOCK FALSE
