CONSTANTS
    a = a
    b = b
    Clients <- TwoClients
    PrivateKeys = {3, 6}
    NoKey = NoKey
    Setups <- MCSetups
    Prime = 23
    Generator = 5

SPECIFICATION FairSpec
INVARIANTS KeysAgree Authenticated FailureExplained
PROPERTY DialsEnd
CHECK_DEADLOCK FALSE
