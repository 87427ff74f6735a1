SPECIFICATION FairSpec
CONSTANTS
    a = a
    b = b
    Users <- TwoUsers
    Clock <- SkewedClock
    Expiry = 1
    NeverStamp = 9
    Kinds <- AllKinds
    MaxRequests = 3
    Coalesce = 1
INVARIANTS
    NoUncaughtException
    QuiescentAgreement
    Readable
    SeqLockstep
    AcksAwaited
    RepliesMatch
PROPERTIES
    ImplementsExchange
    EstablishedOnReturn
    NoDowngrade
    AttemptResolves
CHECK_DEADLOCK FALSE
