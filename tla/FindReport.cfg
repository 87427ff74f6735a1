SPECIFICATION Spec
CONSTANTS
    a = a
    b = b
    Users <- TwoUsers
    Clock <- SkewedClock
    Expiry = 1
    NeverStamp = 9
    Kinds <- Chats
    MaxRequests = 3
    Coalesce = 1
PROPERTY SuccessIsTrue
CHECK_DEADLOCK FALSE
