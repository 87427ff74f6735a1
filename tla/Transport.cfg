CONSTANTS
    Chars <- MCChars
    EarlyPackets <- MCEarlyPackets
    Packets <- MCPackets
    Null = Null
    MaxSent = 3
    RecvSize = 16

SPECIFICATION Spec
INVARIANT Conserved
PROPERTY ImplementsChannel
CHECK_DEADLOCK FALSE
