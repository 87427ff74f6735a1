SPECIFICATION FairSpec
CONSTANTS
    MaxKeys = 3
    MaxPackets = 2
    MaxCount = 2
INVARIANTS TypeOK NoLostWakeup ClosedSeenFirst
PROPERTIES EndsOnceDecided DisconnectEnds InboxRead
CHECK_DEADLOCK FALSE
