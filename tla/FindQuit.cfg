SPECIFICATION Spec
CONSTANTS
    MaxKeys = 1
    MaxPackets = 0
    MaxCount = 1
PROPERTIES RequestsTaken
CHECK_DEADLOCK FALSE
