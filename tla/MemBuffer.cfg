SPECIFICATION BufferSpec
CONSTANTS
    first = first
    second = second
    Buffers <- TheBuffers
    k1 = k1
    k2 = k2
    k3 = k3
    Blocks <- TheBlocks
    Bytes = {"x", "y"}
    FirstSizes = {0, 1}
    MaxLen = 2
    MaxCapacity = 3
    NoBlock = NoBlock
    Unwritten = Unwritten
    Gone = Gone
SYMMETRY Interchangeable
INVARIANTS
    InBounds
    OwnedOnce
PROPERTIES
    ImplementsQueue
CHECK_DEADLOCK FALSE
