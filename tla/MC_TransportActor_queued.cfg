SPECIFICATION Spec
CONSTANTS
    a1 = a1
    a2 = a2
    a3 = a3
    Appends <- Two
    Kind <- QueuedKinds
    Seqno <- TwoInOrder
    ChannelCapacity = 128
INVARIANT StreamEndsWithActor
CHECK_DEADLOCK FALSE
