SPECIFICATION FairSpec
CONSTANTS
    a1 = a1
    a2 = a2
    a3 = a3
    Appends <- Two
    Kind <- TwoKinds
    Seqno <- TwoInOrder
    ChannelCapacity = 1
INVARIANT SupersededRunsAreCancelled
INVARIANT DrainLosesNothing
PROPERTY SendersGoOn
PROPERTY DrainEnds
PROPERTY DisconnectStopsEverything
CHECK_DEADLOCK FALSE
