SPECIFICATION Spec
CONSTANTS
    a1 = a1
    a2 = a2
    a3 = a3
    Appends <- Three
    Kind <- RequestKinds
    Seqno <- InOrder
    ChannelCapacity = 128
INVARIANTS StreamEndsWithActor NoTurnCutOff
INVARIANTS DrainingHasNoAppend NoLostWakeup
CHECK_DEADLOCK FALSE
