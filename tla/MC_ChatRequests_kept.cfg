SPECIFICATION Spec
CONSTANTS
    r1 = r1
    r2 = r2
    near = near
    far = far
    gone = gone
    bad = bad
    NoTarget = NoTarget
    Requests <- Pair
    Targets = {near, far, gone, bad}
    Slot <- PairSlot
    Broken = {gone}
    Unsendable = {bad}
    WithImages = {}
    Places = 1
    RetryLimit = 0
    Optional <- NoOptional
INVARIANT NoPlaceIsLost
CHECK_DEADLOCK FALSE
