SPECIFICATION Spec
CONSTANTS
    r1 = r1
    r2 = r2
    near = near
    far = far
    gone = gone
    bad = bad
    NoTarget = NoTarget
    Requests <- Pair
    Targets = {near}
    Slot <- PairSameSlot
    Broken = {}
    Unsendable = {}
    WithImages = {}
    Places = 1
    RetryLimit = 0
    Optional <- NoOptional
INVARIANT NoAttemptEndsAfterFinish
CHECK_DEADLOCK FALSE
