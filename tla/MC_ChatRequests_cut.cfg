SPECIFICATION FairSpec
CONSTANTS
    r1 = r1
    r2 = r2
    near = near
    far = far
    gone = gone
    bad = bad
    NoTarget = NoTarget
    Requests = {r1}
    Targets = {near}
    Slot <- PairSameSlot
    Broken = {}
    Unsendable = {}
    WithImages = {}
    Places = 1
    RetryLimit = 0
    Optional <- NoOptional
PROPERTY AnswersCome
CHECK_DEADLOCK FALSE
