SPECIFICATION FairSpec
CONSTANTS
    t1 = t1
    t2 = t2
    r1 = r1
    r2 = r2
    c1 = c1
    c2 = c2
    call = call
    NoExec = NoExec
    NoConversation = NoConversation
    NoText = NoText
    NoSession = NoSession
    Turns = {t1, t2}
    Requests = {r1}
    Conversations = {c1}
    ConversationOf <- One
    Calls = {call}
    Rounds <- SomeRounds
    MaxRounds = 2
    MaxRestarts = 1
    MaxExpired = 0
INVARIANT WaitsCanBeAnswered
INVARIANT ResultsAreTheirOwn
INVARIANT OutputIsShownOnce
PROPERTY TurnsEnd
CHECK_DEADLOCK FALSE
