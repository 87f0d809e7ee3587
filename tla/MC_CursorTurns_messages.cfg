SPECIFICATION Spec
CONSTANTS
    t1 = t1
    t2 = t2
    r1 = r1
    r2 = r2
    c1 = c1
    c2 = c2
    call = call
    NoExec = NoExec
    NoConversation = NoConversation
    NoText = NoText
    NoSession = NoSession
    Turns = {t1, t2}
    Requests = {r1, r2}
    Conversations = {c1, c2}
    ConversationOf <- Apart
    Calls = {call}
    Rounds <- OneRead
    MaxRounds = 1
    MaxRestarts = 1
    MaxExpired = 2
CHECK_DEADLOCK FALSE
INVARIANT MessagesStayInTheirConversation
