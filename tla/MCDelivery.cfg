\* MCDelivery
CONSTANTS
    m1 = m1
    m2 = m2
    a1 = a1
    c1 = c1
    c2 = c2
    h1 = h1
    h2 = h2
    NoOne = NoOne
    NoMessage = NoMessage
    Messages <- MCMessages
    Echoes <- MCEchoes
    Chats <- MCChats
    ChatOf <- MCTwoChats
    Handlers <- MCHandlers
    PoolSize = 3
    PauseOnReply = TRUE
    MaxRequests = 2
    MaxFaults = 2
SPECIFICATION FairSpec
INVARIANT OutcomeTruthful
INVARIANT BlockedByPoolOnly
PROPERTY PausedChatsStaySilent
PROPERTY ImplementsReplies
PROPERTY RepliesSettle
