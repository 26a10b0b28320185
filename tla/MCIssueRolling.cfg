\* MCIssueRolling
CONSTANTS
    e1 = e1
    e2 = e2
    w1 = w1
    w2 = w2
    NoOne = NoOne
    NoEvent = NoEvent
    Events <- MCTwoEvents
    Workers <- MCTwoWorkers
    MaxRetries = 1
    MaxFaults = 2
    MaxAborts = 1
SPECIFICATION Spec
SYMMETRY Symmetry
INVARIANT TurnsInOrder
INVARIANT NoTurnLost
INVARIANT BlockedUncharged
INVARIANT EmbeddingCaughtUp
INVARIANT OneMutationPerTurn
INVARIANT SentimentOfPrecedingReply
PROPERTY ImplementsChain
