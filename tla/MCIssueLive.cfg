\* MCIssueLive
CONSTANTS
    e1 = e1
    e2 = e2
    w1 = w1
    w2 = w2
    NoOne = NoOne
    NoEvent = NoEvent
    Events <- MCTwoEvents
    Workers <- MCOneWorker
    MaxRetries = 0
    MaxFaults = 1
    MaxAborts = 0
SPECIFICATION LiveSpec
PROPERTY EveryTurnCompletes
INVARIANT HeadReleased
