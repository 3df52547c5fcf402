CONSTANTS
    w1 = w1
    w2 = w2
    agent = agent
    Waiters <- MCWaiters
    Agents <- MCAgents
    OwnServer <- MCAgents
    Timeout <- MCTimeout
    Interval <- MCInterval
    MaxQuery = 2
SPECIFICATION FairSpec
INVARIANTS
    TypeOK
    GuardIsReturned
    StatusIsLast
    TriesAreSpaced
PROPERTIES
    EveryCallReturns
