CONSTANTS
    w1 = w1
    w2 = w2
    Workers <- MCWorkers
    Interval <- MCInterval
    IdSpace = 2
    MayThrow = {w1}
    CarriesId = {"echo", "reply", "other"}
    MaxTime = 4
    MaxChecks = 3
    MaxJobs = 2
SPECIFICATION FairSpec
INVARIANTS
    TypeOK
    BusyIffListed
    Serviced
    AnswerIsOwn
    OneReportPerCheck
    AtMostOneRetry
PROPERTIES
    EndsReported
    Promise
    EveryCheckEnds
    SocketIsReleased
