CONSTANTS
    w1 = w1
    w2 = w2
    Workers <- MCWorkers
    Interval <- MCInterval
    IdSpace = 3
    MayThrow = {}
    CarriesId = {"reply"}
    MaxTime = 6
    MaxChecks = 3
    MaxJobs = 2
    Delay = 1
SPECIFICATION TimedSpec
INVARIANTS
    ChecksEndInTime
    LateByStarts
