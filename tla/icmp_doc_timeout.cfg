CONSTANTS
    w1 = w1
    w2 = w2
    Workers <- MCWorkers
    Interval <- MCInterval
    IdSpace = 2
    MayThrow = {}
    CarriesId = {"echo", "reply"}
    MaxTime = 5
    MaxChecks = 3
    MaxJobs = 2
    Timeout <- MCTimeout
SPECIFICATION HearingSpec
PROPERTIES
    TimeoutIsHonoured
