CONSTANTS
    lo = lo
    eth = eth
    Nics <- MCNics
    Loopback <- MCLoopback
    MaxChanges = 2
SPECIFICATION FairSpec
INVARIANTS
    ScanIsTrue
PROPERTIES
    CountIsTrue
    CountSettles
