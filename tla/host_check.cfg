CONSTANTS
    me = me
    other = other
    Me = me
    Workers <- MCWorkers
    Interval <- MCInterval
    IdSpace = 2
    MayThrow = {me}
    CarriesId = {"reply"}
    MaxTime = 2
    MaxChecks = 2
    MaxJobs = 1
    Nodes <- MCNodes
    Addresses <- MCAddresses
    Local = {}
    Failures = {}
    Dumps <- MCDumps
    Routes <- MCRoutes
    Reach <- MCReach
    Level <- MCLevel
SPECIFICATION CheckSpec
VIEW MCView
INVARIANTS
    StartIsAccepted
PROPERTIES
    AgentIsServed
