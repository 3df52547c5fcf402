CONSTANTS
    Addresses <- MCAddresses
    Local <- MCLocal
    Failures <- MCFailures
    Unreached <- MCUnreached
    Level <- MCLevel
    Reach <- MCReach
    Dumps <- MCDumps
    Routes <- MCRoutes
    Nodes <- MCAllNodes
SPECIFICATION FairSpec
INVARIANTS
    TypeOK
    StartIsNotRefused
    AddressIsResolved
    FailureIsShown
PROPERTIES
    AddressIsShown
