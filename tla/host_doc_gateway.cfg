CONSTANTS
    Addresses <- MCAddresses
    Local <- MCLocal
    Failures <- MCFailures
    Unreached <- MCUnreached
    Level <- MCLevel
    Reach <- MCReach
    Dumps <- MCDumps
    Routes <- MCRoutes
    Nodes <- MCGateways
SPECIFICATION Spec
PROPERTIES
    DefaultRouteIsFound
