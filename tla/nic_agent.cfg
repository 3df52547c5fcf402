CONSTANTS
    nic = nic
    gateway = gateway
    worker = worker
    Objects <- MCObjects
    Me = nic
    MessageTypes <- MCMessageTypes
    BindMayFail = TRUE
    MaxQueue = 1
    LinkFlags <- MCLinkFlags
    ShortRange = 16
    FlagsRange = 64
    Updaters <- MCUpdaters
    Periodic = TRUE
    MaxChanges = 2
    MaxStarts = 2
SPECIFICATION FairSpec
INVARIANTS
    TypeOK
    UpdateIsDue
    RegisteredIsHeard
    SocketHasListener
PROPERTIES
    Converges
    RemovalIsPublished
    PublishedIsCurrent
