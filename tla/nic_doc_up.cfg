CONSTANTS
    nic = nic
    gateway = gateway
    worker = worker
    Objects <- MCObjects
    Me = nic
    MessageTypes <- MCMessageTypes
    BindMayFail = FALSE
    MaxQueue = 3
    LinkFlags <- MCLinkFlags
    ShortRange = 16
    FlagsRange = 64
    Updaters <- MCUpdaters
    Periodic = TRUE
    MaxChanges = 3
    MaxStarts = 1
SPECIFICATION SettledSpec
PROPERTIES
    UpIsPublished
