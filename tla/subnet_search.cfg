CONSTANTS
    W = 4
    LongBits = 8
    Lists <- MCLists
    Subnets <- MCSubnets
    Searched <- MCSearched
SPECIFICATION Spec
INVARIANTS
    TypeOK
    MaskIsPrefix
    XmlSubnetIsPrefix
    LocalIsOnLink
CHECK_DEADLOCK FALSE
