CONSTANTS
    Clients = {c1, c2}
    MaxRequests = 4
SPECIFICATION FairSpec
PROPERTIES
    ReconnectionIsTimed
CHECK_DEADLOCK FALSE
