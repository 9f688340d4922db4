CONSTANTS
    Clients = {c1, c2}
    MaxRequests = 4
    Posts <- PostRequests
    Symbols = {"x"}
SPECIFICATION MCSpec
INVARIANTS
    Types
    UploadKeepsSession
    OneFeeder
    TerminatedIsQuiet
PROPERTIES
    SessionEnds
    Uploads
CHECK_DEADLOCK FALSE
