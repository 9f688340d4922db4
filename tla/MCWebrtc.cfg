CONSTANTS
    bundle = bundle
    data = data
    Streams <- TwoStreams
    LastMedia = 3
    StreamOf <- BundledAndData
    Inactive = {2}
    Remote <- Candidates
    Described <- InSdp
    Unusable = {1}
    MaxLocal = 2
    MaxGathers = 2
    OtherFamily = {data}
    OwnIds = {1}
    PeerIds = {2}
    MaxBins = 2
    MaxMessages = 2
    MaxCalls = 2
SPECIFICATION MCSpec
INVARIANTS
    Types
    CandidatesKept
    DoneIsLast
    TableBacked
    ToldInOrder
PROPERTIES
    GatheringIsTold
    CallsReturn
    SessionAdded
CHECK_DEADLOCK FALSE
