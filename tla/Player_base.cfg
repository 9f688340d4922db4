CONSTANTS
    Streams = {audio, video}
    End = 2
    MaxTime = 1
    MaxCalls = 3
SPECIFICATION FairSpec
INVARIANTS
    TypeOK
    SharedBase
    FreshBase
    NothingLost
PROPERTIES
    EndIsTold
CHECK_DEADLOCK FALSE
