CONSTANTS
    Streams = {audio, video}
    End = 1
    MaxTime = 0
    MaxCalls = 3
SPECIFICATION Spec
PROPERTIES
    EndIsReal
CHECK_DEADLOCK FALSE
