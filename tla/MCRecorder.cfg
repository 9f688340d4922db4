CONSTANTS
    Callers = {c1, c2}
    Caller = c1
    Media = {audio, video}
    MaxTime = 4
SPECIFICATION MCSpec
INVARIANTS
    TypeOK
    FinalStop
    PausesAreCut
    CleanStop
PROPERTIES
    StopsComplete
CHECK_DEADLOCK FALSE
