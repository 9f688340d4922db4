CONSTANTS
    MaxPorts = 3
    OutputWidth = 800
    OutputHeight = 600
SPECIFICATION FairSpec
INVARIANTS
    TypeOK
    EachHasItsCell
    RemovedOnce
PROPERTIES
    RemovalReturns
    ElementsLeave
CHECK_DEADLOCK FALSE
