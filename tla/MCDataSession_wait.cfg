CONSTANTS
    StreamIds <- ServerIds
    ClientMode = FALSE
    MaxBins = 2
    MaxMessages = 2
    MaxFlips = 1
SPECIFICATION Spec
INVARIANTS
    NoCircularWait
CHECK_DEADLOCK FALSE
