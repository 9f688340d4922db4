CONSTANTS
    StreamIds <- ServerIds
    ClientMode = FALSE
    MaxBins = 2
    MaxMessages = 1
    MaxFlips = 1
SPECIFICATION Spec
INVARIANTS
    ConflictFails
CHECK_DEADLOCK FALSE
