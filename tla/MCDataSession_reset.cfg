CONSTANTS
    StreamIds <- TwoIds
    ClientMode = TRUE
    MaxBins = 2
    MaxMessages = 2
    MaxFlips = 1
SPECIFICATION FairSpec
PROPERTIES
    ResetFinishes
CHECK_DEADLOCK FALSE
