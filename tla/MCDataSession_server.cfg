CONSTANTS
    StreamIds <- TwoIds
    ClientMode = FALSE
    MaxBins = 2
    MaxMessages = 2
    MaxFlips = 2
SPECIFICATION Spec
INVARIANTS
    TypeOK
    HandleBacked
    ReceiverReady
    RemoteCloseInFlight
PROPERTIES
    EventsInOrder
CHECK_DEADLOCK FALSE
