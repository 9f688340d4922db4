CONSTANTS
    MaxPorts = 3
    MixerPorts = 2
    Threads = {1, 2}
    ViewCount = 2
    MaxUnmapped = 2
    Ids = {1, 2}
    StyleChanges = 3
    Default = 4
    Widths = {4, 8}
    Parts = {1, 2}
    Unit = 2
    AlphaChanges = 4
    UdpPorts = 16
    Privileged = 4
    Suites = {1, 2}
    Offers <- PeerOffers
    Ranges <- PortRanges
    MaxOthers = 1
    MaxLimits = 1
SPECIFICATION MCSpec
INVARIANTS
    Types
    ViewsAsAsked
    OneSize
    Routed
    MediaReachable
CHECK_DEADLOCK FALSE
