SPECIFICATION MCFairSpec
CONSTANTS
    Channels = {16, 17}
    OwnHash = 1
    PeerHashes = {9}
    NumPumps = 0
    NumSwitches = 0
    Temps = {80}
    AckTimeout = 1
    MaxRetries = 1
    MaxPending = 1
    Durations = {}
    DefaultDuration = 2
    HoldTimeout = 1
    MaxQueue = 1
    RegTimeout = 2
    CtsLoss = 2
    ProbeInterval = 1
    StaleThreshold = 3
    DiagInterval = 1
    PrevChannels = {16}
    Frames <- SessionFrames
    UserCommands <- SessionCommands
    QueueBound = 2
INVARIANTS AppInv
PROPERTIES HandshakeEnds SilenceNoticed
