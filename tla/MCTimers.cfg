SPECIFICATION MCSpec
CONSTANTS
    Channels = {16}
    OwnHash = 1
    PeerHashes = {}
    NumPumps = 1
    NumSwitches = 0
    Temps = {80}
    AckTimeout = 1
    MaxRetries = 1
    MaxPending = 1
    Durations = {1}
    DefaultDuration = 1
    HoldTimeout = 1
    MaxQueue = 1
    RegTimeout = 1
    CtsLoss = 2
    ProbeInterval = 1
    StaleThreshold = 2
    DiagInterval = 1
    PrevChannels = {}
    Frames <- TimerFrames
    UserCommands <- TimerCommands
    QueueBound = 2
INVARIANTS TimerForRunningPump
