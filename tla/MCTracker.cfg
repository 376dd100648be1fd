SPECIFICATION MCSpec
CONSTANTS
    Channels = {16}
    OwnHash = 1
    PeerHashes = {}
    NumPumps = 1
    NumSwitches = 0
    Temps = {80, 90}
    AckTimeout = 1
    MaxRetries = 1
    MaxPending = 2
    Durations = {}
    DefaultDuration = 1
    HoldTimeout = 1
    MaxQueue = 2
    RegTimeout = 1
    CtsLoss = 2
    ProbeInterval = 1
    StaleThreshold = 2
    DiagInterval = 1
    PrevChannels = {}
    Frames <- TrackerFrames
    UserCommands <- TrackerCommands
    QueueBound = 3
INVARIANTS PendingSound
PROPERTIES QueueDiscipline
