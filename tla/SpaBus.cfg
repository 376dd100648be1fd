SPECIFICATION Spec
CONSTANTS
    Channels = {17, 18, 19, 20}
    OwnHash = 1
    PeerHashes = {}
    NumPumps = 2
    NumSwitches = 0
    Temps = {100}
    AckTimeout = 4
    MaxRetries = 2
    MaxPending = 2
    Durations = {}
    DefaultDuration = 2
    HoldTimeout = 1
    MaxQueue = 2
    RegTimeout = 2
    CtsLoss = 4
    ProbeInterval = 3
    StaleThreshold = 9
    DiagInterval = 1
    PrevChannels = {}
    Frames = {}
    UserCommands <- BusCommands
    Ambient = 100000
    PumpHeat = 0
    Overshoot = 0
    FirstClient = 17
    LastClient = 20
    DisplayChannel = 16
    ReadyMin = 1
    ReadyMax = 1
    CommandLatency = 1
    RequireRegistration = TRUE
    RegistrationWindow = 0
    Accepts = {TRUE, FALSE}
    ChannelCapacity = 4
    MaxFaults = 2
    MaxCommands = 1
    MaxSilence = 1
    FilterPumps = {2}
    InitialTemp = 100
INVARIANTS ChannelsAgree NoDoubleToggle
PROPERTIES OneChannelPerSession SessionReturns
