SPECIFICATION Spec
CONSTANTS
    Channels = {}
    OwnHash = 1
    PeerHashes = {}
    NumPumps = 6
    NumSwitches = 5
    Temps = {}
    Ambient = 0
    PumpHeat = 400
    Overshoot = 0
    Fields <- MCFields
    EventCap = 4
    SampleCap = 2
    EntryTopics = {"log", "sniff"}
    EntryCap = 2
    Limits = {1, 3}
    InitialSpas <- MCSpas
    WaterTemps <- MCWaterTemps
    Setpoints = {10000, 33500}
    Configs <- MCConfigs
    PipeCap = 1
    Operated <- MCOperated
    MaxOps = 3
INVARIANTS HomeInv
PROPERTIES MissedEventIsMended TogglesItsOwn SetpointShown
