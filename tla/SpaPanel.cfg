SPECIFICATION Spec
CONSTANTS
    Channels = {}
    OwnHash = 1
    PeerHashes = {}
    NumPumps = 6
    NumSwitches = 5
    Temps = {}
    Ambient = 0
    PumpHeat = 400
    Overshoot = 0
    MinutesPerHour = 2
    HoursPerDay = 1
    InitialSpas <- MCSpas
    Topics <- MCTopics
    PanelTemps <- MCPanelTemps
    WebTexts <- MCWebTexts
    PipeBound = 2
    MaxOps = 2
    Patience = 2
    Codes = {99}
INVARIANTS OwnerSeesTheSpa CommandsAreMeant
PROPERTIES StatusIsTruthful Settles
