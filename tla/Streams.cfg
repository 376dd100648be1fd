SPECIFICATION Spec
CONSTANTS
    SentFrames <- MCSentFrames
    FaultWindow = 24
    MaxFaults = 2
    Subscriptions <- MCSubscriptions
    MaxSkip = 2
    SubackPayload = 128
    RxMax = 200
    PacketCases <- MCPacketCases
    ImageCases <- MCImageCases
    Pieces = {1, 2, 3, 4, 30}
    WordSize = 4
    PartitionSize = 8
    MaxHeader = 12
    LogLevels <- MCLogLevels
    LogBatch = 2
    LogSize = 3
    SniffFrames = 5
    SniffReads = {5, 12}
    SniffCap = 1
    MaxHexLen = 40
INVARIANTS ImageSafe InStep AckedIsDelivered BuffersHold
PROPERTIES DeliversInOrder Drains
CHECK_DEADLOCK FALSE
