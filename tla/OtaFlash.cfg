SPECIFICATION FlashSpec
CONSTANTS
    GoodImages = {g1}
    BadImages = {b1}
    NoImage = NoImage
    NoCrc = NoCrc
    MaxUpdates = 3
    MaxFaults = 2
    NewImage = g1
    MaxAttempts = 3
    MaxNotices = 2
CHECK_DEADLOCK FALSE
INVARIANTS OtadataSound FaultsSurvived RefusedNeverBoots VerifiedStays
PROPERTIES UpdateSwitchesOnce NothingHangs
