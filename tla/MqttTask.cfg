\* Channels of one message fill up at once; two faults of the network; no "test" requests.
SPECIFICATION FairSpec
CONSTANTS
    Statuses = {s1, s2}
    Inputs = {"toggle", "update", "ha_online"}
    NoValue = NoValue
    StateCap = 1
    CommandCap = 1
    MaxAttempts = 2
    MaxChanges = 2
    MaxInputs = 1
    MaxFaults = 2
INVARIANTS MqttInv
PROPERTIES StateArrives KeepsServing
