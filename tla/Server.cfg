\* Two devices, all or one of them monitored; the webhook is switched on and off.
SPECIFICATION FairSpec
CONSTANTS
    Devices = {d1, d2}
    MonitoredSets = {{}, {d1}}
    Threshold = 2
    HistoryCap = 2
    LinkCap = 2
    MaxChanges = 4
    MaxConfigs = 2
    MaxRestarts = 1
    MaxFailures = 1
INVARIANTS StoreConsistent
PROPERTIES OutageClockRuns AlertsAreTrue OutageIsTold
