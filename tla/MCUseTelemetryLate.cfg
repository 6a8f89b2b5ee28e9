CONSTANTS
    StaleMs = 2
    FirstMs = 3
    RetryMs = 1
    Sockets = {s1}
    Backlog = 1
    MaxWorlds = 2
    MaxFaults = 2
    Chunks = 3
    Frames = 2
    CacheSize = 2
    MaxGenerations = 4
    MaxCorrupt = 1
SPECIFICATION UseTelemetrySpec
INVARIANTS ConnectedIsRecent
CHECK_DEADLOCK FALSE
