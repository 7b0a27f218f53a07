\* A device that lost its name, and its user who declines when asked at the next start.
SPECIFICATION FairSpec
CONSTANTS
    Devices = {a, b}
    MaxSessions = 4
    MaxFaults = 0
    MaxKeys = 1
    FaultyKeys = 1
    NameCapacity = 8
    SlowCycle = TRUE
PROPERTIES
    DecliningQuits
