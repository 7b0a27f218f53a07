\* One device, a second session, and one publish that fails.
SPECIFICATION Spec
CONSTANTS
    Devices = {a}
    MaxSessions = 2
    MaxFaults = 1
    MaxKeys = 1
    FaultyKeys = 1
    NameCapacity = 8
    SlowCycle = FALSE
INVARIANTS
    NoSelfConflict
