\* Two devices that share a name, three listen sessions between them, and a fault or a
\* take-over or both on the way.
SPECIFICATION FairSpec
CONSTANTS
    Devices = {a, b}
    MaxSessions = 3
    MaxFaults = 1
    MaxKeys = 3
    FaultyKeys = 1
    NameCapacity = 2
    SlowCycle = TRUE
INVARIANTS
    TypeOK
    PromptIsAnswerable
PROPERTIES
    ImplementsOneName
    DecisionsAreFresh
    NameSettles
    DialerGetsThrough
