\* The code's capacity, and a user who answers a prompt with one key more than that.
SPECIFICATION FairSpec
CONSTANTS
    Devices = {a, b}
    MaxSessions = 2
    MaxFaults = 0
    MaxKeys = 9
    FaultyKeys = 1
    NameCapacity = 8
    SlowCycle = TRUE
PROPERTIES
    PromptTakesAnAnswer
