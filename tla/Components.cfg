\* Every component on a small instance, one per behaviour.
SPECIFICATION FairSpec
CONSTANTS
    Dialers = {d1, d2}
    Conns = {c1}
    RecentPinCache = 1
    MaxPins = 2
    NoPeer = NoPeer
    Proxies = {p1, p2}
    None = None
    CommandCap = 2
    MaxKeys = 4
    MaxInitialAttempts = 10
    MaxBackoff = 30
    OneStream = {s1}
    MaxUnits = 1
    Streams = {s1, s2}
    Reversed = {s2}
    MaxStreams = 1
    MaxAddresses = 2
    BucketTicks = 3
    PinCache = 3
    MaxPublish = 3
    MaxTime = 13
    Procs = {p, q}
    Names = {web}
    Tokens = {t1, t2}
    Cap = 2
    Page = 3
    MaxPush = 5
CHECK_DEADLOCK FALSE
INVARIANTS
    GivesUpOnTime
    BackoffFollowsFailures
    NothingIsCutOff
    ClientHearsTheTruth
    PermitsComeBack
    PinReachesTheListener
    OneOwnerPerStateFile
    LogsKeepTheLatest
PROPERTIES
    PinLeavesTheHeader
    HandshakesEnd
    ProxyEndsWithItsConnection
    StopFreesThePort
    FailedProxyCanRestart
    ShutdownEndsTheDial
    ImplementsPipe
    SetupsEnd
    BridgesEnd
    TokenBannerHides
