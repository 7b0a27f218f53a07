\* Seven keys, and channels that a burst of three commands overflows.
SPECIFICATION FairSpec
CONSTANTS
    ChannelCap = 2
    MaxKeys = 7
\* The process exits.
CHECK_DEADLOCK FALSE
INVARIANTS
    TypeOK
    OneSessionAtATime
    ServingIsShown
    SessionIsShown
    NoLeftoverStatus
PROPERTIES
    EverythingUnwinds
