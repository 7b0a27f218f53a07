\* Three keys are enough: listen, open the form, connect.
SPECIFICATION Spec
CONSTANTS
    ChannelCap = 2
    MaxKeys = 3
CHECK_DEADLOCK FALSE
INVARIANTS
    OnePairing
