\* Disconnect while the proxy runs.
SPECIFICATION FairSpec
CONSTANTS
    Conns = {c1}
    Proxies = {p1}
    None = None
    CommandCap = 1
    MaxKeys = 2
PROPERTIES
    DisconnectDropsTheConnection
