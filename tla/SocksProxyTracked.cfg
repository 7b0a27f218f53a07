\* Start, Stop and Start again on one connection.
SPECIFICATION Spec
CONSTANTS
    Conns = {c1}
    Proxies = {p1, p2}
    None = None
    CommandCap = 2
    MaxKeys = 4
INVARIANTS
    RunningIsTracked
