\* Two overlapping connections compete for the port; three proxy tasks.
SPECIFICATION Spec
CONSTANTS
    Conns = {c1, c2}
    Proxies = {p1, p2, p3}
    None = None
    CommandCap = 2
    MaxKeys = 4
SYMMETRY Symmetry
INVARIANTS
    TypeOK
    BoundIsReal
    TokenIsLive
