\* Two dialers on two slots, and one rotation more than the cache holds.
SPECIFICATION Spec
CONSTANTS
    Dialers = {d1, d2}
    NoPeer = NoPeer
    Conns = {c1, c2}
    RecentPinCache = 2
    MaxPins = 3
SYMMETRY Symmetry
INVARIANTS
    TypeOK
    OnlyThePairIsServed
    OnlyGenuineCredentials
    HeaderIsAccurate
    StoppedIsClean
PROPERTIES
    ThePairMayReturn
    ImplementsOnePair
