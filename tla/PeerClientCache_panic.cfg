SPECIFICATION Spec
CONSTANTS
    Goroutines = {g1, g2}
    Peers = {p1}
    NoPeer = NoPeer
    MaxEntries = 2
    MaxCard = 1
    InCluster = TRUE
    MayPanic = TRUE
INVARIANT
    NilErrorMeansClient
