SPECIFICATION FairSpec
CONSTANTS
    Goroutines = {g1, g2, g3}
    Peers = {p1}
    NoPeer = NoPeer
    MaxEntries = 2
    MaxCard = 1
    InCluster = TRUE
    MayPanic = TRUE
INVARIANTS
    TypeOK
    BuiltClientKept
    FailureNotCached
    ForgetTakesEffect
    HashMatchesCachedClient
PROPERTY
    CallsReturn
