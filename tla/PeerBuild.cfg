SPECIFICATION Spec
CONSTANTS
    Goroutines = {g1, g2}
    x = x
    Blank = Blank
    NoPeer = NoPeer
    Peers = {x, Blank}
    Topologies <- SomeTopologies
    Headers <- SomeHeaders
    MaxEnvChanges = 1
SYMMETRY BuildSymmetry
INVARIANTS
    TypeOK
    HeadersVerdict
    OneTopology
    StableBuildAgrees
    UnverifiedOnlyIfListed
