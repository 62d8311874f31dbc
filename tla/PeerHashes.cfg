SPECIFICATION FairSpec
CONSTANTS
    Goroutines = {g1, g2}
    Peers = {p1, p2}
    Hashes = {h1, h2}
    NoEntry = NoEntry
    Absent = Absent
    Torn = Torn
    NoCall = NoCall
    Nobody = Nobody
    MaxIncarnation = 2
INVARIANTS
    TypeOK
    NeverTorn
    RecordedStays
    NoStaleEntry
    OneTempFile
PROPERTIES
    ImplementsRegister
    CallsReturn
