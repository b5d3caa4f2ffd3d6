SPECIFICATION FairSpec
CONSTANTS
    HisSize = 3
    MaxTries = 1
    TtlMod = 3
    PortMod = 16
    base_port = 10
    max_hops = 2
    Family = 4
    InitialMtu = 2
    MaxAnswers = 2
    MaxSends = 9
INVARIANTS
    TraceTypeOK
    HopsAttributed
PROPERTIES
    NeverTooNear
    TraceEnds
