SPECIFICATION StartSpec
CONSTANTS
    MaxCount = 2
    MaxTicks = 3
    MaxReceived = 2
    Devices = {d1, d2}
    None = None
INVARIANTS
    WithinLimits
    Verdicts
    RightDevice
    RightSource
PROPERTIES
    DeadlineEnds
    CountEnds
