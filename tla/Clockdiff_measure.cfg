SPECIFICATION Spec
CONSTANTS
    Day = 16
    Settings <- MCSettings
    MaxDelay = 2
    Msgs = 2
    Trials = 1
    MaxTime = 4
    MaxSeq = 3
INVARIANTS
    DeltaIsOffset
    OneWayMinima
    DownMeansSilent
