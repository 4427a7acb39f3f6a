CONSTANTS
    MaxSched = 3
    TimerVar = {"t1", "t7", "q707"}
    UsecPerMs = 1
    MsPerSec = 3
    Durations = {0, 2, 4}
    MaxTime = 4
SPECIFICATION Spec
INVARIANTS
    TypeOK
    Owned
    NoneLeftBehind
    WakesInTime
PROPERTIES
    NeverEarly
