SPECIFICATION Spec
CONSTANTS
    Msgs = {m1}
    Ttls = {1}
    Skews = {0, 1}
    MaxAge = 1
    CleanupInterval = 1
    SweepPeriod = 1
    MaxTime = 4
    MaxOpens = 2
    MaxFaults = 1
INVARIANTS
    GoneStaysGone
    SweptInTime
    ScreenIsStored
    AgedOutInTime
