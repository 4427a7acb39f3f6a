CONSTANTS
    a = a
    b = b
    here = here
    there = there
    far = far
    NumLinks = 2
    Configured = {"t2", "t4", "t5", "t13", "t14", "t22", "t23"}
    Msg = {a, b}
    Sls <- OneEach
    Dest = {far}
    Dpc <- SameDest
    Sp = {here}
    AdjSp <- OneSp
    MaxEvents = 2
    Topic = {"changeover", "inhibit"}
    Given <- MayGive
    Unstable <- MayFail
    Managed <- OnLink0
    PeerSends <- MaySend
    Commands <- MayCommand
    Alarms <- MayAlarm
    Restarts <- MayRestart
    StartsUp <- MayBeUp
SPECIFICATION Spec
INVARIANTS
    OneCopy
    TimersOwned
    ChangebackTimed
    InhibitedUnused
    InhibitTested
    RequestsTimed
PROPERTIES
    WaitingKept
