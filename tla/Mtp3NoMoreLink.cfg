CONSTANTS
    a = a
    b = b
    here = here
    there = there
    far = far
    NumLinks = 2
    Configured = {"t2", "t4", "t10", "t19", "t21"}
    Msg = {a}
    Sls <- OneEach
    Dest = {far}
    Dpc <- SameDest
    Sp = {here, there}
    AdjSp <- TwoSps
    MaxEvents = 2
    Topic = {"routes"}
    Given <- MayGive
    Unstable <- MayFail
    Managed <- OnLink0
    PeerSends <- MaySend
    Commands <- MayCommand
    Alarms <- MayAlarm
    Restarts <- MayRestart
    StartsUp <- MayBeUp
SPECIFICATION Spec
INVARIANTS
    NoMoreLinkTimed
