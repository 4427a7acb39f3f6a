CONSTANTS
    a = a
    b = b
    here = here
    there = there
    far = far
    NumLinks = 1
    Configured = {"q707_t1", "q707_t2", "t19", "t21"}
    Msg = {}
    Sls <- NoMessage
    Dest = {}
    Dpc <- NoMessage
    Sp = {here}
    AdjSp <- OneSp
    MaxEvents = 2
    Topic = {"restart"}
    Given <- MayGive
    Unstable <- MayFail
    Managed <- OnLink0
    PeerSends <- MaySend
    Commands <- MayCommand
    Alarms <- MayAlarm
    Restarts <- MayRestart
    StartsUp <- MayBeUp
SPECIFICATION FairSpec
INVARIANTS
    TypeOK
    StateFollows
    ToldTruth
    TraTimed
PROPERTIES
    ToldInTheEnd
