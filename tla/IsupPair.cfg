CONSTANTS
    A = A
    B = B
    End = {A, B}
    PointCode <- Points
    CIC = 1
    Configured = {"T1", "T5", "T7", "T16", "T17", "T18", "T19"}
    AskCalling = TRUE
    CauseLocation = 1
    IsdnAccess = TRUE
    Topic = {"itu", "ansi", "talk", "seizure", "group", "blocking", "faults"}
    Switch <- Kinds
    Dials <- MayDial
    Groups <- MayBlock
    Answers <- MayAnswer
    During <- MayTell
    Cause <- Causes
    MaxLost <- Losses
    MaxHurry <- Hurries
    MaxCalls <- Calls
SPECIFICATION FairSpec
INVARIANTS
    ToldIsSaid
    OneOwner
PROPERTIES
    RequestsEnd
CHECK_DEADLOCK FALSE
