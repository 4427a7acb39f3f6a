CONSTANTS
    SeqMod = 2
    MaxEvents = 2
    MaxSched = 3
    Msu = {m1}
    NoMsu = NoMsu
    MaxQueue = 1
    Alarms = FALSE
    DahdiMtp2 = FALSE
    PeerSu <- ControlPeer
SPECIFICATION FairSpec
INVARIANTS
    TypeOK
    TimersMatchState
PROPERTIES
    AlignmentEnds
