CONSTANTS
    west = west
    east = east
    End <- TwoEnds
    SeqMod = 3
    MaxEvents = 2
    MaxSched = 3
    Msu <- Numbers
    NoMsu = 0
    MaxLine = 2
    Topic = {"loss", "restart", "meet", "stopped"}
    Lasting = {"loss", "meet"}
    MaxMsgs <- Messages
    Reserve <- ForTests
    Window <- Together
    MaxFaults <- Faults
    Firing <- RunOut
    Faulty <- GoesWrong
    StopStates <- Stopped
    Timely <- Outlast
    Aligned <- InService
SPECIFICATION FairSpec
INVARIANTS
    RetransmitPosLive
PROPERTIES
    ReliableService
    AllDelivered
    BothInService
