CONSTANTS
    SeqMod = 3
    MaxEvents = 1
    MaxSched = 2
    Msu = {m1, m2}
    NoMsu = NoMsu
    MaxQueue = 2
    Alarms = TRUE
    DahdiMtp2 = TRUE
    PeerSu <- DataPeer
SYMMETRY MsuSymmetry
SPECIFICATION Spec
INVARIANTS
    TxBufConsecutive
    UpMeansInService
