CONSTANTS
    Configured <- Timer
    AskCalling = TRUE
    PC = 1
    OPC = 2
    CIC = 2
    Topic <- Topics
    PeerSends <- Sends
    Uses <- Functions
    Envs <- Around
SPECIFICATION FairSpec
INVARIANTS
    TypeOK
    TimersJustified
PROPERTIES
    KeepsAsking
    ReleaseEscalates
    SetupEnds
