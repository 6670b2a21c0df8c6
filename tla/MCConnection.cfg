\* Safety and liveness: the client's bytes, the server's timers and a shutdown in any order.
CONSTANTS
    ReadBufSize = 4
    MaxLate = 1
    Byte = {"q", "t", "nl"}
    NL = "nl"
    Quit <- MCQuit
    MaxReceived = 5
SPECIFICATION FairSpec
INVARIANTS
    TypeOK
    ReadFits
    HalfDuplex
    NoOrphan
    EchoFaithful
    NothingUnanswered
PROPERTIES
    NoServiceAfterLeaving
    ImplementsSession
    ClientsLeave
    SessionEnds
CHECK_DEADLOCK FALSE
