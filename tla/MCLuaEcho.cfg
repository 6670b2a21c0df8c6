\* Lines shorter and longer than a read, timers and a shutdown in any order.
CONSTANTS
    ReadBufSize = 3
    MaxLate = 1
    Byte = {"q", "t", "nl"}
    NL = "nl"
    Quit <- MCQuit
    MaxLine = 2
    MaxReceived = 6
SPECIFICATION Spec
INVARIANTS
    MessageOutlivesWrite
PROPERTIES
    ImplementsSession
CHECK_DEADLOCK FALSE
