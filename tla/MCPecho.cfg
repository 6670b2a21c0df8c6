\* The sizes and the contents of pechoHandler-gTest.cpp, and dots in them.
CONSTANTS
    Byte <- MCByte
    LF = "lf"
    CR = "cr"
    Dot = "dot"
    Space = "sp"
    Alnum <- MCAlnum
    Zero = "a"
    Lower <- MCLower
    Upper <- MCUpper
    Word <- MCWord
    BlockSizes = {1, 2, 3, 4, 16}
    OutSizes = {1, 2, 3}
    Fresh = {"x"}
    Bodies <- MCBodies
    MaxLines = 2
    Others <- MCOthers
    Echos = 1
    Client <- MCClient
    FullReads = TRUE
SPECIFICATION FairSpec
INVARIANTS
    TypeOK
    InBounds
    ExpectedResult
PROPERTIES
    ConnectionCloses
CHECK_DEADLOCK FALSE
