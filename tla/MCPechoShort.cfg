\* Reads that end before the block is full, as those of a socket do.
CONSTANTS
    Byte <- MCByte
    LF = "lf"
    CR = "cr"
    Dot = "dot"
    Space = "sp"
    Alnum <- MCAlnum
    Zero = "a"
    Lower <- MCLower
    Upper <- MCUpper
    Word <- MCWord
    BlockSizes = {8}
    OutSizes = {8}
    Fresh = {"x"}
    Bodies <- OneBody
    MaxLines = 2
    Others <- NoOthers
    Echos = 1
    Client <- MCClient
    FullReads = FALSE
SPECIFICATION Spec
INVARIANTS
    ExpectedResult
CHECK_DEADLOCK FALSE
