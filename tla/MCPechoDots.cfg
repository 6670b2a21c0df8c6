\* Three lines that begin with a dot, in one block.
CONSTANTS
    Byte <- MCByte
    LF = "lf"
    CR = "cr"
    Dot = "dot"
    Space = "sp"
    Alnum <- MCAlnum
    Zero = "a"
    Lower <- MCLower
    Upper <- MCUpper
    Word <- MCWord
    BlockSizes = {64}
    OutSizes = {64}
    Fresh = {"x"}
    Bodies <- DotBody
    MaxLines = 3
    Others <- NoOthers
    Echos = 1
    Client <- MCClient
    FullReads = TRUE
SPECIFICATION Spec
INVARIANTS
    ExpectedResult
CHECK_DEADLOCK FALSE
